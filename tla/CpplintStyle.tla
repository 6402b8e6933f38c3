---------------------------- MODULE CpplintStyle ----------------------------
(***************************************************************************)
(* What cpplint.py finds on one line: CheckStyle, CheckLanguage, the first *)
(* part of CheckForNonStandardConstructs, CheckPosixThreading and          *)
(* CheckInvalidIncrement.  Every operator is the sequence of its findings, *)
(* all of them errors at that line.  Braces, comments, semicolons and the  *)
(* lines around are read from the tokens; a regular expression about       *)
(* spaces or spelling is a mark: line.marks are the patterns, each written *)
(* as an example of what it matches, that match the line.                  *)
(***************************************************************************)
EXTENDS CpplintLines

Find(test, group, name, confidence) ==
    IF test THEN <<[category |-> <<group, name>>, confidence |-> confidence]>> ELSE <<>>

\* The tokens s, one after the other.
Occurs(tok, s) == \E i \in 1..(Len(tok) - Len(s) + 1) : SubSeq(tok, i, i + Len(s) - 1) = s

\* The place of the last line before ix that is not blank, or 0.
GetPreviousNonBlankLine(lines, ix) == Max({0} \cup {i \in 1..(ix - 1) : Elided(lines[i]) # <<>>})
PreviousLine(lines, ix) ==
    LET i == GetPreviousNonBlankLine(lines, ix) IN IF i = 0 THEN <<>> ELSE Elided(lines[i])

-----------------------------------------------------------------------------
(* Braces.                                                                 *)

\* Is there a brace behind the parenthesis that closes those of line ix?  The code counts them
\* from the start of the line, and raises if they stay open to the end of the file.
ClosedWithBrace(lines, ix) ==
    LET Open(j) == LET tok == FlattenSeq([i \in 1..(j - ix + 1) |-> Elided(lines[ix + i - 1])])
                   IN  Count(tok, "(") - Count(tok, ")")
        end == Min({j \in ix..Len(lines) : Open(j) <= 0})
        tok == Elided(lines[end])
        closes == {i \in DOMAIN tok : tok[i] = ")"}
    IN  Open(end) = 0 /\ Has(SubSeq(tok, Max(closes), Len(tok)), "{")

\* A brace on one side of an else: } else with none behind it, or else { with none before it.
OneSidedElse(lines, ix) ==
    LET line == Elided(lines[ix])
        Behind(i) == SubSeq(line, i, Len(line))
        Ends(s) == {i \in DOMAIN line : IsPrefix(s, Behind(i)) /\ ~Has(Behind(i), "{")}
        multi == Ends(<<"}", "else", "if">>)
    IN  IF multi # {} THEN Has(Behind(Min(multi)), "(") /\ ~ClosedWithBrace(lines, ix)
        ELSE \/ Ends(<<"}", "else">>) # {}
             \/ \E i \in DOMAIN line : IsPrefix(<<"else", "{">>, Behind(i)) /\ ~Has(SubSeq(line, 1, i), "}")

BracesBeforeSemicolon(tok) == Has(tok, "{") /\ Occurs(SubSeq(tok, First(tok, "{"), Len(tok)), <<"}", ";">>)

\* The line, and the lines before it as long as they together are an indented { ... }; and no
\* line before has a semicolon.  The first line of code of a file is never of this form: there
\* the code would join the empty line to it for ever.
RECURSIVE JoinedLine(_, _, _)
JoinedLine(lines, ix, tok) ==
    LET prev == PreviousLine(lines, ix)
    IN  IF ix > 0 /\ ~lines[ix].col0 /\ tok # <<>> /\ tok[1] = "{" /\ BracesBeforeSemicolon(tok) /\ ~Has(prev, ";")
        THEN JoinedLine(lines, GetPreviousNonBlankLine(lines, ix), prev \o tok) ELSE tok

CheckBraces(lines, ix) ==
    LET line == Elided(lines[ix])
        prev == PreviousLine(lines, ix)
        joined == JoinedLine(lines, ix, line)
        Followed(t) == \E i \in 1..(Len(line) - 1) : line[i] = t /\ line[i + 1] # "{"
    IN  Find(line = <<"{">> /\ (prev = <<>> \/ Last(prev) \notin {";", ":", "}", "{"}), "whitespace", "braces", 4)
        \o Find(IsPrefix(<<"else">>, line) /\ prev = <<"}">>, "whitespace", "newline", 4)
        \o Find(OneSidedElse(lines, ix), "readability", "braces", 5)
        \o Find(Followed("else") /\ ~Occurs(line, <<"else", "if">>), "whitespace", "newline", 4)
        \o Find(IsPrefix(<<"do">>, line) /\ Len(line) > 1 /\ line[2] # "{", "whitespace", "newline", 4)
        \o Find(/\ BracesBeforeSemicolon(joined) /\ Count(joined, "{") = Count(joined, "}")
                /\ \A t \in {"struct", "class", "enum"} : ~Has(joined, t)
                /\ ~Occurs(joined, <<"=", "{">>), "readability", "braces", 4)

-----------------------------------------------------------------------------
(* Spaces and blank lines.                                                 *)

\* A blank line after the { that opens a block, unless the line of the brace ends a function
\* header or a list of initializers that did not fit on one line.
BlankAtStart(lines, ix) ==
    LET prev == IF ix = 1 THEN <<>> ELSE Elided(lines[ix - 1])
        brace == Max({0} \cup {i \in DOMAIN prev : prev[i] = "{"})
        Deep(i) == "      x" \in lines[i].marks
        before == {i \in 1..(ix - 2) : ~Deep(i)}
        exception == IF Deep(ix - 1) THEN before # {} /\ "    :" \in lines[Max(before)].marks
                     ELSE {"    x) {", "    :"} \cap lines[ix - 1].marks # {}
    IN  /\ brace > 0 /\ ~Has(SubSeq(prev, brace, Len(prev)), "}") /\ ~Has(SubSeq(prev, 1, brace), "namespace")
        /\ ~exception

\* A blank line before a }, except that of a namespace and that of an else.
BlankAtEnd(lines, ix) ==
    /\ ix < Len(lines)
    /\ LET next == lines[ix + 1].tok
           else == {i \in 1..(Len(next) - 2) : next[i] = "}" /\ next[i + 1] = "else"}
       IN  IsPrefix(<<"}">>, next) /\ ~Has(next, "namespace") /\ else = {}

CheckComment(m) ==
    Find("//  TODO" \in m, "whitespace", "todo", 2) \o Find("TODO:" \in m, "readability", "todo", 2)
      \o Find("TODO(user)x" \in m, "whitespace", "todo", 2)

CheckSpacingForFunctionCall(m) ==
    IF m \cap {"return (", " (T)(x)", " (x)[n]"} # {} THEN <<>>
    ELSE (IF "f( x" \in m THEN Find(TRUE, "whitespace", "parens", 4) ELSE Find("( x" \in m, "whitespace", "parens", 2))
         \o Find("f (" \in m /\ "#define" \notin m, "whitespace", "parens", 4)
         \o Find("x ) y" \in m, "whitespace", "parens", 2)

\* Spaces around the operators and inside the parentheses, around braces and before a semicolon.
SpacingInLine(line, m) ==
    Find("a=b" \in m /\ "if " \notin m, "whitespace", "operators", 4)
    \o Find("a==b" \in m \/ ("a<b" \in m /\ "T<a," \notin m), "whitespace", "operators", 3)
    \o Find("a<<b" \in m, "whitespace", "operators", 3)
    \o Find("! a" \in m, "whitespace", "operators", 4)
    \o Find(" if(" \in m, "whitespace", "parens", 5)
    \o Find("if ( a) {" \in m /\ "for ( ; a) {" \notin m, "whitespace", "parens", 5)
    \o Find("if (  a  ) {" \in m, "whitespace", "parens", 5)
    \o Find(",a" \in m, "whitespace", "comma", 3)
    \o CheckSpacingForFunctionCall(m)
    \o Find("a{" \in m, "whitespace", "braces", 5) \o Find("}else" \in m, "whitespace", "braces", 5)
    \o Find("a [" \in m /\ "delete [" \notin m, "whitespace", "braces", 5)
    \o Find(IsSuffix(<<":", ";">>, line) \/ line = <<";">> \/ ("a ;" \in m /\ ~Has(line, "for")), "whitespace", "semicolon", 5)

CheckSpacing(lines, ix) ==
    LET m == lines[ix].marks
        blank == lines[ix].tok = <<>>
    IN  Find(blank /\ BlankAtStart(lines, ix), "whitespace", "blank_line", 2)
        \o Find(blank /\ BlankAtEnd(lines, ix), "whitespace", "blank_line", 3)
        \o (IF ~HasComment(lines[ix].tok) THEN <<>>
            ELSE Find("x //" \in m, "whitespace", "comments", 2) \o Find("//x" \in m, "whitespace", "comments", 4)
                 \o CheckComment(m))
        \o SpacingInLine(Elided(lines[ix]), m)

-----------------------------------------------------------------------------
(* CheckStyle.                                                             *)

\* A CHECK that compares with a literal, in an expression without NULL, && and ||.
CheckCheck(m) == Find("CHECK(a == 1)" \in m /\ m \cap {"NULL", "&&"} = {}, "readability", "check", 2)

CheckStyle(lines, ix, name, guard) ==
    LET raw == lines[ix].tok
        m == lines[ix].marks
        line == Elided(lines[ix])
        prev == PreviousLine(lines, ix)
        isHeaderGuard == name.ext = "h" /\ \E s \in {<<"#ifndef", guard>>, <<"#define", guard>>, <<"#endif", "//", guard>>} : IsPrefix(s, raw)
        mayBeLong == IsPrefix(<<"#include">>, raw) \/ isHeaderGuard \/ "// http:" \in m
        oneCase == (Has(line, "case") \/ Has(line, "default:")) /\ Has(line, "break")
    IN  Find("tab" \in m, "whitespace", "tab", 1)
        \o (IF "x  " \in m THEN Find(TRUE, "whitespace", "end_of_line", 4)
            ELSE IF " x" \in m /\ "label:" \notin m THEN Find(TRUE, "whitespace", "indent", 3)
            ELSE Find(lines[ix].col0 /\ Len(raw) > 1 /\ raw[1] # "//" /\ Last(raw) = ":", "whitespace", "labels", 4))
        \o (IF mayBeLong THEN <<>>
            ELSE IF "100" \in m THEN Find(TRUE, "whitespace", "line_length", 4)
            ELSE Find("80" \in m, "whitespace", "line_length", 2))
        \o Find(Count(line, ";") > 1 /\ ~Has(line, "for") /\ (~Has(prev, "for") \/ Has(prev, ";")) /\ ~oneCase,
                "whitespace", "newline", 4)
        \o CheckBraces(lines, ix) \o CheckSpacing(lines, ix) \o CheckCheck(m)

-----------------------------------------------------------------------------
(* CheckLanguage, for a line that is not empty and does not include.       *)

\* A cast, sizeof of a type, or a function whose parameter has no name: behind it comes ) = or ;
\* or a body, where a comment may stand for the name.
CheckCStyleCast(line, cast, size, unnamed, body) ==
    LET m == line.marks
    IN  IF size \in m THEN Find(TRUE, "runtime", "sizeof", 1)
        ELSE IF unnamed \in m THEN Find(TRUE, "readability", "function", 3)
        ELSE IF body \in m THEN Find(~Has(line.tok, "/*"), "readability", "function", 3)
        ELSE Find(cast \in m, "readability", "casting", 4)

\* References, casts, and the basic types.
LanguageOfTypes(lines, ix, name) ==
    LET m == lines[ix].marks
        line == Elided(lines[ix])
    IN  Find("f(T& x)" \in m /\ "swap(T& x)" \notin m, "runtime", "references", 2)
        \o Find("int(x)" \in m /\ m \cap {"new int(x)", "MOCK_METHOD("} = {}, "readability", "casting", 4)
        \o CheckCStyleCast(lines[ix], "(int)x", "sizeof(int)", "f(int);", "f(int) {")
        \o CheckCStyleCast(lines[ix], "(T*)x", "sizeof(T*)", "f(T*);", "f(T*) {")
        \o Find("&(T)x" \in m, "runtime", "casting", 4)
        \o Find("string s" \in m /\ "string s(x)" \notin m, "runtime", "string", 4)
        \o Find(Has(line, "dynamic_cast<") /\ ~IsTestFilename(name), "runtime", "rtti", 5)
        \o Find("x_(x_)" \in m, "runtime", "init", 4)
        \o Find(IF "short port" \in m THEN "unsigned short port" \notin m ELSE "long" \in m, "runtime", "int", 4)

\* Functions, arrays and namespaces.
LanguageOfCalls(lines, ix, name) ==
    LET m == lines[ix].marks
        line == Elided(lines[ix])
    IN  Find("snprintf(b, 1," \in m, "runtime", "printf", 3) \o Find("sprintf" \in m, "runtime", "printf", 5)
        \o Find("strcpy" \in m, "runtime", "printf", 4) \o Find("sscanf" \in m, "runtime", "printf", 1)
        \o Find("operator&()" \in m, "runtime", "operator", 4)
        \o Find(Occurs(line, <<"}", "if", "(">>), "readability", "braces", 4)
        \o Find("printf(x)" \in m, "runtime", "printf", 4)
        \o Find("memset(b, n, 0)" \in m, "runtime", "memset", 4)
        \o Find("using namespace" \in m, "build", "namespaces", 5)
        \o Find("int a[n];" \in m, "runtime", "arrays", 1)
        \o Find(IsPrefix(<<"DISALLOW(">>, line) /\ ix < Len(lines) /\ ~IsPrefix(<<"}", ";">>, Elided(lines[ix + 1])),
                "readability", "constructors", 3)
        \o Find(name.ext = "h" /\ Occurs(line, <<"namespace", "{">>) /\ Last(line) # "\\", "build", "namespaces", 4)

CheckLanguage(lines, ix, name) ==
    IF Elided(lines[ix]) = <<>> \/ lines[ix].include # NoInclude THEN <<>>
    ELSE LanguageOfTypes(lines, ix, name) \o LanguageOfCalls(lines, ix, name)

-----------------------------------------------------------------------------
(* Constructs, functions and operators.                                    *)

NonStandardConstructs(l) ==
    LET m == l.marks
        line == Elided(l)
    IN  Find("printf(%q" \in m, "runtime", "printf_format", 3) \o Find("printf(%1$" \in m, "runtime", "printf_format", 2)
        \o Find("\\%" \in m, "build", "printf_format", 3)
        \o Find("int static" \in m, "build", "storage_class", 5)
        \o Find(IsPrefix(<<"#endif">>, line) /\ Len(line) > 1, "build", "endif_comment", 5)
        \o Find("class A::B;" \in m, "build", "forward_decl", 5)
        \o Find("a >? b" \in m, "build", "deprecated", 3)
        \o Find("const string& s;" \in m, "runtime", "member_string_references", 2)

ThreadUnsafe == {"asctime(", "ctime(", "getgrgid(", "getgrnam(", "getlogin(", "getpwnam(", "getpwuid(",
                 "gmtime(", "localtime(", "rand(", "readdir(", "strtok(", "ttyname("}

\* Each function once, at its first call, unless that is the call of a member.
CheckPosixThreading(line) ==
    LET Called(f) == Has(line, f) /\ (First(line, f) = 1 \/ line[First(line, f) - 1] \notin {".", "->"})
    IN  FlattenSeq([i \in 1..Cardinality({f \in ThreadUnsafe : Called(f)}) |-> Find(TRUE, "runtime", "threadsafe_fn", 2)])

CheckInvalidIncrement(line) ==
    Find(Len(line) >= 4 /\ line[1] = "*" /\ line[3] \in {"++", "--"} /\ line[4] = ";", "runtime", "invalid_increment", 5)
=============================================================================
