----------------------------- MODULE MCCpplint -----------------------------
(***************************************************************************)
(* Every short sequence of include lines, of the lines of classes and of   *)
(* lines with braces, else and blanks, files with every pattern, and pairs *)
(* of files with comments, NOLINT and guards.                              *)
(***************************************************************************)
EXTENDS Cpplint

File(dir, base, suffix, ext) == [dir |-> dir, base |-> base, suffix |-> suffix, ext |-> ext]
cc == File(<<"src", "internal">>, <<"foo">>, "", "cc")
hh == File(<<"src">>, <<"foo">>, "", "h")
cfile == File(<<"src">>, <<"foo">>, "", "c")
test == File(<<"src">>, <<"foo">>, "test", "cc")
gone == File(<<>>, <<"gone">>, "", "cc")
stdio == File(<<>>, <<"stdio">>, "", "h")
string == File(<<>>, <<"string">>, "", "")
vector == File(<<>>, <<"vector">>, "", "")
iostream == File(<<>>, <<"iostream">>, "", "")

Include(sys, name) == [Text(<<"#include">>) EXCEPT !.include = [sys |-> sys, name |-> name]]
IncludeLines == {Include(TRUE, stdio), Include(TRUE, string), Include(TRUE, iostream), Include(FALSE, hh),
                 Include(FALSE, File(<<"src", "public">>, <<"foo">>, "inl", "h")),
                 Include(FALSE, File(<<>>, <<"foo", "bar">>, "", "h")), Include(FALSE, File(<<>>, <<"util">>, "", "h"))}
In(tok) == [Text(tok) EXCEPT !.col0 = FALSE]
ClassLines == {Text(<<"class", "A", "{">>), Text(<<"class", "B">>), Text(<<"class", "A", ";">>), Text(<<":", "A", "{">>),
               Text(<<"virtual", "g", "{">>), Text(<<"virtual", "~", "A", "(", ")", ";">>), Text(<<"}", ";">>)}
\* A constructor, a class that goes on behind a semicolon, and two that end at once.
RareLines == {In(<<"A", "(", "x", ")", ";">>), Text(<<"class", "B", "{", "x", ";">>), Text(<<"}", "}", ";">>)}

Seqs(S, n) == UNION {[1..k -> S] : k \in 1..n}
Balanced(s) == \A n \in DOMAIN s : LET C(t) == Count(FlattenSeq([i \in 1..n |-> s[i].tok]), t) IN C("}") <= C("{")
Closed(s) == \A i \in DOMAIN s : s[i].tok \in {<<":", "A", "{">>} <=> i > 1 /\ s[i - 1].tok = <<"class", "B">>

Lint(category, line) == [line EXCEPT !.nolint = category]
Flawed(line) == [line EXCEPT !.marks = {"tab", "int static"}]
Blank == Text(<<>>)
Guarded(a, b) ==
    <<Text(<<"//", "Copyright">>), a, Text(<<"#define", "FOO_H_">>), Flawed(Lint(<<"whitespace", "tab">>, Include(TRUE, string))),
      Lint(All, Text(<<"class", "A", "{">>)), Text(<<"virtual", "h", ";">>), Text(<<"}", ";">>), Lint(<<"bad", "bad">>, Text(<<"x">>)), b, Blank>>
Headers == {Guarded(a, b) : a \in {Lint(All, Text(<<"#ifndef", "FOO_H_">>)), Text(<<"#ifndef", "BAR_H">>)},
                            b \in {Text(<<"#endif", "//", "FOO_H_">>), Lint(<<"build", "header_guard">>, Text(<<"#endif", "//", "FOO">>)), Blank}}
Functions == {<<Text(<<"f(">>), Flawed(Text(<<"{">>)), Flawed(Text(<<"x", "vector<", "//", "}">>)), Lint(All, Text(<<"s", Quote, "//", Quote, ";">>)),
                Text(<<"/*", "NOLINT">>), Lint(All, Flawed(Text(<<"class", "A", "{">>))), Text(<<"x", "*/">>),
                Flawed(Text(<<"x", "/*", "{", "*/", Quote, "{", Quote, "utf8">>)), Lint(<<"readability", "fn_size">>, Text(<<"}">>)), Include(FALSE, hh)>> \o t :
                t \in {<<Blank>>, <<Text(<<"TEST(">>)>>, <<Text(<<"/*", "open">>), Lint(All, Text(<<"x">>))>>, <<Text(<<"TEST(", "{">>), Text(<<"x", Quote>>), Text(<<"}">>)>>,
                       <<Text(<<"class", "A", "{">>), Include(TRUE, vector), Include(TRUE, vector)>>}}

\* Lines with braces, and one line for each pattern or rule of a single line.
Marked(tok, m) == [Text(tok) EXCEPT !.marks = m]
BraceLines == {Blank, In(<<"{">>), In(<<"}">>), In(<<"else", "x", ";">>), In(<<"}", "else", "if", "(", "a">>),
               In(<<"b", ")", "{">>), In(<<"b", ")">>), Lint(All, In(<<"}", "else", "{">>)), In(<<"{", "x", "}", ";">>), In(<<"x", "=", "{">>),
               Marked(<<":", "a", "{">>, {"    :"}), Marked(<<"b", "{">>, {"      x"})}
Closing(s) == \A i \in DOMAIN s : Has(s[i].tok, "(") =>
                \E j \in i..3 : LET t == FlattenSeq([k \in 1..(j - i + 1) |-> s[i + k - 1].tok]) IN Count(t, "(") <= Count(t, ")")
Braces == {s \in [1..3 -> BraceLines] : s[1].tok # <<"{", "x", "}", ";">> /\ Closing(s)}

Patterns == {"x  ", " x", "label:", "80", "100", "// http:", "a=b", "if ", "a==b", "a<b", "T<a,", "a<<b", "! a", " if(", "if ( a) {", "for ( ; a) {",
             "if (  a  ) {", ",a", "return (", "f( x", "( x", "f (", "#define", "x ) y", "a{", "}else", "a [", "delete [", "a ;", "x //", "//x",
             "//  TODO", "TODO:", "TODO(user)x", "CHECK(a == 1)", "NULL", "(int)x", "sizeof(int)", "f(T*);", "f(T*) {", "f(T& x)", "swap(T& x)",
             "int(x)", "new int(x)", "&(T)x", "string s", "string s(x)", "x_(x_)", "short port", "unsigned short port", "long", "snprintf(b, 1,",
             "sprintf", "strcpy", "sscanf", "operator&()", "printf(x)", "memset(b, n, 0)", "using namespace", "int a[n];", "printf(%q",
             "printf(%1$", "\\%", "class A::B;", "a >? b", "const string& s;"}
Singles == {Text(<<"a", ":">>), In(<<"a", ";", "b", ";">>), In(<<"case", "a", ";", "break", ";">>), In(<<"do", "x">>), Text(<<":", ";">>),
            Text(<<"dynamic_cast<">>), Text(<<"}", "if", "(">>), Text(<<"DISALLOW(">>), Text(<<"namespace", "{">>), Text(<<"#endif", "x">>),
            Text(<<"rand(", "x", ".", "rand(", "gmtime(">>), Text(<<"*", "x", "++", ";">>), Text(<<"}", "//", "namespace">>)}
Plain == {<<l, Lint(<<"readability", "braces">>, Blank), e>> : l \in Singles, e \in {Text(<<"}", ";">>), Lint(All, Blank)}}
Pairs == {{p, q} : p \in Patterns, q \in {"if ", "80", "NULL", "delete ["}} \cup {{"T<a,", "a<b"}, {"a{", "f( x", "#define", "f ("}, {"swap(T& x)", "f(T& x)"}}
Styled == {<<Marked(<<"x", "//", "/*">>, m), Lint(All, Marked(<<"x">>, m))>> : m \in Pairs}

One(name, lines) == name :> [lines |-> lines, cr |-> FALSE]
Minus(prefix) == [sign |-> "-", prefix |-> prefix]
Plus(prefix) == [sign |-> "+", prefix |-> prefix]
OptionLists == {<<>>, <<<<"verbose", 0>>, <<"counting", "detailed">>, <<"filter", <<Plus(<<>>)>>>>>>,
                <<<<"filter", <<Minus(<<"build">>), Plus(<<"build", "include_order">>), Minus(<<"whitespace">>)>>>>, <<"counting", "toplevel">>>>,
                <<<<"filter", <<Minus(<<"build", "include">>), Plus(<<"build", "include_order">>)>>>>>>}
BadOptions == {<<<<"filter", <<>>>>, <<"unknown", "">>>>, <<<<"output", "bad">>, <<"filter", <<>>>>>>, <<<<"help", "">>>>, <<<<"filter", <<>>>>>>, <<<<"filter", <<[sign |-> "", prefix |-> <<"build">>]>>>>>>}

Command(o, f, src) == [opts |-> o, files |-> f, src |-> src]
MCCommands ==
    {Command(<<>>, <<cc>>, One(cc, s)) : s \in Seqs(IncludeLines, 4)}
    \cup {Command(<<>>, <<cc>>, One(cc, s)) : s \in {s \in Seqs(ClassLines, 5) \cup Seqs(ClassLines \cup RareLines, 4) : Balanced(s) /\ Closed(s)}}
    \cup {Command(<<>>, <<cc>>, One(cc, s)) : s \in Braces \cup Styled}
    \cup {Command(<<<<"verbose", 3>>>>, <<f>>, One(f, s)) : f \in {hh, test}, s \in Plain}
    \cup {Command(o, <<hh, cfile, cc, gone>>, One(hh, h) @@ One(cc, c) @@ (cfile :> [lines |-> c, cr |-> TRUE])) :
            o \in OptionLists, h \in Headers, c \in Functions}
    \cup {Command(<<>>, <<hh>>, hh :> [lines |-> h, cr |-> TRUE]) : h \in Headers}
    \cup {Command(o, <<hh>>, <<>>) : o \in BadOptions} \cup {Command(<<>>, <<>>, <<>>)}

MCCategories == {<<"whitespace", "tab">>, <<"build", "header_guard">>, <<"readability", "fn_size">>, <<"readability", "braces">>}
MCCppHeaders == {string, vector, iostream}
MCRequires == "vector<" :> vector
MCRank(name) == Len(name.dir) * 10 + Len(name.base)
MCGuard == hh :> "FOO_H_"
MCOldGuard == hh :> "FOO_H__"
=============================================================================
