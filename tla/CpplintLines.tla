---------------------------- MODULE CpplintLines ----------------------------
(***************************************************************************)
(* How cpplint.py reads C++: comments and strings, header guards, names of *)
(* files.  A line is a record: tok is its text, a sequence of tokens; col0 *)
(* tells whether it starts in the first column; include is the header of   *)
(* an #include line or NoInclude; nolint is the category of its NOLINT     *)
(* comment, All for every one, or <<>>; marks are the patterns about       *)
(* spaces and spelling that match it.  The name of a file is split into    *)
(* its directories, the components of its base name, a suffix such as test *)
(* or inl, and its extension.                                              *)
(***************************************************************************)
EXTENDS Integers, TLC, SequencesExt

All == <<"*">>
NoInclude == [sys |-> FALSE, name |-> <<>>]
Text(tok) == [tok |-> tok, col0 |-> TRUE, include |-> NoInclude, nolint |-> <<>>, marks |-> {}]

Has(tok, t) == Contains(tok, t)
Count(tok, t) == Len(SelectSeq(tok, LAMBDA u : u = t))
First(tok, t) == CHOOSE i \in DOMAIN tok : tok[i] = t /\ t \notin ToSet(SubSeq(tok, 1, i - 1))
Quote == "\""

-----------------------------------------------------------------------------
(* Comments.                                                               *)

\* The lines that begin, and the lines that end, a comment of several lines.
CommentStarts(tok) == tok # <<>> /\ tok[1] = "/*" /\ ~Has(tok, "*/")
CommentEnds(tok) == tok # <<>> /\ Last(tok) = "*/"

FindNextMultiLineCommentStart(lines, ix) == {i \in ix..Len(lines) : CommentStarts(lines[i].tok)}
FindNextMultiLineCommentEnd(lines, ix) == {i \in ix..Len(lines) : CommentEnds(lines[i].tok)}

Dummy == Text(<<"//">>)

\* [lines, open]: the lines of comments replaced, and the first line of one that does not end, or 0.
RECURSIVE RemoveMultiLineComments(_, _)
RemoveMultiLineComments(lines, ix) ==
    LET starts == FindNextMultiLineCommentStart(lines, ix)
        begin == Min(starts)
        ends == FindNextMultiLineCommentEnd(lines, begin)
        Cleared(end) == [i \in DOMAIN lines |-> IF i \in begin..end THEN Dummy ELSE lines[i]]
    IN  CASE starts = {} -> [lines |-> lines, open |-> 0]
          [] starts # {} /\ ends = {} -> [lines |-> lines, open |-> begin]
          [] OTHER -> RemoveMultiLineComments(Cleared(Min(ends)), Min(ends) + 1)

\* A // outside a string.
HasComment(tok) == Has(tok, "//") /\ Count(SubSeq(tok, 1, First(tok, "//")), Quote) % 2 = 0

\* That comment, then everything from the first /* to the last */.
CleanseComments(tok) ==
    LET cut == IF HasComment(tok) THEN SubSeq(tok, 1, First(tok, "//") - 1) ELSE tok
        ends == {i \in DOMAIN cut : cut[i] = "*/" /\ Has(SubSeq(cut, 1, i), "/*")}
    IN  IF ends = {} THEN cut
        ELSE SubSeq(cut, 1, First(cut, "/*") - 1) \o SubSeq(cut, Max(ends) + 1, Len(cut))

\* A string keeps its quotes; one that does not end on its line is left as it is.
CollapseStrings(line) ==
    LET quotes(i) == Count(SubSeq(line.tok, 1, i), Quote)
        Inside(i) == line.tok[i] # Quote /\ quotes(i) % 2 = 1 /\ quotes(i) < quotes(Len(line.tok))
    IN  IF line.include # NoInclude \/ ~Has(line.tok, Quote) THEN line.tok
        ELSE FoldLeft(LAMBDA s, i : IF Inside(i) THEN s ELSE Append(s, line.tok[i]), <<>>, [i \in DOMAIN line.tok |-> i])

\* The members of CleansedLines.
Lines(line) == CleanseComments(line.tok)
CleansedLines(lines) == [i \in DOMAIN lines |-> [elided |-> CleanseComments(CollapseStrings(lines[i]))] @@ lines[i]]
Elided(line) == line.elided

-----------------------------------------------------------------------------
(* Names of files.                                                         *)

DropCommonSuffixes(f) ==
    IF <<f.suffix, f.ext>> \in {<<"", f.ext>>, <<"test", "cc">>, <<"regtest", "cc">>, <<"unittest", "cc">>,
                                <<"inl", "h">>, <<"impl", "h">>, <<"internal", "h">>}
    THEN f.base ELSE Append(f.base, f.suffix)

IsTestFilename(f) == f.suffix \in {"test", "unittest", "regtest"} /\ f.ext = "cc"

\* The header of a file is next to it, or in the directory public next to its own.
ClassifyInclude(file, include, CppHeaders) ==
    LET sibling == IF file.dir = <<>> THEN <<"/public">> ELSE Append(Front(file.dir), "public")
        target == DropCommonSuffixes(file)
        base == DropCommonSuffixes(include.name)
    IN  IF include.sys THEN IF include.name \in CppHeaders THEN "cpp_sys" ELSE "c_sys"
        ELSE IF target = base /\ include.name.dir \in {file.dir, sibling} THEN "likely_my"
        ELSE IF target[1] = base[1] THEN "possible_my"
        ELSE "other"

\* [same, prefix]: the directories in front of the header's name, to open it with.
FilesBelongToSameModule(cc, h) ==
    LET Path(f, suffixes) ==
            SelectSeq(f.dir, LAMBDA d : d \notin {"public", "internal"})
              \o <<IF f.suffix \in suffixes THEN f.base ELSE Append(f.base, f.suffix)>>
        long == Path(cc, {"", "unittest", "test"})
        short == Path(h, {"", "inl"})
        same == cc.ext = "cc" /\ h.ext = "h" /\ IsSuffix(short, long)
    IN  [same |-> same, prefix |-> IF same THEN SubSeq(long, 1, Len(long) - Len(short)) ELSE <<>>]
=============================================================================
