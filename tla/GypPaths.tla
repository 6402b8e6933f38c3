------------------------------ MODULE GypPaths ------------------------------
(* Paths as sequences of their components. *)
EXTENDS Sequences, SequencesExt

OrHere(path) == IF path = <<>> THEN <<".">> ELSE path

\* os.path.normpath: a ".." takes the component before it away, unless there is none.
NormPath(s) ==
    LET Put(acc, c) == CASE c \in {"", "."} -> acc
                         [] c = ".." /\ acc # <<>> /\ acc[Len(acc)] # ".." -> Front(acc)
                         [] OTHER -> Append(acc, c)
    IN  OrHere(FoldLeft(Put, <<>>, s))

\* The path from the directory r to p, both normal and absolute.
PathFrom(r, p) ==
    LET n == Len(LongestCommonPrefix({p, r}))
    IN  [i \in 1..(Len(r) - n) |-> ".."] \o SubSeq(p, n + 1, Len(p))
=============================================================================
