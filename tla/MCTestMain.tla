----------------------------- MODULE MCTestMain -----------------------------
(* An instance of TestMain: a suite with two tests, two modes; status files*)
(* with a section and a rule.                                              *)
EXTENDS TestMain, TLC

MCFiles == <<<<"simple", "test-a">>, <<"simple", "test-b">>>>
MCCase == {CaseOf(1, m, MCFiles[1]) : m \in {"debug", "release"}} \cup
          {CaseOf(2, "release", MCFiles[1])}
(* One of them passes by failing, one ignores SIGTERM.                     *)
MCNegative == {CaseOf(1, "release", MCFiles[1])}
MCDeaf == {CaseOf(2, "release", MCFiles[1])}

-----------------------------------------------------------------------------
(* Expressions, and the text of each with the parentheses that the grammar *)
(* asks for: == binds to the right, the others to the left, `if` takes an  *)
(* == expression and the logical operators an `if` expression on the right.*)
Level(e) == IF e.class # "Operation" THEN 0
            ELSE IF e.op = "==" THEN 1 ELSE IF e.op = "if" THEN 2 ELSE 3

RECURSIVE Text(_)
Operand(e, most) == IF Level(e) <= most THEN Text(e) ELSE <<"(">> \o Text(e) \o <<")">>
Text(e) ==
    CASE e.class = "Constant" -> <<IF e.value THEN "true" ELSE "false">>
      [] e.class = "Variable" -> <<"$", e.name>>
      [] e.class = "Outcome" -> <<e.name>>
      [] e.class = "Operation" ->
            LET n == Level(e)
            IN  Operand(e.left, IF n = 1 THEN 0 ELSE n) \o <<Blank, e.op, Blank>>
                  \o Operand(e.right, IF n = 3 THEN 2 ELSE 1)

Atom == {OutcomeNode("fail"), OutcomeNode("linux"), Variable("system")}
Simple == {Operation(l, op, r) : l, r \in Atom, op \in {"==", "if", "&&", ","}}
Expr == Atom \cup Simple \cup
        {Operation(l, op, r) : l, r \in Simple, op \in {"==", "if", "&&", ","}}

File(e) == <<[kind |-> "prefix", value |-> <<>>, path |-> <<"simple">>],
             [kind |-> "def", value |-> <<"crash", ",", "timeout">>, name |-> "linux"],
             [kind |-> "header", value |-> <<"$", "mode", "==", "release">>],
             [kind |-> "rule", value |-> Text(e), path |-> <<"test-a">>, written |-> e]>>

(* Files with a line that cannot be read.                                  *)
Malformed == {<<[kind |-> "rule", value |-> v, path |-> <<"*">>]>> :
                 v \in {<<"fail", "if", "(", "true", ")">>, <<"fail", "&&">>, <<"$", "(">>,
                        <<"skip", "?">>, <<"pass", "pass">>, <<"slow">>}}

Options == [modes : {<<"release">>, <<"debug", "release">>, <<"fast">>},
            arch : {"none", "arm"}, simulator : {"none", "arm", "mips"}]
Usual == [modes |-> <<"debug", "release">>, arch |-> "none", simulator |-> "none"]

MCInit ==
    /\ Init
    /\ exit = "main"
    /\ \/ input \in [options : {Usual}, paths : {<<<<"simple", "test-a">>>>},
                    vm : {{"debug", "release"}},
                    lines : {File(e) : e \in Expr} \cup Malformed]
       \/ input \in [options : Options, vm : {{}, {"release"}},
                    paths : {<<<<"*", "test-a">>, <<"simple", "test-a">>>>, <<<<"other">>>>},
                    lines : {File(OutcomeNode("fail"))}]

allVars == <<vars, mainVars>>
MCSpec == MCInit /\ [][MainNext]_allVars /\ RunnerFairness

(* The parser gives back the expression that was written: precedence,      *)
(* associativity and parentheses (ParseLogicalExpression and below).       *)
ParsedAsWritten ==
    exit = "main" /\ Len(input.lines) = 4 =>
        LET r == ParseCondition(input.lines[4].value)
        IN  r.kind = "ok" /\ r.ast = input.lines[4].written
=============================================================================
