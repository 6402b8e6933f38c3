----------------------------- MODULE TestStatus -----------------------------
(***************************************************************************)
(* tools/test.py: the expressions of the status files that say which       *)
(* outcomes a test may have.  Tokenizer, parser, evaluation, rules and the *)
(* classification of the tests.                                            *)
(*                                                                         *)
(* An expression's text is a sequence of lexemes: tokens, blanks and one   *)
(* character that is none.  Python's None is the record NoneResult, and an *)
(* exception (an index past the tokens, a method that the class of a node  *)
(* lacks, a failed assertion) is RaiseResult or the value "raise".         *)
(***************************************************************************)
EXTENDS Integers, Sequences, FiniteSets, SequencesExt

Symbol == {"(", ")", "$", ",", "&&", "||", "=="}
Blank == " "
Garbage == "?"

IsAlpha(token) == token \notin Symbol

(* Blanks separate; one at the end, or a character that starts no token,   *)
(* makes Tokenize() return None, as does (in ParseCondition) an empty list.*)
Tokenize(expr) ==
    IF \/ Garbage \in ToSet(expr)
       \/ expr # <<>> => Last(expr) = Blank
    THEN <<>>
    ELSE SelectSeq(expr, LAMBDA lexeme : lexeme # Blank)

-----------------------------------------------------------------------------
(* The nodes of an expression, and the parser.  The scanner is the list of *)
(* tokens with an index; a parse result says where the scanner stands.     *)

Constant(value) == [class |-> "Constant", value |-> value]
Variable(name) == [class |-> "Variable", name |-> name]
OutcomeNode(name) == [class |-> "Outcome", name |-> name]
Operation(left, op, right) ==
    [class |-> "Operation", left |-> left, op |-> op, right |-> right]

Parsed(ast, i) == [kind |-> "ok", ast |-> ast, index |-> i]
NoneResult == [kind |-> "None"]
RaiseResult == [kind |-> "raise"]

RECURSIVE ParseLogicalExpression(_, _), ParseOperatorExpression(_, _)

ParseAtomicExpression(tokens, i) ==
    CASE i > Len(tokens) -> RaiseResult
      [] i <= Len(tokens) /\ tokens[i] = "true" -> Parsed(Constant(TRUE), i + 1)
      [] i <= Len(tokens) /\ tokens[i] = "false" -> Parsed(Constant(FALSE), i + 1)
      [] i <= Len(tokens) /\ IsAlpha(tokens[i]) /\ tokens[i] \notin {"true", "false"} ->
            Parsed(OutcomeNode(tokens[i]), i + 1)
      [] i <= Len(tokens) /\ tokens[i] = "$" ->
            IF i = Len(tokens) THEN RaiseResult
            ELSE IF IsAlpha(tokens[i + 1]) THEN Parsed(Variable(tokens[i + 1]), i + 2)
            ELSE NoneResult
      [] i <= Len(tokens) /\ tokens[i] = "(" ->
            LET r == ParseLogicalExpression(tokens, i + 1)
            IN  IF r.kind # "ok" THEN r
                ELSE IF r.index > Len(tokens) THEN RaiseResult
                ELSE IF tokens[r.index] # ")" THEN NoneResult
                ELSE Parsed(r.ast, r.index + 1)
      [] OTHER -> NoneResult

(* The loop of the three parse functions: while the scanner is at one of   *)
(* the operators, parse what is on its right and put both under a node.    *)
(* BINARIES, 'if' and LOGICALS are the operators of the three.             *)
BINARIES == {"=="}
CONDITIONAL == {"if"}
LOGICALS == {"&&", "||", ","}

RECURSIVE ParseRest(_, _, _)
ParseOperatorExpression(tokens, i) ==
    ParseRest(ParseAtomicExpression(tokens, i), tokens, BINARIES)

ParseConditionalExpression(tokens, i) ==
    ParseRest(ParseOperatorExpression(tokens, i), tokens, CONDITIONAL)

ParseLogicalExpression(tokens, i) ==
    ParseRest(ParseConditionalExpression(tokens, i), tokens, LOGICALS)

(* Mutant of ParseRest: every operator binds to the right.                 *)
ParseRestToTheRight(left, tokens, ops) ==
    IF left.kind # "ok" \/ left.index > Len(tokens) THEN left
    ELSE IF tokens[left.index] \notin ops THEN left
    ELSE LET right == ParseLogicalExpression(tokens, left.index + 1)
         IN  IF right.kind # "ok" THEN right
             ELSE Parsed(Operation(left.ast, tokens[left.index], right.ast), right.index)

ParseRest(left, tokens, ops) ==
    IF left.kind # "ok" \/ left.index > Len(tokens) THEN left
    ELSE IF tokens[left.index] \notin ops THEN left
    ELSE LET right == IF ops = LOGICALS
                      THEN ParseConditionalExpression(tokens, left.index + 1)
                      ELSE ParseOperatorExpression(tokens, left.index + 1)
         IN  IF right.kind # "ok" THEN right
             ELSE ParseRest(Parsed(Operation(left.ast, tokens[left.index], right.ast),
                                   right.index), tokens, ops)

(* All of the text has to be one expression.                               *)
ParseCondition(expr) ==
    LET tokens == Tokenize(expr)
        r == ParseLogicalExpression(tokens, 1)
    IN  IF tokens = <<>> THEN NoneResult
        ELSE IF r.kind = "ok" /\ r.index <= Len(tokens) THEN NoneResult
        ELSE r

-----------------------------------------------------------------------------
(* Sets of outcomes: ListSet, Everything, Nothing.                         *)

ListSet(elms) == [class |-> "ListSet", elms |-> elms]
Everything == [class |-> "Everything"]
Nothing == [class |-> "Nothing"]
Raised == [class |-> "raise"]

Intersect(a, b) ==
    CASE "raise" \in {a.class, b.class} -> Raised
      [] "Nothing" \in {a.class, b.class} -> Nothing
      [] a.class = "Everything" -> b
      [] b.class = "Everything" -> a
      [] OTHER -> ListSet(SelectSeq(a.elms, LAMBDA x : x \in ToSet(b.elms)))

Union(a, b) ==
    CASE "raise" \in {a.class, b.class} -> Raised
      [] "Everything" \in {a.class, b.class} -> Everything
      [] a.class = "Nothing" -> b
      [] b.class = "Nothing" -> a
      [] OTHER -> ListSet(a.elms \o SelectSeq(b.elms, LAMBDA x : x \notin ToSet(a.elms)))

IsEmpty(s) == s \in {Nothing, ListSet(<<>>)}

(* Evaluate() of a condition: "true", "false" or "raise" (Variable and     *)
(* Outcome have no such method; || and && do not look at the right side    *)
(* when the left decides).  env maps the variables of the build, defs the  *)
(* names that the status files define.                                     *)
RECURSIVE Evaluate(_, _, _), GetOutcomes(_, _, _)
Evaluate(e, env, defs) ==
    IF e.class = "Constant" THEN IF e.value THEN "true" ELSE "false"
    ELSE IF e.class # "Operation" THEN "raise"
    ELSE IF e.op = "if" THEN "false"
    ELSE IF e.op = "=="
         THEN LET inter == Intersect(GetOutcomes(e.left, env, defs),
                                     GetOutcomes(e.right, env, defs))
              IN  IF inter.class = "raise" THEN "raise"
                  ELSE IF IsEmpty(inter) THEN "false" ELSE "true"
    ELSE LET left == Evaluate(e.left, env, defs)
             decides == IF e.op = "&&" THEN "false" ELSE "true"
         IN  IF left \in {decides, "raise"} THEN left ELSE Evaluate(e.right, env, defs)

GetOutcomes(e, env, defs) ==
    CASE e.class = "Constant" -> Raised
      [] e.class = "Variable" ->
            IF e.name \in DOMAIN env THEN ListSet(<<env[e.name]>>) ELSE Nothing
      [] e.class = "Outcome" ->
            IF e.name \in DOMAIN defs THEN GetOutcomes(defs[e.name], env, defs)
                                      ELSE ListSet(<<e.name>>)
      [] e.class = "Operation" /\ e.op \in {"||", ","} ->
            Union(GetOutcomes(e.left, env, defs), GetOutcomes(e.right, env, defs))
      [] e.class = "Operation" /\ e.op = "if" ->
            LET right == Evaluate(e.right, env, defs)
            IN  IF right = "true" THEN GetOutcomes(e.left, env, defs)
                ELSE IF right = "false" THEN Nothing ELSE Raised
      [] e.class = "Operation" /\ e.op = "&&" ->
            Intersect(GetOutcomes(e.left, env, defs), GetOutcomes(e.right, env, defs))
      [] OTHER -> Raised

-----------------------------------------------------------------------------
(* Rules, sections and the status file.  A line is a record by the pattern *)
(* that matches it; a path is a sequence of names, "*" in a pattern stands *)
(* for any.                                                                *)

Matches(pattern, name) == pattern \in {"*", name}

RuleContains(path, file) ==
    /\ Len(path) <= Len(file)
    /\ \A i \in 1 .. Len(path) : Matches(path[i], file[i])

Section(condition) == [condition |-> condition, rules |-> <<>>]

(* The lines of a file are read in order until one is malformed; the rest  *)
(* of the file is then dropped (`return False`, which the callers ignore). *)
NewConfiguration(sections, defs) ==
    [sections |-> Append(sections, Section(Parsed(Constant(TRUE), 1))),
     defs |-> defs, prefix |-> <<>>, state |-> "reading"]

ReadLine(config, line) ==
    LET value == ParseCondition(line.value)
        here == Len(config.sections)
        bad == [config EXCEPT !.state = IF value.kind = "raise" THEN "raise" ELSE "stopped"]
    IN  CASE config.state # "reading" -> config
          [] config.state = "reading" /\ line.kind = "header" ->
                IF value.kind = "raise" THEN bad
                ELSE [config EXCEPT !.sections = Append(@, Section(value))]
          [] config.state = "reading" /\ line.kind = "rule" ->
                IF value.kind # "ok" THEN bad
                ELSE [config EXCEPT !.sections[here].rules =
                        Append(@, [path |-> config.prefix \o line.path, value |-> value.ast])]
          [] config.state = "reading" /\ line.kind = "def" ->
                IF value.kind # "ok" THEN bad
                ELSE [config EXCEPT !.defs =
                        [n \in DOMAIN @ \cup {line.name} |->
                            IF n = line.name THEN value.ast ELSE @[n]]]
          [] config.state = "reading" /\ line.kind = "prefix" ->
                [config EXCEPT !.prefix = line.path]
          [] OTHER -> bad

ReadConfigurationInto(lines, sections, defs) ==
    FoldLeft(ReadLine, NewConfiguration(sections, defs), lines)

(* Rule.GetOutcomes() asserts that the value is a ListSet.                 *)
RuleOutcomes(rule, env, defs) == GetOutcomes(rule.value, env, defs)

(* ClassifyTests(): the rules of the sections that are enabled, and for    *)
(* each case what the rules for it allow, `pass` if there is none.  A      *)
(* header that did not parse is None, which has no Evaluate().             *)
ClassifyTests(config, cases, path, env) ==
    LET Enabled(s) == IF s.condition.kind = "ok"
                      THEN Evaluate(s.condition.ast, env, config.defs) ELSE "raise"
        sections == SelectSeq(config.sections, LAMBDA s : Enabled(s) = "true")
        all_rules == FlattenSeq([i \in DOMAIN sections |-> sections[i].rules])
        matches(c) == {i \in DOMAIN all_rules : RuleContains(all_rules[i].path, path[c])}
        got(i) == RuleOutcomes(all_rules[i], env, config.defs)
        outcomes(c) == UNION {ToSet(got(i).elms) : i \in matches(c)}
    IN  IF \/ config.state = "raise"
           \/ \E i \in DOMAIN config.sections : Enabled(config.sections[i]) = "raise"
           \/ \E c \in cases : \E i \in matches(c) : got(i).class # "ListSet"
        THEN [kind |-> "raise"]
        ELSE [kind |-> "ok",
              outcomes |-> [c \in cases |-> IF outcomes(c) = {} THEN {"pass"} ELSE outcomes(c)],
              unused |-> DOMAIN all_rules \ UNION {matches(c) : c \in cases}]
=============================================================================
