------------------------------ MODULE TestMain ------------------------------
(***************************************************************************)
(* tools/test.py: Main().  The options, the status files of the suites and *)
(* the tests of each mode give the cases to run and their outcomes;        *)
(* TestRunner runs them.                                                   *)
(***************************************************************************)
EXTENDS TestRunner, TestStatus

CONSTANTS Files,         \* the tests of the suites as <<suite, name>>, sorted by name
          ArchGuess,     \* utils.GuessArchitecture()
          System         \* utils.GuessOS()

(* A TestCase is made for each path of the command line and each mode.     *)
CaseOf(i, mode, file) == <<i, mode, file>>

VARIABLES input,   \* options, paths, vm (the modes whose executable exists) and lines
                   \* (the status file); dropped once Main() has used them
          exit     \* Main()'s return value

mainVars == <<input, exit>>
NoInput == [lines |-> <<>>]

(* ProcessOptions(): the arch that the options come to, "wrong" if they    *)
(* are refused.                                                            *)
ProcessOptions(o) ==
    IF ~ (ToSet(o.modes) \subseteq {"debug", "release"}) THEN "wrong"
    ELSE IF o.simulator = "none"
         THEN IF o.arch = "none" THEN ArchGuess ELSE o.arch
    ELSE IF o.arch \in {"none", o.simulator} THEN o.simulator ELSE "wrong"

Env(o, mode) == [mode |-> mode, system |-> System, arch |-> ProcessOptions(o),
                 simulator |-> o.simulator]

DoSkip(outcomes) == outcomes \cap {"skip", "slow"} # {}

(* LiteralTestSuite.ListTests(): the tests that a path selects; an empty   *)
(* path selects all.                                                       *)
ListTests(path) == SelectSeq(Files, LAMBDA f : RuleContains(path, f))

(* Main() up to RunTestCases().  A mode without executable is passed over; *)
(* with no case left there is nothing to run, which is a success.          *)
Main_ ==
    LET options == input.options
        config == ReadConfigurationInto(input.lines, <<>>, [n \in {} |-> 0])
        modes == SelectSeq(options.modes, LAMBDA m : m \in input.vm)
        listed(i, m) == [k \in DOMAIN ListTests(input.paths[i]) |->
                            CaseOf(i, m, ListTests(input.paths[i])[k])]
        classified(i, m) == ClassifyTests(config, ToSet(listed(i, m)),
                                          [c \in ToSet(listed(i, m)) |-> c[3]], Env(options, m))
        runs(i, m) == SelectSeq(listed(i, m),
                                LAMBDA c : ~DoSkip(classified(i, m).outcomes[c]))
        toRun == FlattenSeq([i \in DOMAIN input.paths |->
                               FlattenSeq([k \in DOMAIN modes |-> runs(i, modes[k])])])
        raises == \/ config.state = "raise"
                  \/ \E i \in DOMAIN input.paths, m \in ToSet(modes) :
                        classified(i, m).kind = "raise"
    IN  /\ exit = "main"
        /\ input' = NoInput
        /\ \/ /\ ProcessOptions(options) = "wrong"
              /\ exit' = "1" /\ UNCHANGED vars
           \/ /\ ProcessOptions(options) # "wrong" /\ raises
              /\ exit' = "raised" /\ UNCHANGED vars
           \/ /\ ProcessOptions(options) # "wrong" /\ ~raises
              /\ \/ toRun = <<>> /\ exit' = "0" /\ UNCHANGED vars
                 \/ /\ exit' = "running"
                    /\ RunTestCases(toRun, [c \in Case |->
                            IF c \in ToSet(toRun) THEN classified(c[1], c[2]).outcomes[c]
                                                  ELSE {"pass"}])

(* What Run() came to is the exit status.                                  *)
MainReturns ==
    /\ exit = "running" /\ result # "none"
    /\ exit' = CASE result = "succeeded" -> "0"
                 [] result \in {"failed", "interrupted"} -> "1"
                 [] result = "raised" -> "raised"
    /\ UNCHANGED input /\ UNCHANGED vars

MainNext ==
    \/ Main_
    \/ RunnerNext /\ UNCHANGED mainVars
    \/ MainReturns
=============================================================================
