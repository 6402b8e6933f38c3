----------------------------- MODULE TestRunner -----------------------------
(***************************************************************************)
(* tools/test.py: the threads of ProgressIndicator that run the test       *)
(* cases, each case as a child process under a timeout, and what Run()     *)
(* reports.  Threads share the queue, the counters and the lock; a thread  *)
(* may be stopped by an exception, Main by a KeyboardInterrupt too.        *)
(***************************************************************************)
EXTENDS Integers, Sequences, FiniteSets

CONSTANTS Case,      \* the test cases
          Worker,    \* the threads that Run() spawns
          Negative,  \* those whose IsNegative() is true: they pass by failing
          Deaf,      \* those whose child process ignores or blocks SIGTERM
          Main,      \* the thread that calls Run() and works as the last one
          Fault      \* what may go wrong, a subset of FaultKind

FaultKind == {"oserror", "ioerror", "print", "interrupt"}

NoCase == <<>>

Thread == Worker \cup {Main}
Nobody == "nobody"

ASSUME RunnerAssumption ==
    /\ IsFiniteSet(Case) /\ IsFiniteSet(Worker)
    /\ Main \notin Worker /\ NoCase \notin Case /\ Nobody \notin Thread
    /\ Fault \subseteq FaultKind /\ Negative \subseteq Case /\ Deaf \subseteq Case

(* Exit codes as Popen reports them: 0, or minus a signal.  -SIGABRT counts *)
(* as a failure, as any positive code does; -11 is a crash.                *)
SIGABRT == 6
SIGTERM == 15
ExitCode == {0, -SIGABRT, -11, -SIGTERM}
Outcome == {"skip", "fail", "pass", "okay", "timeout", "crash", "slow"}

VARIABLES
    expect,    \* case -> its outcomes in the status file
    queue,     \* ProgressIndicator.queue
    tally,     \* succeeded, failed, crashed, remaining
    terminate, \* ProgressIndicator.terminate
    lock,      \* who holds ProgressIndicator.lock
    at,        \* thread -> where it is in RunSingle() or Run()
    test,      \* thread -> the case that it runs
    seen,      \* thread -> the counters as it read them under the lock
    process,   \* case -> state of its child process
    output,    \* case -> CommandOutput
    result     \* what Run() came to

vars == <<expect, queue, tally, terminate, lock, at, test, seen, process,
          output, result>>

Reaped == [state |-> "reaped", code |-> 0]
NoOutput == [exit_code |-> 0, timed_out |-> FALSE]
Unseen == [crashed |-> 0, succeeded |-> 0, remaining |-> 0]

Init ==
    /\ expect = [c \in Case |-> {"pass"}]
    /\ queue = <<>>
    /\ tally = [total |-> 0, succeeded |-> 0, failed |-> <<>>, crashed |-> 0,
                remaining |-> 0]
    /\ terminate = FALSE
    /\ lock = Nobody
    /\ at = [t \in Thread |-> "unborn"]
    /\ test = [t \in Thread |-> NoCase]
    /\ seen = [t \in Thread |-> Unseen]
    /\ process = [c \in Case |-> [state |-> "none", code |-> 0]]
    /\ output = [c \in Case |-> NoOutput]
    /\ result = "none"

-----------------------------------------------------------------------------
(* What a test's output means.                                             *)

HasCrashed(out) ==
    /\ ~out.timed_out
    /\ out.exit_code < 0 /\ out.exit_code # -SIGABRT

DidFail(out) == out.exit_code # 0

HasFailed(c, out) == IF c \in Negative THEN ~DidFail(out) ELSE DidFail(out)

OutcomeOf(c, out) ==
    IF HasCrashed(out) THEN "crash"
    ELSE IF out.timed_out THEN "timeout"
    ELSE IF HasFailed(c, out) THEN "fail" ELSE "pass"

UnexpectedOutput(c) == OutcomeOf(c, output[c]) \notin expect[c]

-----------------------------------------------------------------------------
(* RunTestCases(): a ProgressIndicator over the cases, and Run() on it.    *)
RunTestCases(cases, outcomes) ==
    /\ result = "none" /\ at[Main] = "unborn"
    /\ cases # <<>>
    /\ expect' = outcomes
    /\ queue' = cases
    /\ tally' = [total |-> Len(cases), succeeded |-> 0, failed |-> <<>>,
                 crashed |-> 0, remaining |-> Len(cases)]
    /\ at' = [at EXCEPT ![Main] = "spawn"]
    /\ UNCHANGED <<terminate, lock, test, seen, process, output, result>>

(* The loop of Run() that starts the threads, one by one.                  *)
Spawn(t) ==
    /\ at[Main] = "spawn"
    /\ t \in Worker /\ at[t] = "unborn"
    /\ at' = [at EXCEPT ![t] = "loop"]
    /\ UNCHANGED <<expect, queue, tally, terminate, lock, test, seen, process,
                   output, result>>

AllSpawned ==
    /\ at[Main] = "spawn"
    /\ \A t \in Worker : at[t] # "unborn"
    /\ at' = [at EXCEPT ![Main] = "loop"]
    /\ UNCHANGED <<expect, queue, tally, terminate, lock, test, seen, process,
                   output, result>>

(* Where a thread goes when RunSingle() returns: Main joins the others.    *)
Returned(t) == IF t = Main THEN "join" ELSE "done"

(* An exception leaves RunSingle().  A worker ends with a traceback; in    *)
(* Main it reaches Run(), which tells the others to stop and raises again. *)
Raise(t) ==
    /\ at' = [at EXCEPT ![t] = "dead"]
    /\ IF t = Main THEN terminate' = TRUE /\ result' = "raised"
                   ELSE UNCHANGED <<terminate, result>>

(* while not self.terminate                                                *)
WhileNotTerminated(t) ==
    /\ at[t] = "loop"
    /\ at' = [at EXCEPT ![t] = IF terminate THEN Returned(t) ELSE "take"]
    /\ UNCHANGED <<expect, queue, tally, terminate, lock, test, seen, process,
                   output, result>>

(* Mutant of GetNowait: the last case is left in the queue.                *)
GetNowaitLeavesOne(t) ==
    /\ at[t] = "take"
    /\ at' = [at EXCEPT ![t] = IF Len(queue) <= 1 THEN Returned(t) ELSE "about"]
    /\ test' = IF Len(queue) <= 1 THEN test ELSE [test EXCEPT ![t] = Head(queue)]
    /\ queue' = IF Len(queue) <= 1 THEN queue ELSE Tail(queue)
    /\ UNCHANGED <<expect, tally, terminate, lock, seen, process, output, result>>

GetNowait(t) ==
    /\ at[t] = "take"
    /\ IF queue = <<>>
       THEN /\ at' = [at EXCEPT ![t] = Returned(t)]
            /\ UNCHANGED <<queue, test>>
       ELSE /\ test' = [test EXCEPT ![t] = Head(queue)]
            /\ queue' = Tail(queue)
            /\ at' = [at EXCEPT ![t] = "about"]
    /\ UNCHANGED <<expect, tally, terminate, lock, seen, process, output, result>>

(* AboutToRun() under the lock.  It prints: if that fails the lock stays   *)
(* taken.                                                                  *)
AboutToRun(t) ==
    /\ at[t] = "about" /\ lock = Nobody
    /\ at' = [at EXCEPT ![t] = "start"]
    /\ UNCHANGED <<expect, queue, tally, terminate, lock, test, seen, process,
                   output, result>>

AboutToRunFails(t) ==
    /\ "print" \in Fault
    /\ at[t] = "about" /\ lock = Nobody
    /\ lock' = t
    /\ Raise(t)
    /\ UNCHANGED <<expect, queue, tally, test, seen, process, output>>

(* TestCase.Run() up to Popen: a temporary file each for stdout and stderr,*)
(* then the child.                                                         *)
Popen(t) ==
    /\ at[t] = "start"
    /\ process' = [process EXCEPT ![test[t]].state = "running"]
    /\ at' = [at EXCEPT ![t] = "poll"]
    /\ UNCHANGED <<expect, queue, tally, terminate, lock, test, seen, output, result>>

(* mkstemp() or Popen() raises an OSError, which RunSingle() lets pass; an *)
(* IOError of open() or read() meets `assert self.terminate`.              *)
RunFails(t) ==
    /\ at[t] \in {"start", "read"}
    /\ \/ /\ "oserror" \in Fault /\ at[t] = "start"
          /\ Raise(t)
       \/ /\ "ioerror" \in Fault
          /\ IF terminate
             THEN at' = [at EXCEPT ![t] = Returned(t)] /\ UNCHANGED <<terminate, result>>
             ELSE Raise(t)
    /\ UNCHANGED <<expect, queue, tally, lock, test, seen, process, output>>

(* The child ends by itself, with any code.                                *)
Exit(c, code) ==
    /\ process[c].state \in {"running", "killed"}
    /\ code = -SIGTERM => process[c].state = "killed"
    /\ process' = [process EXCEPT ![c] = [state |-> "zombie", code |-> code]]
    /\ UNCHANGED <<expect, queue, tally, terminate, lock, at, test, seen, output, result>>

(* The loop of RunProcess(): poll() finds that the child has ended, ...    *)
Poll(t) ==
    /\ at[t] = "poll" /\ process[test[t]].state = "zombie"
    /\ output' = [output EXCEPT ![test[t]] =
                      [exit_code |-> process[test[t]].code, timed_out |-> FALSE]]
    /\ process' = [process EXCEPT ![test[t]] = Reaped]
    /\ at' = [at EXCEPT ![t] = "read"]
    /\ UNCHANGED <<expect, queue, tally, terminate, lock, test, seen, result>>

(* Mutant of TimesOut: the child is waited for but not killed.             *)
TimesOutWaits(t) ==
    /\ at[t] = "poll"
    /\ at' = [at EXCEPT ![t] = "wait"]
    /\ UNCHANGED <<expect, queue, tally, terminate, lock, test, seen, process, output, result>>

(* ... or the time is up before it looks: KillProcessWithID() and wait().  *)
TimesOut(t) ==
    /\ at[t] = "poll"
    /\ process' = [process EXCEPT ![test[t]].state =
                      IF @ = "running" THEN "killed" ELSE @]
    /\ at' = [at EXCEPT ![t] = "wait"]
    /\ UNCHANGED <<expect, queue, tally, terminate, lock, test, seen, output, result>>

Wait(t) ==
    /\ at[t] = "wait" /\ process[test[t]].state = "zombie"
    /\ output' = [output EXCEPT ![test[t]] =
                      [exit_code |-> process[test[t]].code, timed_out |-> TRUE]]
    /\ process' = [process EXCEPT ![test[t]] = Reaped]
    /\ at' = [at EXCEPT ![t] = "read"]
    /\ UNCHANGED <<expect, queue, tally, terminate, lock, test, seen, result>>

(* Execute() reads and removes the files; back in RunSingle(), a thread    *)
(* that is told to stop drops its result.                                  *)
HaveOutput(t) ==
    /\ at[t] = "read"
    /\ at' = [at EXCEPT ![t] = IF terminate THEN Returned(t) ELSE "acquire"]
    /\ UNCHANGED <<expect, queue, tally, terminate, lock, test, seen, process,
                   output, result>>

(* Mutant of Acquire: the counters are updated without the lock.           *)
AcquireUnlocked(t) ==
    /\ at[t] = "acquire"
    /\ seen' = [seen EXCEPT ![t] = [crashed |-> tally.crashed, succeeded |-> tally.succeeded,
                                     remaining |-> tally.remaining]]
    /\ at' = [at EXCEPT ![t] = "count"]
    /\ UNCHANGED <<expect, queue, tally, terminate, lock, test, process, output, result>>

Acquire(t) ==
    /\ at[t] = "acquire" /\ lock = Nobody
    /\ lock' = t
    /\ seen' = [seen EXCEPT ![t] = [crashed |-> tally.crashed, succeeded |-> tally.succeeded,
                                     remaining |-> tally.remaining]]
    /\ at' = [at EXCEPT ![t] = "count"]
    /\ UNCHANGED <<expect, queue, tally, terminate, test, process, output, result>>

(* The counters are read, changed and written back; list.append is atomic. *)
Counted(t) ==
    LET c == test[t] bad == UnexpectedOutput(c)
        crash == bad /\ HasCrashed(output[c])
    IN  [tally EXCEPT
           !.failed = IF bad THEN Append(@, c) ELSE @,
           !.crashed = IF crash THEN seen[t].crashed + 1 ELSE @,
           !.succeeded = IF bad THEN @ ELSE seen[t].succeeded + 1,
           !.remaining = seen[t].remaining - 1]

HasRun(t) ==
    /\ at[t] = "count"
    /\ tally' = Counted(t)
    /\ \/ /\ lock' = Nobody
          /\ at' = [at EXCEPT ![t] = "loop"]
          /\ UNCHANGED <<terminate, result>>
       \/ /\ "print" \in Fault
          /\ UNCHANGED lock
          /\ Raise(t)
    /\ seen' = [seen EXCEPT ![t] = Unseen]
    /\ UNCHANGED <<expect, queue, test, process, output>>

(* Ctrl-C: a KeyboardInterrupt is not an Exception, so Run() does not see  *)
(* it; Main() prints "Interrupted" and returns 1.                          *)
KeyboardInterrupt ==
    /\ "interrupt" \in Fault
    /\ at[Main] \notin {"unborn", "spawn", "dead", "finished"}
    /\ at' = [at EXCEPT ![Main] = "dead"]
    /\ result' = "interrupted"
    /\ UNCHANGED <<expect, queue, tally, terminate, lock, test, seen, process, output>>

(* Mutant of Join: Run() returns when its own thread is done.              *)
JoinNobody ==
    /\ at[Main] = "join"
    /\ at' = [at EXCEPT ![Main] = "finished"]
    /\ result' = IF tally.failed = <<>> THEN "succeeded" ELSE "failed"
    /\ UNCHANGED <<expect, queue, tally, terminate, lock, test, seen, process, output>>

Join ==
    /\ at[Main] = "join"
    /\ \A t \in Worker : at[t] \in {"done", "dead"}
    /\ at' = [at EXCEPT ![Main] = "finished"]
    /\ result' = IF tally.failed = <<>> THEN "succeeded" ELSE "failed"
    /\ UNCHANGED <<expect, queue, tally, terminate, lock, test, seen, process, output>>

(* What thread t does next, whatever becomes of it.                        *)
Step(t) ==
    \/ WhileNotTerminated(t) \/ GetNowait(t) \/ AboutToRun(t) \/ Popen(t)
    \/ Poll(t) \/ Wait(t) \/ HaveOutput(t) \/ Acquire(t) \/ HasRun(t)

RunnerNext ==
    \/ \E t \in Worker : Spawn(t)
    \/ AllSpawned
    \/ \E t \in Thread : Step(t) \/ TimesOut(t) \/ AboutToRunFails(t) \/ RunFails(t)
    \/ \E c \in Case, code \in ExitCode : Exit(c, code)
    \/ KeyboardInterrupt
    \/ Join

(* Any cases, each once, with any outcomes except those that are skipped.  *)
CaseLists == {s \in UNION {[1 .. n -> Case] : n \in 1 .. Cardinality(Case)} :
                 \A i, j \in DOMAIN s : s[i] = s[j] => i = j}
Classified == [Case -> SUBSET {"pass", "fail", "crash", "timeout"} \ {{}}]

Next ==
    \/ \E s \in CaseLists, o \in Classified : RunTestCases(s, o)
    \/ RunnerNext

Spec == Init /\ [][Next]_vars

(* Threads go on, a time limit is noticed, a child that was sent SIGTERM   *)
(* ends unless it is deaf to it.  Nothing says that a child ends before.   *)
RunnerFairness ==
    /\ \A t \in Thread : WF_vars(Step(t)) /\ WF_vars(TimesOut(t))
    /\ \A t \in Worker : WF_vars(Spawn(t))
    /\ WF_vars(AllSpawned) /\ WF_vars(Join)
    /\ \A c \in Case \ Deaf :
          WF_vars(process[c].state = "killed" /\ \E code \in ExitCode : Exit(c, code))

-----------------------------------------------------------------------------
(* The threads between taking a case and counting it.                      *)
InFlight == {t \in Thread :
                at[t] \in {"about", "start", "poll", "wait", "read", "acquire", "count"}}

(* Whenever nobody holds the lock, the counters of all threads add up to   *)
(* the number of cases, and no case is neither queued nor on its way nor   *)
(* among those that remain (RunSingle, RunTestCases).  No case is run by   *)
(* two threads.                                                            *)
Accounted ==
    /\ \A t, u \in InFlight : test[t] = test[u] => t = u
    /\ lock = Nobody =>
        /\ tally.succeeded + Len(tally.failed) + tally.remaining = tally.total
        /\ tally.remaining >= Len(queue) + Cardinality(InFlight)
        /\ tally.crashed <= Len(tally.failed)

(* "All tests succeeded" (Run() returns True) only if every case that was  *)
(* given to Run() ended with an outcome that its status allows, unless a   *)
(* thread died of an exception.                                            *)
SuccessIsReal ==
    result = "succeeded" =>
        \/ \E t \in Worker : at[t] = "dead"
        \/ Cardinality({c \in Case : process[c].state = "reaped" /\ ~UnexpectedOutput(c)})
              = tally.total

(* When Run() returns, no thread has a case in hand and no child process   *)
(* is left running or unreaped (Run() joins the threads).  Of a Run() that *)
(* an exception or Ctrl-C ends, nothing is said.                           *)
NoOrphans ==
    result \in {"succeeded", "failed"} =>
        /\ InFlight = {}
        /\ \A c \in Case : process[c].state \in {"none", "reaped"}

(* Sooner or later, and then for good, every thread has come to its end,   *)
(* however long the children run, with two exceptions: a thread died while *)
(* it held the lock, which the others then wait for, or a thread sits in   *)
(* wait() for a child that ignores the SIGTERM it was sent (RunSingle,     *)
(* RunProcess, KillProcessWithID).                                         *)
AllThreadsEnd ==
    <>[](at[Main] # "unborn" =>
           \/ \A t \in Thread : at[t] \in {"unborn", "done", "dead", "finished"}
           \/ lock # Nobody /\ at[lock] = "dead"
           \/ \E t \in Thread : /\ at[t] = "wait" /\ test[t] \in Deaf
                               /\ process[test[t]].state = "killed")
=============================================================================
