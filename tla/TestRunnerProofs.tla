-------------------------- MODULE TestRunnerProofs --------------------------
(***************************************************************************)
(* What the runner of tools/test.py promises, for any finite sets of cases *)
(* and threads and whatever goes wrong: Accounted, SuccessIsReal and       *)
(* NoOrphans are invariants of TestRunner.  None is inductive: what the    *)
(* counters come to depends on who holds the lock and on where each thread *)
(* is with its case.                                                       *)
(***************************************************************************)
EXTENDS TestRunner, FiniteSetTheorems, TLAPS

-----------------------------------------------------------------------------
(* The inductive invariant.                                                *)

Before  == {"about", "start"}
Child   == {"poll", "wait"}
After   == {"read", "acquire", "count"}
Place   == {"unborn", "spawn", "loop", "take", "join", "done", "dead", "finished"}
           \cup Before \cup Child \cup After

Tally    == [total : Nat, succeeded : Nat, failed : Seq(Case), crashed : Nat, remaining : Int]
Counters == [crashed : Nat, succeeded : Nat, remaining : Int]
Process  == [state : {"none", "running", "killed", "zombie", "reaped"}, code : ExitCode]
Output   == [exit_code : ExitCode, timed_out : BOOLEAN]

TypeOK ==
    /\ queue \in Seq(Case)
    /\ tally \in Tally
    /\ terminate \in BOOLEAN
    /\ lock \in Thread \cup {Nobody}
    /\ at \in [Thread -> Place]
    /\ test \in [Thread -> Case \cup {NoCase}]
    /\ seen \in [Thread -> Counters]
    /\ process \in [Case -> Process]
    /\ output \in [Case -> Output]
    /\ result \in {"none", "raised", "interrupted", "succeeded", "failed"}

(* A case is queued or in the hands of one thread.                         *)
Apart ==
    /\ \A i, j \in DOMAIN queue : queue[i] = queue[j] => i = j
    /\ \A t \in InFlight : test[t] \in Case /\ \A i \in DOMAIN queue : queue[i] # test[t]
    /\ \A t, u \in InFlight : test[t] = test[u] => t = u

(* What a thread has read under the lock is what the counters are.         *)
Locked ==
    \A t \in Thread : at[t] = "count" =>
        /\ lock = t
        /\ seen[t] = [crashed |-> tally.crashed, succeeded |-> tally.succeeded,
                      remaining |-> tally.remaining]

Sums ==
    /\ tally.succeeded + Len(tally.failed) + tally.remaining = tally.total
    /\ tally.remaining >= Len(queue) + Cardinality(InFlight)
    /\ tally.crashed <= Len(tally.failed)

(* The state of a child is where its thread is, unless Main left its own.  *)
Children ==
    /\ \A i \in DOMAIN queue : process[queue[i]].state = "none"
    /\ \A t \in Thread :
         /\ at[t] \in Before => process[test[t]].state = "none"
         /\ at[t] \in Child  => process[test[t]].state \in {"running", "killed", "zombie"}
         /\ at[t] \in After  => process[test[t]].state = "reaped"
    /\ \A c \in Case :
         \/ process[c].state \in {"none", "reaped"} \/ at[Main] = "dead"
         \/ \E t \in Thread : at[t] \in Child /\ test[t] = c

NotStarted ==
    at[Main] = "unborn" =>
        /\ \A t \in Thread : at[t] = "unborn"
        /\ \A c \in Case : process[c].state = "none"
        /\ result = "none" /\ ~terminate

(* Threads return for want of cases, unless Main has told them to stop.    *)
Ends ==
    /\ terminate => at[Main] = "dead"
    /\ result \in {"succeeded", "failed"} <=> at[Main] = "finished"
    /\ result = "succeeded" => tally.failed = <<>>
    /\ at[Main] = "finished" => \A t \in Worker : at[t] \in {"done", "dead"}
    /\ at[Main] # "done" /\ \A t \in Worker : at[t] \notin {"spawn", "join", "finished"}
    /\ (\E t \in Thread : at[t] \in {"join", "done", "finished"}) /\ at[Main] # "dead" => queue = <<>>

(* The cases that ended as expected and that no thread has in its hands.   *)
Good == {c \in Case : /\ process[c].state = "reaped" /\ ~UnexpectedOutput(c)
                      /\ \A t \in InFlight : test[t] # c}

(* As long as no thread has died nothing is lost.                          *)
NothingLost ==
    (\A t \in Thread : at[t] # "dead") =>
        /\ tally.remaining = Len(queue) + Cardinality(InFlight)
        /\ tally.succeeded = Cardinality(Good)

RunnerInv == /\ TypeOK /\ Apart /\ Locked /\ Sums /\ Children
             /\ NotStarted /\ Ends /\ NothingLost

-----------------------------------------------------------------------------
(* Facts about the threads between taking a case and counting it.          *)

(* There are finitely many threads and cases (RunnerAssumption).           *)
LEMMA Finite ==
    /\ IsFiniteSet(InFlight) /\ Cardinality(InFlight) \in Nat
    /\ IsFiniteSet(Good) /\ Cardinality(Good) \in Nat
<1>1. IsFiniteSet(Thread)
    BY RunnerAssumption, FS_AddElement DEF Thread
<1>2. InFlight \in SUBSET Thread /\ Good \in SUBSET Case
    BY DEF InFlight, Good
<1>3. IsFiniteSet(InFlight) /\ IsFiniteSet(Good)
    BY <1>1, <1>2, RunnerAssumption, FS_Subset
<1> QED
    BY <1>3, FS_CardinalityType

(* Nothing has happened yet.                                               *)
LEMMA InitKeeps == Init => RunnerInv
<1> SUFFICES ASSUME Init PROVE RunnerInv
    OBVIOUS
<1>1. InFlight = {} /\ Good = {}
    BY RunnerAssumption DEF Init, InFlight, Good, Thread
<1>2. TypeOK
  <2>1. queue \in Seq(Case) /\ tally \in Tally
    BY DEF Init, Tally
  <2>2. at \in [Thread -> Place] /\ test \in [Thread -> Case \cup {NoCase}]
    BY DEF Init, Place
  <2>3. seen \in [Thread -> Counters] /\ process \in [Case -> Process] /\ output \in [Case -> Output]
    BY DEF Init, Unseen, NoOutput, Counters, Process, Output, ExitCode
  <2> QED
    BY <2>1, <2>2, <2>3 DEF Init, TypeOK
<1>3. Sums /\ NothingLost
    BY <1>1, FS_EmptySet DEF Init, Sums, NothingLost
<1>4. Apart /\ Locked /\ Children
    BY <1>1 DEF Init, Apart, Locked, Children, Thread, Before, Child, After
<1>5. NotStarted /\ Ends
    BY DEF Init, NotStarted, Ends, Thread
<1> QED
    BY <1>2, <1>3, <1>4, <1>5 DEF RunnerInv

(* RunTestCases() fills the queue and the counters while no thread runs.   *)
LEMMA RunTestCasesKeeps ==
    ASSUME RunnerInv, NEW cases \in CaseLists, NEW outcomes, RunTestCases(cases, outcomes)
    PROVE  RunnerInv'
<1> USE DEF RunnerInv
<1>1. /\ cases \in Seq(Case) /\ Len(cases) \in Nat
      /\ \A i, j \in DOMAIN cases : cases[i] = cases[j] => i = j
    BY DEF CaseLists
<1>2. \A t \in Thread : at[t] = "unborn"
    BY DEF RunTestCases, NotStarted
<1>3. \A t \in Thread : at'[t] \in {"unborn", "spawn"}
    BY <1>2 DEF RunTestCases, TypeOK
<1>4. InFlight' = {}
    BY <1>3 DEF InFlight
<1>5. Good' = {}
    BY DEF Good, RunTestCases, NotStarted
<1>6. TypeOK'
  <2>1. queue' \in Seq(Case) /\ tally' \in Tally
    BY <1>1 DEF RunTestCases, Tally
  <2>2. at' \in [Thread -> Place]
    BY DEF TypeOK, RunTestCases, Place
  <2> QED
    BY <2>1, <2>2 DEF TypeOK, RunTestCases
<1>7. Sums' /\ NothingLost'
    BY <1>1, <1>4, <1>5, FS_EmptySet DEF Sums, NothingLost, RunTestCases
<1>8. Apart' /\ Locked'
    BY <1>1, <1>3, <1>4 DEF Apart, Locked, RunTestCases
<1>9. Children'
    BY <1>1, <1>3 DEF Children, RunTestCases, NotStarted, Before, Child, After
<1>10. NotStarted' /\ Ends'
  <2>1. NotStarted'
    BY <1>2 DEF NotStarted, RunTestCases, Thread, TypeOK
  <2>2. ~terminate' /\ result' = "none" /\ at'[Main] = "spawn" /\ \A t \in Worker : at'[t] = "unborn"
    BY <1>2, RunnerAssumption DEF NotStarted, RunTestCases, Thread, TypeOK
  <2> QED
    BY <2>1, <2>2 DEF Ends, Thread
<1> QED
    BY <1>6, <1>7, <1>8, <1>9, <1>10

(* A step that changes neither the threads with a case nor what they have  *)
(* come to.                                                                *)
LEMMA SameFlight ==
    ASSUME RunnerInv, InFlight' = InFlight,
           UNCHANGED <<expect, queue, tally, test, process, output>>
    PROVE  Apart' /\ Sums' /\ Good' = Good
BY DEF RunnerInv, Apart, Sums, Good, UnexpectedOutput

(* What a thread that neither works on a case nor returns leaves as it is. *)
LEMMA Idles ==
    ASSUME RunnerInv, NEW t \in Thread, NEW place \in {"loop", "take", "join", "done"},
           at[t] \in {"unborn", "spawn", "loop", "take"}, at[Main] # "unborn", at' = [at EXCEPT ![t] = place],
           place \in {"join", "done"} => place = Returned(t) /\ (queue = <<>> \/ terminate),
           at[t] = "spawn" => t = Main,
           UNCHANGED <<expect, queue, tally, terminate, lock, test, seen, process, output, result>>
    PROVE  RunnerInv'
<1> USE DEF RunnerInv
<1>1. at' \in [Thread -> Place]
    BY DEF TypeOK, Place
<1>2. /\ at'[t] = place
      /\ \A u \in Thread \ {t} : at'[u] = at[u]
    BY DEF TypeOK
<1>3. TypeOK'
    BY <1>1 DEF TypeOK
<1>4. InFlight' = InFlight
    BY <1>2 DEF InFlight
<1>5. Apart' /\ Sums' /\ Good' = Good
    BY <1>4, SameFlight
<1>6. Locked'
    BY <1>2 DEF Locked
<1>7. Children'
  <2>1. Main \in Thread
    BY DEF Thread
  <2> QED
    BY <1>2, <2>1 DEF Children, Before, Child, After
<1>8. NotStarted'
    BY <1>2 DEF NotStarted, Thread
<1>9. Ends'
  <2>1. /\ (terminate => at[Main] = "dead") /\ (result \in {"succeeded", "failed"} <=> at[Main] = "finished")
        /\ (result = "succeeded" => tally.failed = <<>>)
        /\ (at[Main] = "finished" => \A u \in Worker : at[u] \in {"done", "dead"})
    BY DEF Ends
  <2>2. /\ terminate' => at'[Main] = "dead"
        /\ result' \in {"succeeded", "failed"} <=> at'[Main] = "finished"
        /\ at'[Main] = "finished" => \A u \in Worker : at'[u] \in {"done", "dead"}
    BY <1>2, <2>1 DEF Thread
  <2>3. at'[Main] # "done" /\ \A u \in Worker : at'[u] \notin {"spawn", "join", "finished"}
    BY <1>2, RunnerAssumption DEF Ends, Thread, Returned
  <2>4. (\E u \in Thread : at'[u] \in {"join", "done", "finished"}) /\ at'[Main] # "dead" => queue = <<>>
    BY <1>2, <2>1 DEF Ends, Thread
  <2> QED
    BY <2>1, <2>2, <2>3, <2>4 DEF Ends
<1>10. NothingLost'
    BY <1>2, <1>4, <1>5 DEF NothingLost
<1> QED
    BY <1>3, <1>5, <1>6, <1>7, <1>8, <1>9, <1>10

(* Run() starts a thread, ...                                               *)
LEMMA SpawnKeeps == ASSUME RunnerInv, NEW t \in Worker, Spawn(t) PROVE RunnerInv'
BY Idles, RunnerAssumption DEF Spawn, Thread

(* ... and when all are started becomes one of them.                       *)
LEMMA AllSpawnedKeeps == ASSUME RunnerInv, AllSpawned PROVE RunnerInv'
BY Idles DEF AllSpawned, Thread

(* A thread sees `terminate` only when Main is dead.                       *)
LEMMA WhileNotTerminatedKeeps ==
    ASSUME RunnerInv, NEW t \in Thread, WhileNotTerminated(t) PROVE RunnerInv'
<1>1. at[Main] # "unborn"
    BY DEF WhileNotTerminated, RunnerInv, NotStarted
<1>2. CASE terminate
    BY <1>1, <1>2, Idles DEF WhileNotTerminated, Returned
<1>3. CASE ~terminate
    BY <1>1, <1>3, Idles DEF WhileNotTerminated
<1> QED
    BY <1>2, <1>3

(* GetNowait() hands the first case to the thread, or ends its loop.       *)
LEMMA GetNowaitKeeps ==
    ASSUME RunnerInv, NEW t \in Thread, GetNowait(t) PROVE RunnerInv'
<1> USE DEF RunnerInv
<1>1. at[t] = "take" /\ at[Main] # "unborn" /\ t \notin InFlight
    BY DEF GetNowait, NotStarted, InFlight
<1>2. CASE queue = <<>>
    BY <1>1, <1>2, Idles DEF GetNowait, Returned
<1>3. CASE queue # <<>>
  <2> DEFINE c == Head(queue)
  <2>1. /\ test' = [test EXCEPT ![t] = c] /\ at' = [at EXCEPT ![t] = "about"]
        /\ queue' = Tail(queue)
        /\ UNCHANGED <<expect, tally, terminate, lock, seen, process, output, result>>
    BY <1>3 DEF GetNowait
  <2>2. /\ c \in Case /\ c = queue[1] /\ 1 \in DOMAIN queue
        /\ queue' \in Seq(Case) /\ Len(queue') = Len(queue) - 1 /\ Len(queue) \in Nat
        /\ \A i \in DOMAIN queue' : i + 1 \in DOMAIN queue /\ queue'[i] = queue[i + 1] /\ i \in Nat /\ i # 0
    BY <1>3, <2>1 DEF TypeOK
  <2>3. /\ at'[t] = "about" /\ test'[t] = c
        /\ \A u \in Thread \ {t} : at'[u] = at[u] /\ test'[u] = test[u]
    BY <2>1 DEF TypeOK
  <2>4. InFlight' = InFlight \cup {t}
    BY <2>3 DEF InFlight
  <2>5. Cardinality(InFlight') = Cardinality(InFlight) + 1
    BY <1>1, <2>4, Finite, FS_AddElement
  <2>6. TypeOK'
    <3>1. at' \in [Thread -> Place] /\ test' \in [Thread -> Case \cup {NoCase}]
        BY <2>1, <2>2 DEF TypeOK, Place, Before
    <3> QED
        BY <2>1, <2>2, <3>1 DEF TypeOK
  <2>7. Apart'
    <3>1. \A i, j \in DOMAIN queue' : queue'[i] = queue'[j] => i = j
        BY <2>2 DEF Apart
    <3>2. ASSUME NEW u \in InFlight'
          PROVE  test'[u] \in Case /\ \A i \in DOMAIN queue' : queue'[i] # test'[u]
        BY <2>2, <2>3, <2>4 DEF Apart, InFlight
    <3>3. \A u, v \in InFlight' : test'[u] = test'[v] => u = v
        BY <2>2, <2>3, <2>4 DEF Apart, InFlight
    <3> QED
        BY <3>1, <3>2, <3>3 DEF Apart
  <2>8. Locked'
    BY <2>1, <2>3 DEF Locked
  <2>9. Sums'
    BY <2>1, <2>2, <2>5, Finite DEF Sums, TypeOK, Tally
  <2>10. Children'
    <3>1. Main \in Thread
        BY DEF Thread
    <3>2. process[c].state = "none"
        BY <2>2 DEF Children
    <3>3. \A i \in DOMAIN queue' : process'[queue'[i]].state = "none"
        BY <2>1, <2>2 DEF Children
    <3>4. ASSUME NEW d \in Case, process'[d].state \notin {"none", "reaped"}, at'[Main] # "dead"
          PROVE  \E u \in Thread : at'[u] \in Child /\ test'[u] = d
      <4>1. at[Main] # "dead"
          BY <1>1, <2>3, <3>1, <3>4
      <4>2. PICK u \in Thread : at[u] \in Child /\ test[u] = d
          BY <2>1, <3>4, <4>1 DEF Children
      <4>3. u # t
          BY <1>1, <4>2 DEF Child
      <4> QED
          BY <2>3, <4>2, <4>3
    <3>5. \A u \in Thread : /\ at'[u] \in Before => process'[test'[u]].state = "none"
                            /\ at'[u] \in Child  => process'[test'[u]].state \in {"running", "killed", "zombie"}
                            /\ at'[u] \in After  => process'[test'[u]].state = "reaped"
        BY <2>1, <2>3, <3>2 DEF Children, Before, Child, After
    <3> QED
        BY <3>3, <3>4, <3>5 DEF Children
  <2>11. NotStarted'
    BY <1>1, <2>3 DEF NotStarted, Thread
  <2>12. Ends'
    BY <1>1, <1>3, <2>1, <2>3, RunnerAssumption DEF Ends, Thread
  <2>13. Good' = Good
    <3>1. process[c].state = "none"
        BY <2>2 DEF Children
    <3>2. InFlight \subseteq Thread
        BY DEF InFlight
    <3>3. ASSUME NEW d \in Case, process[d].state = "reaped"
          PROVE  (\A u \in InFlight' : test'[u] # d) <=> (\A u \in InFlight : test[u] # d)
        BY <1>1, <2>3, <2>4, <3>1, <3>2, <3>3
    <3> QED
        BY <2>1, <3>3 DEF Good, UnexpectedOutput
  <2>14. NothingLost'
    BY <1>1, <2>1, <2>2, <2>3, <2>5, <2>13, Finite DEF NothingLost, TypeOK, Tally
  <2> QED
    BY <2>6, <2>7, <2>8, <2>9, <2>10, <2>11, <2>12, <2>14
<1> QED
    BY <1>2, <1>3

(* A thread goes on with its case; only that case's child may change.      *)
LEMMA GoesOn ==
    ASSUME RunnerInv, NEW t \in InFlight, NEW place \in Before \cup Child \cup After,
           at' = [at EXCEPT ![t] = place],
           \A c \in Case \ {test[t]} : process'[c] = process[c] /\ output'[c] = output[c],
           UNCHANGED <<expect, queue, tally, terminate, test, result>>
    PROVE  /\ at' \in [Thread -> Place] /\ at'[t] = place
           /\ \A u \in Thread \ {t} : at'[u] = at[u]
           /\ Apart' /\ Sums' /\ NotStarted' /\ Ends' /\ NothingLost'
<1> USE DEF RunnerInv
<1>1. t \in Thread /\ at[t] \in Before \cup Child \cup After
    BY DEF InFlight, Before, Child, After
<1>2. at' \in [Thread -> Place]
    BY <1>1 DEF TypeOK, Place
<1>3. at'[t] = place /\ \A u \in Thread \ {t} : at'[u] = at[u]
    BY <1>1 DEF TypeOK
<1>4. InFlight' = InFlight
    BY <1>1, <1>3 DEF InFlight, Before, Child, After
<1>5. Apart' /\ Sums'
    BY <1>4 DEF Apart, Sums
<1>6. NotStarted'
    BY <1>1, <1>3 DEF NotStarted, Thread, Before, Child, After
<1>7. place \notin {"dead", "finished", "join", "done", "spawn"} /\ at[t] \notin {"dead", "finished", "join", "done", "spawn"}
    BY <1>1 DEF Before, Child, After
<1>8. Ends'
  <2>1. /\ (terminate => at[Main] = "dead") /\ (result \in {"succeeded", "failed"} <=> at[Main] = "finished")
        /\ (at[Main] = "finished" => \A u \in Worker : at[u] \in {"done", "dead"})
    BY DEF Ends
  <2>2. /\ terminate' => at'[Main] = "dead"
        /\ result' \in {"succeeded", "failed"} <=> at'[Main] = "finished"
        /\ at'[Main] = "finished" => \A u \in Worker : at'[u] \in {"done", "dead"}
    BY <1>3, <1>7, <2>1 DEF Thread
  <2>3. at'[Main] # "done" /\ \A u \in Worker : at'[u] \notin {"spawn", "join", "finished"}
    BY <1>3, <1>7, RunnerAssumption DEF Ends, Thread
  <2>4. (\E u \in Thread : at'[u] \in {"join", "done", "finished"}) /\ at'[Main] # "dead" => queue = <<>>
    BY <1>3, <1>7 DEF Ends, Thread
  <2> QED
    BY <2>2, <2>3, <2>4 DEF Ends
<1>9. Good' = Good
    BY <1>4 DEF Good, UnexpectedOutput
<1>10. NothingLost'
    BY <1>1, <1>3, <1>4, <1>7, <1>9 DEF NothingLost
<1> QED
    BY <1>2, <1>3, <1>5, <1>6, <1>8, <1>10

(* The child of a thread changes with it: the other children, and the      *)
(* queue, do not care.                                                     *)
LEMMA ChildMoves ==
    ASSUME RunnerInv, NEW t \in InFlight, UNCHANGED <<queue, test>>,
           at[Main] = "dead" => at'[Main] = "dead",
           \A u \in Thread \ {t} : at'[u] = at[u],
           \A c \in Case \ {test[t]} : process'[c] = process[c],
           \/ at'[t] \in Child /\ process'[test[t]].state \in {"running", "killed", "zombie"}
           \/ at'[t] \in After /\ process'[test[t]].state = "reaped"
    PROVE  Children'
<1> USE DEF RunnerInv
<1>1. /\ t \in Thread /\ test[t] \in Case
      /\ \A u \in InFlight \ {t} : test[u] # test[t] /\ test[u] \in Case
      /\ \A i \in DOMAIN queue : queue[i] # test[t] /\ queue[i] \in Case
    BY DEF Apart, InFlight, TypeOK
<1>2. \A i \in DOMAIN queue' : process'[queue'[i]].state = "none"
    BY <1>1 DEF Children
<1>3. \A u \in Thread : at[u] \in Before \cup Child \cup After => u \in InFlight
    BY DEF InFlight, Before, Child, After
<1>4. \A u \in Thread : /\ at'[u] \in Before => process'[test'[u]].state = "none"
                        /\ at'[u] \in Child  => process'[test'[u]].state \in {"running", "killed", "zombie"}
                        /\ at'[u] \in After  => process'[test'[u]].state = "reaped"
  <2>1. ASSUME NEW u \in Thread \ {t}
        PROVE  /\ at'[u] \in Before => process'[test'[u]].state = "none"
               /\ at'[u] \in Child  => process'[test'[u]].state \in {"running", "killed", "zombie"}
               /\ at'[u] \in After  => process'[test'[u]].state = "reaped"
      BY <1>1, <1>3 DEF Children
  <2> QED
      BY <2>1 DEF Before, Child, After
<1>5. ASSUME NEW c \in Case, process'[c].state \notin {"none", "reaped"}, at'[Main] # "dead"
      PROVE  \E u \in Thread : at'[u] \in Child /\ test'[u] = c
  <2>1. CASE c = test[t]
      BY <1>1, <1>5, <2>1
  <2>2. CASE c # test[t]
    <3>1. PICK u \in Thread : at[u] \in Child /\ test[u] = c
        BY <1>5, <2>2 DEF Children
    <3> QED
        BY <2>2, <3>1
  <2> QED
      BY <2>1, <2>2
<1> QED
    BY <1>2, <1>4, <1>5 DEF Children

(* AboutToRun() prints, under the lock.                                    *)
LEMMA AboutToRunKeeps ==
    ASSUME RunnerInv, NEW t \in Thread, AboutToRun(t) PROVE RunnerInv'
<1> USE DEF RunnerInv
<1>1. t \in InFlight /\ at[t] = "about" /\ "start" \in Before
    BY DEF AboutToRun, InFlight, Before
<1>2. /\ at' \in [Thread -> Place] /\ at'[t] = "start" /\ \A u \in Thread \ {t} : at'[u] = at[u]
      /\ Apart' /\ Sums' /\ NotStarted' /\ Ends' /\ NothingLost'
    BY <1>1, GoesOn DEF AboutToRun
<1>3. TypeOK' /\ Locked'
    BY <1>2 DEF AboutToRun, TypeOK, Locked
<1>4. Children'
    BY <1>1, <1>2 DEF AboutToRun, Children, Before, Child, After, Thread
<1> QED
    BY <1>2, <1>3, <1>4

(* The child starts running; nobody else has this case.                    *)
LEMMA PopenKeeps ==
    ASSUME RunnerInv, NEW t \in Thread, Popen(t) PROVE RunnerInv'
<1> USE DEF RunnerInv
<1> DEFINE c == test[t]
<1>1. t \in InFlight /\ at[t] = "start" /\ "poll" \in Child
    BY DEF Popen, InFlight, Child
<1>2. /\ c \in Case /\ process' = [process EXCEPT ![c].state = "running"]
      /\ \A u \in InFlight \ {t} : test[u] # c
      /\ \A i \in DOMAIN queue : queue[i] # c
    BY <1>1 DEF Popen, Apart
<1>3. process'[c].state = "running" /\ \A d \in Case \ {c} : process'[d] = process[d]
    BY <1>2 DEF TypeOK, Process
<1>4. /\ at' \in [Thread -> Place] /\ at'[t] = "poll" /\ \A u \in Thread \ {t} : at'[u] = at[u]
      /\ Apart' /\ Sums' /\ NotStarted' /\ Ends' /\ NothingLost'
    BY <1>1, <1>3, GoesOn DEF Popen
<1>5. process' \in [Case -> Process]
    BY <1>2 DEF TypeOK, Process
<1>6. TypeOK' /\ Locked'
    BY <1>4, <1>5 DEF Popen, TypeOK, Locked
<1>7. at[Main] = "dead" => at'[Main] = "dead"
    BY <1>1, <1>4 DEF Thread
<1>8. UNCHANGED <<queue, test>>
    BY DEF Popen
<1>9. Children'
    BY <1>1, <1>3, <1>4, <1>7, <1>8, ChildMoves
<1> QED
    BY <1>4, <1>6, <1>9

(* A child ends by itself; its thread, if it has one still, will see it.   *)
LEMMA ExitKeeps ==
    ASSUME RunnerInv, NEW c \in Case, NEW code \in ExitCode, Exit(c, code) PROVE RunnerInv'
<1> USE DEF RunnerInv
<1>1. /\ process[c].state \in {"running", "killed"}
      /\ process' = [process EXCEPT ![c] = [state |-> "zombie", code |-> code]]
      /\ UNCHANGED <<expect, queue, tally, terminate, lock, at, test, seen, output, result>>
    BY DEF Exit
<1>2. process'[c].state = "zombie" /\ \A d \in Case \ {c} : process'[d] = process[d]
    BY <1>1 DEF TypeOK
<1>3. InFlight' = InFlight
    BY <1>1 DEF InFlight
<1>4. Apart' /\ Sums' /\ Locked' /\ Ends'
    BY <1>1, <1>3 DEF Apart, Sums, Locked, Ends
<1>5. TypeOK'
  <2>1. process' \in [Case -> Process]
      BY <1>1 DEF TypeOK, Process
  <2> QED
      BY <1>1, <2>1 DEF TypeOK
<1>6. NotStarted'
    BY <1>1, <1>2 DEF NotStarted
<1>7. Children'
  <2>1. \A i \in DOMAIN queue : queue[i] \in Case /\ queue[i] # c
      BY <1>1 DEF Children, TypeOK
  <2>2. ASSUME NEW t \in Thread, at[t] \in Before \cup Child \cup After
        PROVE  test[t] \in Case
      BY <2>2 DEF Apart, InFlight, Before, Child, After
  <2>3. \A t \in Thread : /\ at[t] \in Before => process'[test[t]].state = "none"
                          /\ at[t] \in Child  => process'[test[t]].state \in {"running", "killed", "zombie"}
                          /\ at[t] \in After  => process'[test[t]].state = "reaped"
      BY <1>1, <1>2, <2>2 DEF Children
  <2>4. \A d \in Case : process'[d].state \notin {"none", "reaped"} => process[d].state \notin {"none", "reaped"}
      BY <1>1, <1>2
  <2> QED
      BY <1>1, <1>2, <2>1, <2>3, <2>4 DEF Children
<1>8. Good' = Good
    BY <1>1, <1>2, <1>3 DEF Good, UnexpectedOutput
<1>9. NothingLost'
    BY <1>1, <1>3, <1>8 DEF NothingLost
<1> QED
    BY <1>4, <1>5, <1>6, <1>7, <1>9

(* The child is reaped, by poll() or by wait().                            *)
LEMMA ReapKeeps ==
    ASSUME RunnerInv, NEW t \in Thread, NEW timed_out \in BOOLEAN, at[t] \in Child,
           output' = [output EXCEPT ![test[t]] = [exit_code |-> process[test[t]].code, timed_out |-> timed_out]],
           process' = [process EXCEPT ![test[t]] = Reaped], at' = [at EXCEPT ![t] = "read"],
           UNCHANGED <<expect, queue, tally, terminate, lock, test, seen, result>>
    PROVE  RunnerInv'
<1> USE DEF RunnerInv
<1> DEFINE c == test[t]
<1>1. t \in InFlight /\ "read" \in After /\ at[t] # "dead"
    BY DEF InFlight, Child, After
<1>2. c \in Case
    BY <1>1 DEF Apart
<1>3. /\ process'[c].state = "reaped"
      /\ \A d \in Case \ {c} : process'[d] = process[d] /\ output'[d] = output[d]
    BY <1>2 DEF TypeOK, Reaped
<1>4. /\ at' \in [Thread -> Place] /\ at'[t] = "read" /\ \A u \in Thread \ {t} : at'[u] = at[u]
      /\ Apart' /\ Sums' /\ NotStarted' /\ Ends' /\ NothingLost'
    BY <1>1, <1>3, GoesOn
<1>5. process' \in [Case -> Process] /\ output' \in [Case -> Output]
    BY <1>2 DEF TypeOK, Process, Output, Reaped, ExitCode
<1>6. TypeOK' /\ Locked'
    BY <1>4, <1>5 DEF TypeOK, Locked
<1>7. at[Main] = "dead" => at'[Main] = "dead"
    BY <1>1, <1>4 DEF Thread
<1>8. Children'
    BY <1>1, <1>3, <1>4, <1>7, ChildMoves
<1> QED
    BY <1>4, <1>6, <1>8

(* The thread sees in time that its child has ended, ...                   *)
LEMMA PollKeeps == ASSUME RunnerInv, NEW t \in Thread, Poll(t) PROVE RunnerInv'
BY ReapKeeps DEF Poll, Child

(* ... or after it has sent it a signal.                                   *)
LEMMA WaitKeeps == ASSUME RunnerInv, NEW t \in Thread, Wait(t) PROVE RunnerInv'
BY ReapKeeps DEF Wait, Child

(* The time is up: the child is killed, or has just ended.                 *)
LEMMA TimesOutKeeps == ASSUME RunnerInv, NEW t \in Thread, TimesOut(t) PROVE RunnerInv'
<1> USE DEF RunnerInv
<1> DEFINE c == test[t]
<1>1. t \in InFlight /\ at[t] \in Child /\ at[t] # "dead" /\ "wait" \in Child
    BY DEF TimesOut, InFlight, Child
<1>2. c \in Case /\ process[c].state \in {"running", "killed", "zombie"}
    BY <1>1, RunnerAssumption DEF Apart, Children, InFlight
<1>3. /\ process'[c].state \in {"running", "killed", "zombie"}
      /\ \A d \in Case \ {c} : process'[d] = process[d] /\ output'[d] = output[d]
    BY <1>2 DEF TimesOut, TypeOK, Process
<1>4. /\ at' \in [Thread -> Place] /\ at'[t] = "wait" /\ \A u \in Thread \ {t} : at'[u] = at[u]
      /\ Apart' /\ Sums' /\ NotStarted' /\ Ends' /\ NothingLost'
    BY <1>1, <1>3, GoesOn DEF TimesOut
<1>5. process' \in [Case -> Process]
    BY <1>2 DEF TimesOut, TypeOK, Process
<1>6. TypeOK' /\ Locked'
    BY <1>4, <1>5 DEF TimesOut, TypeOK, Locked
<1>7. at[Main] = "dead" => at'[Main] = "dead"
    BY <1>1, <1>4 DEF Thread
<1>8. UNCHANGED <<queue, test>>
    BY DEF TimesOut
<1>9. Children'
    BY <1>1, <1>3, <1>4, <1>7, <1>8, ChildMoves
<1> QED
    BY <1>4, <1>6, <1>9

(* A thread takes the lock and reads the counters.                         *)
LEMMA AcquireKeeps ==
    ASSUME RunnerInv, NEW t \in Thread, Acquire(t) PROVE RunnerInv'
<1> USE DEF RunnerInv
<1>1. t \in InFlight /\ at[t] = "acquire" /\ {"acquire", "count"} \subseteq After /\ lock = Nobody
    BY DEF Acquire, InFlight, After
<1>2. /\ at' \in [Thread -> Place] /\ at'[t] = "count" /\ \A u \in Thread \ {t} : at'[u] = at[u]
      /\ Apart' /\ Sums' /\ NotStarted' /\ Ends' /\ NothingLost'
    BY <1>1, GoesOn DEF Acquire
<1>3. seen' \in [Thread -> Counters]
    BY DEF Acquire, TypeOK, Tally, Counters
<1>4. TypeOK'
    BY <1>2, <1>3 DEF Acquire, TypeOK
<1>5. Locked'
    BY <1>1, <1>2, RunnerAssumption DEF Acquire, Locked, TypeOK
<1>6. process[test[t]].state = "reaped" /\ (at[Main] = "dead" => at'[Main] = "dead")
    BY <1>1, <1>2 DEF Children, Thread
<1>7. UNCHANGED <<queue, test, process>>
    BY DEF Acquire
<1>8. Children'
    BY <1>1, <1>2, <1>6, <1>7, ChildMoves
<1> QED
    BY <1>2, <1>4, <1>5, <1>8

(* A thread returns because it is told to, or dies; Main is told last, and *)
(* it alone may leave a child behind.                                      *)
LEMMA GivesUp ==
    ASSUME RunnerInv, NEW t \in Thread, NEW place \in {"join", "done", "dead"},
           at[t] \in {"loop", "take", "join"} \cup Before \cup Child \cup After, at' = [at EXCEPT ![t] = place],
           place # "dead" => place = Returned(t) /\ terminate /\ UNCHANGED <<terminate, result>>,
           IF t = Main THEN place = "dead" => terminate' \in BOOLEAN /\ result' \in {"raised", "interrupted"}
                       ELSE UNCHANGED <<terminate, result>> /\ at[t] \notin Child,
           lock' = lock \/ (lock = Nobody /\ lock' = t),
           UNCHANGED <<expect, queue, tally, test, seen, process, output>>
    PROVE  RunnerInv'
<1> USE DEF RunnerInv
<1>1. /\ at'[t] = place /\ at' \in [Thread -> Place]
      /\ \A u \in Thread \ {t} : at'[u] = at[u]
    BY DEF TypeOK, Place
<1>2. at[t] \notin {"unborn", "spawn", "dead", "done", "finished"} /\ place \notin Before \cup Child \cup After
    BY DEF Before, Child, After
<1>3. at[Main] = "dead" => t # Main
    BY <1>2
<1>4. place # "dead" => t # Main /\ at[Main] = "dead"
    BY <1>3 DEF Ends
<1>5. terminate' \in BOOLEAN /\ result' \in {"none", "raised", "interrupted", "succeeded", "failed"}
    BY <1>4 DEF TypeOK
<1>6. TypeOK'
    BY <1>1, <1>5 DEF TypeOK
<1>7. InFlight' = InFlight \ {t}
    BY <1>1 DEF InFlight
<1>8. Cardinality(InFlight') \in Nat /\ Cardinality(InFlight') <= Cardinality(InFlight)
  <2>1. /\ IsFiniteSet(InFlight \ {t})
        /\ Cardinality(InFlight \ {t}) = IF t \in InFlight THEN Cardinality(InFlight) - 1 ELSE Cardinality(InFlight)
      BY Finite, FS_RemoveElement
  <2>2. Cardinality(InFlight \ {t}) \in Nat
      BY <2>1, FS_CardinalityType
  <2> QED
      BY <1>7, <2>1, <2>2, Finite
<1>9. Apart' /\ Sums'
  <2>1. Apart'
      BY <1>7 DEF Apart
  <2>2. Len(queue) \in Nat /\ tally.remaining \in Int
      BY DEF TypeOK, Tally
  <2>3. Sums'
      BY <1>8, <2>2, Finite DEF Sums
  <2> QED
      BY <2>1, <2>3
<1>10. Locked'
    BY <1>1, RunnerAssumption DEF Locked, Thread
<1>11. Children'
  <2>1. \A u \in Thread : /\ at'[u] \in Before => process'[test'[u]].state = "none"
                          /\ at'[u] \in Child  => process'[test'[u]].state \in {"running", "killed", "zombie"}
                          /\ at'[u] \in After  => process'[test'[u]].state = "reaped"
      BY <1>1, <1>2 DEF Children
  <2>2. ASSUME NEW c \in Case, process[c].state \notin {"none", "reaped"}, at'[Main] # "dead"
        PROVE  \E u \in Thread : at'[u] \in Child /\ test[u] = c
    <3>1. Main \in Thread
        BY DEF Thread
    <3>2. t # Main /\ at[Main] # "dead"
        BY <1>1, <1>3, <1>4, <2>2, <3>1
    <3>3. PICK u \in Thread : at[u] \in Child /\ test[u] = c
        BY <2>2, <3>2 DEF Children
    <3> QED
        BY <1>1, <3>2, <3>3
  <2>3. \A i \in DOMAIN queue' : process'[queue'[i]].state = "none"
      BY DEF Children
  <2> QED
      BY <2>1, <2>2, <2>3 DEF Children
<1>12. NotStarted'
    BY <1>1, <1>2 DEF NotStarted, Thread
<1>13. at'[Main] = "dead" \/ (t # Main /\ at'[Main] = at[Main] /\ at[Main] # "dead" /\ UNCHANGED <<terminate, result>>)
    BY <1>1, <1>4 DEF Thread
<1>14. Ends'
  <2>1. CASE t = Main
      BY <1>1, <1>4, <2>1, RunnerAssumption DEF Ends, Thread
  <2>2. CASE t # Main
    <3>1. UNCHANGED <<terminate, result>> /\ at'[Main] = at[Main]
        BY <1>1, <2>2 DEF Thread
    <3>2. place # "join" /\ (at[Main] # "dead" => place = "dead")
        BY <1>4, <2>2 DEF Returned
    <3> QED
        BY <1>1, <2>2, <3>1, <3>2 DEF Ends, Thread
  <2> QED
      BY <2>1, <2>2
<1>15. NothingLost'
  <2>1. \E u \in Thread : at'[u] = "dead"
      BY <1>1, <1>4 DEF Thread
  <2> QED
      BY <2>1 DEF NothingLost
<1> QED
    BY <1>6, <1>9, <1>10, <1>11, <1>12, <1>14, <1>15


(* An exception leaves RunSingle() while the thread prints, ...            *)
LEMMA AboutToRunFailsKeeps ==
    ASSUME RunnerInv, NEW t \in Thread, AboutToRunFails(t) PROVE RunnerInv'
<1>1. at[t] = "about" /\ at[t] \in Before /\ at[t] \notin Child
    BY DEF AboutToRunFails, Before, Child
<1> QED
    BY <1>1, GivesUp DEF AboutToRunFails, Raise

(* ... before it has a child, or when it reads the child's output.         *)
LEMMA RunFailsKeeps ==
    ASSUME RunnerInv, NEW t \in Thread, RunFails(t) PROVE RunnerInv'
<1>1. at[t] \in Before \cup After /\ at[t] \notin Child /\ UNCHANGED <<expect, queue, tally, lock, test, seen, process, output>>
    BY DEF RunFails, Before, Child, After
<1>2. CASE Raise(t)
    BY <1>1, <1>2, GivesUp DEF Raise
<1>3. CASE terminate /\ at' = [at EXCEPT ![t] = Returned(t)] /\ UNCHANGED <<terminate, result>>
    BY <1>1, <1>3, GivesUp DEF Returned
<1> QED
    BY <1>2, <1>3 DEF RunFails

(* The output is there; a thread that is told to stop drops it.            *)
LEMMA HaveOutputKeeps ==
    ASSUME RunnerInv, NEW t \in Thread, HaveOutput(t) PROVE RunnerInv'
<1>1. /\ at[t] = "read" /\ {"read", "acquire"} \subseteq After /\ at[t] \notin Child /\ t \in InFlight
      /\ UNCHANGED <<expect, queue, tally, terminate, lock, test, seen, process, output, result>>
    BY DEF HaveOutput, Child, After, InFlight
<1>2. CASE terminate
    BY <1>1, <1>2, GivesUp DEF HaveOutput, Returned
<1>3. CASE ~terminate
  <2>1. at' = [at EXCEPT ![t] = "acquire"]
      BY <1>3 DEF HaveOutput
  <2>2. /\ at' \in [Thread -> Place] /\ at'[t] = "acquire" /\ \A u \in Thread \ {t} : at'[u] = at[u]
        /\ Apart' /\ Sums' /\ NotStarted' /\ Ends' /\ NothingLost'
      BY <1>1, <2>1, GoesOn
  <2>3. TypeOK' /\ Locked'
      BY <1>1, <2>2 DEF RunnerInv, TypeOK, Locked
  <2>4. process'[test[t]].state = "reaped" /\ (at[Main] = "dead" => at'[Main] = "dead")
      BY <1>1, <2>2 DEF RunnerInv, Children, Thread
  <2>5. Children'
      BY <1>1, <2>2, <2>4, ChildMoves
  <2> QED
      BY <2>2, <2>3, <2>5 DEF RunnerInv
<1> QED
    BY <1>2, <1>3

(* Ctrl-C reaches Main wherever it is, with or without a child.            *)
LEMMA KeyboardInterruptKeeps ==
    ASSUME RunnerInv, KeyboardInterrupt PROVE RunnerInv'
<1>1. Main \in Thread /\ at[Main] \in Place /\ at[Main] # "done"
    BY DEF RunnerInv, TypeOK, Ends, Thread
<1>2. at[Main] \in {"loop", "take", "join"} \cup Before \cup Child \cup After
    BY <1>1 DEF KeyboardInterrupt, Place
<1>3. terminate \in BOOLEAN
    BY DEF RunnerInv, TypeOK
<1> QED
    BY <1>1, <1>2, <1>3, GivesUp DEF KeyboardInterrupt

(* Run() has joined the other threads and looks at the list of failures.   *)
LEMMA JoinKeeps == ASSUME RunnerInv, Join PROVE RunnerInv'
<1> USE DEF RunnerInv
<1>1. /\ Main \in Thread /\ at'[Main] = "finished" /\ at' \in [Thread -> Place]
      /\ \A u \in Thread \ {Main} : at'[u] = at[u]
    BY DEF Join, TypeOK, Thread, Place
<1>2. result' \in {"succeeded", "failed"} /\ (result' = "succeeded" => tally.failed = <<>>)
    BY DEF Join
<1>3. InFlight' = InFlight
    BY <1>1 DEF Join, InFlight
<1>4. Apart' /\ Sums' /\ Good' = Good
    BY <1>3, SameFlight DEF Join
<1>5. TypeOK' /\ Locked'
    BY <1>1, <1>2 DEF Join, TypeOK, Locked
<1>6. Children'
    BY <1>1 DEF Join, Children, Before, Child, After
<1>7. NotStarted'
    BY <1>1 DEF NotStarted
<1>8. Ends'
  <2>1. ~terminate /\ queue = <<>>
      BY <1>1 DEF Join, Ends
  <2>2. \A u \in Worker : at'[u] = at[u] /\ at'[u] \in {"done", "dead"}
      BY <1>1, RunnerAssumption DEF Join, Thread
  <2> QED
      BY <1>1, <1>2, <2>1, <2>2 DEF Join, Ends
<1>9. NothingLost'
    BY <1>1, <1>3, <1>4 DEF Join, NothingLost
<1> QED
    BY <1>4, <1>5, <1>6, <1>7, <1>8, <1>9

(* A case is counted, under the lock: what the thread has read still holds.*)
(* If then printing fails the thread dies and keeps the lock.              *)
LEMMA HasRunKeeps == ASSUME RunnerInv, NEW t \in Thread, HasRun(t) PROVE RunnerInv'
<1> USE DEF RunnerInv
<1> DEFINE c == test[t]
           bad == UnexpectedOutput(c)
<1>1. /\ at[t] = "count" /\ t \in InFlight /\ lock = t /\ UNCHANGED <<expect, queue, test, process, output>>
      /\ seen' = [seen EXCEPT ![t] = Unseen]
    BY DEF HasRun, Locked, InFlight
<1>2. /\ c \in Case /\ \A u \in InFlight \ {t} : test[u] # c
      /\ process[c].state = "reaped"
    BY <1>1 DEF Apart, Children, After
<1>3. PICK place \in {"loop", "dead"} :
        /\ at' = [at EXCEPT ![t] = place]
        /\ place = "loop" => lock' = Nobody /\ UNCHANGED <<terminate, result>>
        /\ place = "dead" => /\ lock' = lock
                             /\ IF t = Main THEN terminate' = TRUE /\ result' = "raised"
                                            ELSE UNCHANGED <<terminate, result>>
    BY DEF HasRun, Raise
<1>4. /\ at'[t] = place /\ at' \in [Thread -> Place]
      /\ \A u \in Thread \ {t} : at'[u] = at[u]
    BY <1>3 DEF TypeOK, Place
<1>5. /\ tally.total \in Nat /\ tally.succeeded \in Nat /\ tally.crashed \in Nat /\ tally.remaining \in Int
      /\ tally.failed \in Seq(Case) /\ Len(tally.failed) \in Nat
    BY DEF TypeOK, Tally
<1>6. /\ tally'.total = tally.total
      /\ tally'.remaining = tally.remaining - 1
      /\ tally'.succeeded = IF bad THEN tally.succeeded ELSE tally.succeeded + 1
      /\ tally'.failed = IF bad THEN Append(tally.failed, c) ELSE tally.failed
      /\ \/ tally'.crashed = tally.crashed
         \/ bad /\ tally'.crashed = tally.crashed + 1
  <2>1. /\ seen[t].crashed = tally.crashed /\ seen[t].succeeded = tally.succeeded
        /\ seen[t].remaining = tally.remaining
      BY <1>1 DEF Locked
  <2>2. tally' = Counted(t)
      BY DEF HasRun
  <2> QED
      BY <2>1, <2>2 DEF Counted, TypeOK, Tally
<1>7. tally' \in Tally
  <2>1. tally' = [total |-> tally'.total, succeeded |-> tally'.succeeded, failed |-> tally'.failed,
                  crashed |-> tally'.crashed, remaining |-> tally'.remaining]
      BY DEF HasRun, Counted, TypeOK, Tally
  <2>2. /\ tally'.total \in Nat /\ tally'.succeeded \in Nat /\ tally'.crashed \in Nat /\ tally'.remaining \in Int
        /\ tally'.failed \in Seq(Case)
      BY <1>2, <1>5, <1>6
  <2> QED
      BY <2>1, <2>2 DEF Tally
<1>8. InFlight' = InFlight \ {t}
    BY <1>4 DEF InFlight
<1>9. Cardinality(InFlight') = Cardinality(InFlight) - 1
  <2>1. Cardinality(InFlight \ {t}) = Cardinality(InFlight) - 1
      BY <1>1, Finite, FS_RemoveElement
  <2> QED
      BY <1>8, <2>1
<1>10. TypeOK'
  <2>1. seen' \in [Thread -> Counters]
      BY <1>1 DEF TypeOK, Unseen, Counters
  <2>2. terminate' \in BOOLEAN /\ lock' \in Thread \cup {Nobody}
      BY <1>3 DEF TypeOK
  <2>3. result' \in {"none", "raised", "interrupted", "succeeded", "failed"}
      BY <1>3 DEF TypeOK
  <2> QED
      BY <1>1, <1>4, <1>7, <2>1, <2>2, <2>3 DEF TypeOK
<1>11. Apart'
    BY <1>1, <1>8 DEF Apart
<1>12. Locked'
    BY <1>1, <1>4 DEF Locked
<1>13. Sums'
  <2>1. Len(tally'.failed) = IF bad THEN Len(tally.failed) + 1 ELSE Len(tally.failed)
      BY <1>2, <1>5, <1>6
  <2>2. Cardinality(InFlight) \in Nat /\ Len(queue) \in Nat
      BY Finite DEF TypeOK
  <2>3. tally'.succeeded + Len(tally'.failed) = tally.succeeded + Len(tally.failed) + 1
      BY <1>5, <1>6, <2>1
  <2>4. tally'.succeeded + Len(tally'.failed) + tally'.remaining = tally'.total
    <3>1. tally.succeeded + Len(tally.failed) + tally.remaining = tally.total
        BY DEF Sums
    <3>2. tally'.remaining = tally.remaining - 1 /\ tally'.total = tally.total
        BY <1>6
    <3>3. (tally.succeeded + Len(tally.failed) + 1) + (tally.remaining - 1) = tally.total
        BY <1>5, <3>1
    <3> QED
        BY <2>3, <3>2, <3>3
  <2>5. tally'.remaining >= Len(queue) + Cardinality(InFlight')
      BY <1>5, <1>6, <1>9, <2>2 DEF Sums
  <2>6. tally'.crashed <= Len(tally'.failed)
      BY <1>5, <1>6, <2>1 DEF Sums
  <2> QED
      BY <1>1, <2>4, <2>5, <2>6 DEF Sums
<1>14. Children'
  <2>1. Main \in Thread
      BY DEF Thread
  <2>2. ASSUME NEW d \in Case, process[d].state \notin {"none", "reaped"}, at'[Main] # "dead"
        PROVE  \E u \in Thread : at'[u] \in Child /\ test[u] = d
    <3>1. at[Main] # "dead"
        BY <1>1, <1>4, <2>1, <2>2
    <3>2. PICK u \in Thread : at[u] \in Child /\ test[u] = d
        BY <2>2, <3>1 DEF Children
    <3>3. u # t
        BY <1>1, <3>2 DEF Child
    <3> QED
        BY <1>4, <3>2, <3>3
  <2> QED
      BY <1>1, <1>4, <2>2 DEF Children, Before, Child, After
<1>15. NotStarted'
    BY <1>1, <1>4 DEF NotStarted, Thread
<1>16. Ends'
    BY <1>1, <1>3, <1>4, <1>6, RunnerAssumption DEF Ends, Thread
<1>17. NothingLost'
  <2> SUFFICES ASSUME \A u \in Thread : at'[u] # "dead"
               PROVE  tally'.remaining = Len(queue) + Cardinality(InFlight') /\ tally'.succeeded = Cardinality(Good')
      BY <1>1 DEF NothingLost
  <2>1. \A u \in Thread : at[u] # "dead"
      BY <1>1, <1>4
  <2>2. tally.remaining = Len(queue) + Cardinality(InFlight) /\ tally.succeeded = Cardinality(Good)
      BY <2>1 DEF NothingLost
  <2>3. Good' = (IF bad THEN Good ELSE Good \cup {c}) /\ c \notin Good
      BY <1>1, <1>2, <1>8 DEF Good, UnexpectedOutput
  <2>4. Cardinality(Good') = IF bad THEN Cardinality(Good) ELSE Cardinality(Good) + 1
      BY <2>3, Finite, FS_AddElement
  <2>5. Len(queue) \in Nat
      BY DEF TypeOK
  <2> HIDE DEF c, bad
  <2> QED
      BY <1>6, <1>9, <2>2, <2>4, <2>5, <1>5, Finite
<1> QED
    BY <1>10, <1>11, <1>12, <1>13, <1>14, <1>15, <1>16, <1>17

(* A step that changes nothing.                                            *)
LEMMA StutterKeeps == ASSUME RunnerInv, UNCHANGED vars PROVE RunnerInv'
<1>1. InFlight' = InFlight /\ Good' = Good
    BY DEF vars, InFlight, Good, UnexpectedOutput
<1> QED
    BY <1>1 DEF vars, RunnerInv, TypeOK, Apart, Locked, Sums, Children, NotStarted, Ends, NothingLost

(* What a thread does next.                                                *)
LEMMA StepKeeps == ASSUME RunnerInv, NEW t \in Thread, Step(t) PROVE RunnerInv'
BY WhileNotTerminatedKeeps, GetNowaitKeeps, AboutToRunKeeps, PopenKeeps, PollKeeps,
   WaitKeeps, HaveOutputKeeps, AcquireKeeps, HasRunKeeps DEF Step

-----------------------------------------------------------------------------
(* The theorems.                                                           *)

(* Whatever the threads do, and whatever goes wrong, the counters follow   *)
(* the cases and the children follow the threads.                          *)
THEOREM RunnerInvariant == Spec => []RunnerInv
<1>1. Init => RunnerInv
    BY InitKeeps
<1>2. RunnerInv /\ [Next]_vars => RunnerInv'
  <2> SUFFICES ASSUME RunnerInv, [Next]_vars PROVE RunnerInv'
      OBVIOUS
  <2>1. ASSUME NEW s \in CaseLists, NEW o \in Classified, RunTestCases(s, o) PROVE RunnerInv'
      BY <2>1, RunTestCasesKeeps
  <2>2. ASSUME NEW t \in Worker, Spawn(t) PROVE RunnerInv'
      BY <2>2, SpawnKeeps
  <2>3. CASE AllSpawned
      BY <2>3, AllSpawnedKeeps
  <2>4. ASSUME NEW t \in Thread, Step(t) \/ TimesOut(t) \/ AboutToRunFails(t) \/ RunFails(t) PROVE RunnerInv'
      BY <2>4, StepKeeps, TimesOutKeeps, AboutToRunFailsKeeps, RunFailsKeeps
  <2>5. ASSUME NEW c \in Case, NEW code \in ExitCode, Exit(c, code) PROVE RunnerInv'
      BY <2>5, ExitKeeps
  <2>6. CASE KeyboardInterrupt
      BY <2>6, KeyboardInterruptKeeps
  <2>7. CASE Join
      BY <2>7, JoinKeeps
  <2>8. CASE UNCHANGED vars
      BY <2>8, StutterKeeps
  <2> QED
      BY <2>1, <2>2, <2>3, <2>4, <2>5, <2>6, <2>7, <2>8 DEF Next, RunnerNext
<1> QED
    BY <1>1, <1>2, PTL DEF Spec

(* No case is counted twice or left out, and no two threads run the same   *)
(* one: AboutToRun() and HasRun() in RunSingle() work on the counters only *)
(* under the lock.                                                         *)
THEOREM RunnerAccounts == Spec => []Accounted
<1>1. RunnerInv => Accounted
    BY DEF RunnerInv, Apart, Sums, Accounted
<1> QED
    BY <1>1, RunnerInvariant, PTL

(* Where Run() returns no thread has a case in its hands.                  *)
LEMMA AllBack ==
    ASSUME RunnerInv, at[Main] = "finished"
    PROVE  InFlight = {} /\ \A t \in Thread : at[t] \in {"done", "dead", "finished"}
BY DEF RunnerInv, Ends, InFlight, Thread

(* Run() returns True only if each case ended as its status allows, unless *)
(* a thread died: the list of failures is empty, nothing remains, so what  *)
(* has succeeded is everything.                                            *)
THEOREM RunnerSucceeds == Spec => []SuccessIsReal
<1>1. RunnerInv => SuccessIsReal
  <2> SUFFICES ASSUME RunnerInv, result = "succeeded", \A t \in Worker : at[t] # "dead"
               PROVE  Cardinality({c \in Case : process[c].state = "reaped" /\ ~UnexpectedOutput(c)}) = tally.total
      BY DEF SuccessIsReal
  <2>1. at[Main] = "finished" /\ tally.failed = <<>>
      BY DEF RunnerInv, Ends
  <2>2. InFlight = {}
      BY <2>1, AllBack
  <2>3. queue = <<>>
      BY <2>1 DEF RunnerInv, Ends, Thread
  <2>4. \A t \in Thread : at[t] # "dead"
      BY <2>1 DEF Thread
  <2>5. tally.remaining = Len(queue) + Cardinality(InFlight) /\ tally.succeeded = Cardinality(Good)
      BY <2>4 DEF RunnerInv, NothingLost
  <2>6. tally.succeeded = tally.total
      BY <2>1, <2>2, <2>3, <2>5, FS_EmptySet DEF RunnerInv, TypeOK, Tally, Sums
  <2>7. Good = {c \in Case : process[c].state = "reaped" /\ ~UnexpectedOutput(c)}
      BY <2>2 DEF Good
  <2> QED
      BY <2>5, <2>6, <2>7
<1> QED
    BY <1>1, RunnerInvariant, PTL

(* When Run() returns each child has been waited for: the thread that      *)
(* started it has ended, and did not end before its child.                 *)
THEOREM RunnerLeavesNoOrphans == Spec => []NoOrphans
<1>1. RunnerInv => NoOrphans
  <2> SUFFICES ASSUME RunnerInv, result \in {"succeeded", "failed"}
               PROVE  InFlight = {} /\ \A c \in Case : process[c].state \in {"none", "reaped"}
      BY DEF NoOrphans
  <2>1. at[Main] = "finished"
      BY DEF RunnerInv, Ends
  <2>2. InFlight = {} /\ \A t \in Thread : at[t] \in {"done", "dead", "finished"}
      BY <2>1, AllBack
  <2> QED
      BY <2>1, <2>2 DEF RunnerInv, Children, Child
<1> QED
    BY <1>1, RunnerInvariant, PTL
=============================================================================
