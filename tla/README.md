# Node.js v0.11 and its Python toolchain: a TLA+ verification project

The repository is a fork of Node.js 0.11.3. Two programs of it are verified here:

- the **Python toolchain** under `tools/`: `test.py`, which runs the test suites;
  `gyp`, which turns build files into ninja, make, Android and Xcode builds; the
  flags library of the Closure linter; `cpplint.py`;
- the **JavaScript runtime's own logic** in `lib/*.js` (the standard library) and
  `src/*.cc`, `src/node.js` (bindings, the event loop's glue).

`deps/` (V8, libuv, OpenSSL, npm, ...) is left aside; `doc/api/*.markdown`,
`test/`, the docstrings and comments say what the code is meant to do. Paths below
are relative to `src/`; `gyp/` stands for `tools/gyp/pylib/gyp/`.

What makes the toolchain hard:

- **order that nobody chose**: `set.pop()`, iteration over dictionaries, results of
  a pool of processes, and builds that run steps in any order their rules allow;
- **threads and processes** that die of an exception, a time limit or Ctrl-C while
  others go on and somebody waits for them;
- **state shared by accident**: defaults of a class, tables that are global to a
  program, caches of paths in objects that move;
- **text read back**: flags written for a later run of the same program, flag files,
  expressions of status files.

What makes the runtime hard: a function calls the program and is called back in the
middle (re-entrancy); ticks, immediates, timers and I/O run what was decided
earlier; exceptions leave a loop over a queue half done; several processes crash,
disconnect and exchange messages that are on their way when the state changes.

## Inventory

The Python toolchain:

| Component | State it keeps | Operations | Interacts with | What is hard | What makes it correct |
|---|---|---|---|---|---|
| The runner (`tools/test.py`) | queue of cases, lock, counters, failed list, terminate flag, threads, children | Run, RunSingle, HasRun, AboutToRun, Execute, KillProcessWithID, Ctrl-C | child processes, status files | exceptions anywhere in a thread, time limits, interrupts | counters add up, success only if all ran, no child or thread left |
| Status files (`tools/test.py`) | tokens, index, rules, sections | Scanner, ParseExpression, Evaluate, ClassifyTests, ProcessOptions | the runner | precedence, prefixes of paths | what was written is what is understood |
| gyp: loading (`gyp/input.py`) | data by file, dependencies, pending, scheduled, error | LoadTargetBuildFile, the parallel version with its pool and callback | `gyp_main`, processes of the pool | results in any order, failure in a process | the same result as loading alone, an end in any case |
| gyp: values (`gyp/input.py`) | dictionaries, lists, variables | MergeLists, MergeDicts, MakePathRelative, filters, three phases of expansion, conditions | every build file | policies, phases, scopes, order of dictionaries | order-independent, nothing left unexpanded, innermost scope wins |
| gyp: command line (`gyp/__init__.py`) | options, environment, remembered flags | gyp_main, RegenerateFlags | make, which calls gyp again | other directory, other environment | the regenerated run equals the first |
| gyp: graph (`gyp/input.py`) | nodes with dependencies, dependents, ref | BuildDependencyList, FlattenToList, DirectAndImportedDependencies, LinkDependencies, AdjustStaticLibraryDependencies, DoDependentSettings | generators | order of `set.pop()`, three walks | dependencies first, cycles found, settings arrive |
| gyp: ninja, make, Android (`gyp/generator/*.py`) | output names, stamps, rules by target | WriteSpec, WriteTarget, `all` | the graph, the build tool | which step waits for which | nothing used before it is made, `all` is all, no two targets write one file |
| gyp: Xcode (`gyp/generator/xcode.py`, `gyp/xcodeproj_file.py`) | object graph, groups with dictionaries of paths, products of other projects, configurations | AddOrGetFileByPath, TakeOverOnlyChild, AppendBuildFile, AddDependency, Finalize1, Finalize2, Write, Copy | projects of several build files | collapsing, sharing, order of projects | trees, every file once under its path, settings of one's own, complete product lists |
| gyp: other generators, MSVS, emulation, tools | see `PROJECT.json` | | | | not modelled |
| gflags (`tools/closure_linter/gflags.py`) | registry by name and short name, lists by module and id, values | DEFINE_*, AppendFlagValues, RemoveFlagValues, parsing, flag files, FlagsIntoString, Reset | programs, flag files | two names, deletion, prefixes, inclusion cycles | shortest unique prefixes, command line wins, values read back |
| cpplint (`tools/cpplint.py`) | global suppressions, error counts, include state, class stack, function state | ProcessFile, ProcessLine, CheckNextIncludeOrder, _ClassState, Error | files in turn | errors behind or ahead of the line, state across files | NOLINT exactly where it stands, include order, nesting |
| The Closure linter (`tools/closure_linter/closure_linter/`) | token list, context stack, indentation stack | passes and fixes | gflags | | not modelled, see the plan |
| js2c, install, genv8constants, utils | none across steps | | | | not modelled |

The JavaScript runtime:

| Component | State it keeps | Operations | Interacts with | What is hard | What makes it correct |
|---|---|---|---|---|---|
| Writable stream (`lib/_stream_writable.js`) | `WritableState` | write, cork, uncork, end; the callbacks of `_write`/`_writev` | the implementation, listeners, nextTick | calls from inside calls, synchronous and late completion, errors | one `_write` at a time, order, every write called back once, 'finish' once and only when flushed |
| Timers (`lib/timers.js`, `src/timer_wrap.cc`) | lists by delay, a libuv timer per list | setTimeout, setInterval, clear*, unref, ref, list timeout | libuv, nextTick | lists replaced while one runs, throws | never lost, early, repeated, out of order, run after clear |
| Immediates (`lib/timers.js`, `lib/_linklist.js`, `src/node.cc`) | circular list, need_immediate_cb, two watchers | setImmediate, clearImmediate, processImmediate | the loop | the flag must follow the list | a FIFO queue, never called after clear, always called |
| Socket timeouts (`lib/timers.js`, `lib/net.js`) | one sorted list, one libuv timer | enroll, unenroll, _unrefActive, unrefTimeout | sockets, clocks | clocks that differ and are set | sorted, every socket awaited, none timed out while active |
| Cluster, round robin (`lib/cluster.js`) | master's workers, handles, free lists; workers' handles | fork, queryServer, distribute, handoff, close, disconnect | IPC channels, clients | crossing messages, crashes | no connection waits while a worker is free, one at a time, accepted once |
| Cluster, shared sockets (`lib/cluster.js`) | SharedHandle: workers, the socket | add, remove, close | as above | close, crash, listen again | the socket lives as long as its users |
| Readable, Transform, Duplex; HTTP; ticks and exceptions; domains; EventEmitter; child_process; net; dgram; zlib; tls; module loader; string_decoder, path, url; fs, dns, readline, repl, buffers, util | see `PROJECT.json` | | | | not modelled |

`PROJECT.json` lists every component with its status and, under `hazards`, the
places where this code is hard to test, with the properties that cover them.

## Modules

| Module | Models | State |
|---|---|---|
| `TestRunner`, `TestRunnerProofs` | `test.py`: ProgressIndicator, RunSingle, RunProcess, child processes; theorems | queue, lock holder, counters, the place of each thread, its child, `terminate`, what Run() and Main() return |
| `TestStatus` | `test.py`: tokenizer, parser, evaluation, rules, ClassifyTests | none: operators over sequences of lexemes |
| `TestMain` | `test.py`: options, the selection of cases; composes the two | the options and files of a run, then TestRunner's |
| `GypPaths` | `os.path.normpath`, RelativePath | none |
| `GypMerge` | `input.py`: merging, paths, configurations, filters | none: operators over values, each a record named for its type |
| `GypEval` | `input.py`: expansion, conditions, variables | none |
| `GypLoad` | `input.py`: loading, serial and by a pool of processes | data, scheduled and pending files, results on their way, `condition` |
| `GypMain` | `__init__.py`: command line, environment, RegenerateFlags; the rule in `make.py` that runs gyp again | the run, its parameters, the first run |
| `GypCheck` | what the four above should do, stated apart from the code | a sample, a loading or a series of runs |
| `GypFlatten` | `input.py`: BuildDependencyList, FlattenToList | in-degrees, the set of ready nodes, the list |
| `GypFlattenProofs` | theorems about `GypFlatten` | |
| `GypTargets` | `input.py`: settings, links, AdjustStaticLibraryDependencies; the steps of a build | none |
| `GypInput` | `input.py`: Load after the files are read; composes `GypFlatten`, `GypTargets` | targets, phase of Load, the list |
| `GypNinja`, `GypMake`, `GypAndroid` | the three generators: steps, what each waits for, names of files | none: from a target to its steps |
| `GypBuild` | composes `GypInput` with one of them | and the steps generated |
| `XcodeProj` | `xcodeproj_file.py`: groups, phases, targets, references to other projects | a heap of objects |
| `XcodeSettings` | `xcodeproj_file.py`: properties, defaults, copies, configuration lists | a second heap |
| `XcodeGen` | `xcode.py`: GenerateOutput and its passes; composes the two | heaps, projects, targets, pass, files on disk |
| `Gflags` | `gflags.py`: registration, prefixes, flag files, parsing | a registry as a record |
| `FlagValues` | a program's life with `gflags.py` | two registries, what was parsed, the last exception |
| `CpplintLines` | `cpplint.py`: comments, guards, names | none: operators over lines as tokens |
| `CpplintStyle` | `cpplint.py`: what CheckStyle, CheckLanguage and the other checks of a line find | none: the findings of a line and its neighbours |
| `Cpplint` | `cpplint.py`: from main() to its exit | files left, line, the global tables, include, function and class state |
| `Writable`, `WritableProofs` | `lib/_stream_writable.js`, theorems | WritableState, the call stack, ticks, an observer's history |
| `Timers`, `TimersProofs` | `lib/timers.js` 22-289 with libuv's timers; theorem | timers, lists, started watchers, what is running, the clock |
| `LinkList`, `ImmediateQueue`, `Immediates`, `ImmediatesProofs` | `lib/_linklist.js` pointer by pointer; the abstract promise; `lib/timers.js` 292-351 implementing it; the proof that it does | pointers, flags, the loop's phase |
| `UnrefTimers`, `UnrefTimersProofs` | `lib/timers.js` 357-459 as `lib/net.js` uses it; theorem | the list, the timer, three clocks |
| `Cluster`, `ClusterProofs` | `lib/cluster.js`, round robin, one port; theorems | master, channels, workers |
| `SharedHandles`, `SharedHandlesProofs` | `lib/cluster.js`, shared sockets, theorem | SharedHandles, channels, workers |
| `MC...` | instances for TLC | |

`Writable`, `Timers`, `Immediates`, `UnrefTimers`, `Cluster` and `SharedHandles` are run as they
are, with the values of the cfg of the same name; the others have an `MC` module that builds their inputs.

Definitions keep the names of the functions they model. A function without effects
of its own is an operator on values. A function that changes an object graph is an
operator from a heap to `[heap, ref, ok]`, `ok` being FALSE for an exception; `Then`,
`With` and `Each` go on only if there was none. In the JavaScript modules it is an
operator from a *machine*, a record of the variables, to the machine its call leaves
behind, and an action applies it to the present state and `Become`s the result; a
function that calls other people's code ends there, and what the source does after
the call is the action that fires when that code returns or throws.

What is abstracted: strings are paths, flags, references or members of small
alphabets; help and messages, compiler flags and the text of generated files are left
out, the names of files and what each step waits for are not; a command's output and a
file's content are lookups. Chunks are lengths, messages records of the fields that
are read. A line of C++ is a sequence of tokens: braces, parentheses, comments, semicolons and
the words that cpplint's checks of structure look at. Of a pattern about spaces, spelling or a
type's name only that the line has it is kept, as a *mark* of the line; what the check then
does with it - under which conditions it reports, and which - is modelled.
In gyp an `--build` configuration is only valid or not, and an invalid one fails before
anything is generated. In the runtime: encodings, domains in timers, `clearTimeout()` of
an interval's object and cluster's informative events are left out.

External, modelled from how the code uses it: Python's `Queue`, locks, threads,
`subprocess` and the operating system's processes; `optparse`; the pool of
`multiprocessing`; the rules of the Android build system; make and ninja, as "any order
the rules allow"; libuv's timers and the phases of the loop, the nextTick queue, clocks,
worker processes, IPC channels (in order; what is unread is lost when an end closes).
A port that is being bound lets ticks and the rest of the channel's chunk run, but no
other I/O event; after an uncaught exception that a handler swallows the tick queue is
taken up by an immediate, so other events may come first (`Timers!ProcessTick`).

## Runs

Bounds are named in the modules; each cfg gives them values. Deadlock is checked in
`writable`, where the loop can always start a new event; elsewhere the system may stop:
a program ends, the clock or the supply of objects is used up.

**test_py** (`MCTestMain`) - three cases, one of them negative (it passes by failing), the main
thread and one worker, a child that passes, fails, crashes or exceeds its time limit, and in one
case ignores the SIGTERM it is then sent; an OSError, IOError, exception in the
progress indicator or KeyboardInterrupt wherever the code can meet one; and status files
with some 5000 expressions of two levels, six malformed ones, modes, architectures and
simulators. Two threads and three cases are enough for a thread to take a case while the
other holds the lock, dies, or is told to stop with a case left. `Accounted`: the shared
counters add up whenever nobody holds the lock, and no case is run twice or lost.
`SuccessIsReal`: Run() reports success only if every case passed - or a worker died, see
below. `NoOrphans`: no child is left when Run() returns, and no thread has a case in hand; nothing is
said of a run that an exception or Ctrl-C ends, nor of temporary files, which are not modelled.
`ParsedAsWritten`: the parser gives back the expression whose text was written with the
grammar's precedence. `AllThreadsEnd`: every thread ends unless one died with the lock in its
hands or waits for a child that ignores SIGTERM.

**gyp_load** (`MCGypLoad`) - seven build files in two directories, with an include, a
condition, a cycle and a file that does not exist, command lines some of which name two files
that reach a third, or of which one reaches the other, and a pool of two processes, so that
results arrive in both orders and one file is reached from two sides; some 9000 samples of merges (lists of up to two items with two policies each), paths,
filters (two of them over an exclusion), expansions and scopes three deep; and command lines
in two directories with three environments, regenerated up to `MaxRuns` = 3 times, so that
flags written by a regenerated run are used too. `ParallelIsSerial`: the pool gives what
loading one file after the other gives, and fails only if that does or two files of the command
line overlap. `OrderIrrelevant`: the order of Python's dictionaries does not matter, but for
prepended lists that hold an item twice and for configurations that inherit from one that is
not abstract. `ItemsKept`, `NothingLeft` and `ScopesNest`: paths and filters, references and
conditions by phase, scopes. `RegenerateSame`: make gets what the first run got, on the
conditions its comment lists. `LoadingEnds`: the main process never waits for results that do
not come.

**gyp_build** (`MCGypBuild`) - every graph of three plain targets, cycles and wildcards
included; every acyclic graph of three targets of several kinds (hard dependencies, exports,
rules, actions, copies, bundles with and without sources, libraries of both sorts); pairs of
targets that compete for names, or compile one source from two directories. Three targets make the shortest chains on which a walk can stop too early, and the
smallest diamonds. The generators then write the steps of a ninja, make or Android build.
`DependenciesFirst`, `CycleDetected`, `SettingsArrive`, `LinkedWithAll` (every static or shared
library that is to be linked); `Runs` (no step waits for itself or for something nobody makes),
`GeneratedFirst` (headers are generated before anything includes them), `ToolsBuilt` (an action's
tool is linked), `AllBuilt` (`all` is everything, but for Android's suppressed targets that no
unsuppressed one waits for), `OutputsDistinct` (no file has two writers, but for the products
that the comment names and a source that two targets of one name compile). Targets that are
`Hollow`, programs and bundles that compile nothing but may have actions, are in the run;
GeneratedFirst, ToolsBuilt and AllBuilt say what ninja and make on a Mac do not do for these
(see below). They are about the order that the build's rules force, so they hold for
every schedule a build tool may choose.

**xcode** (`MCXcode`) - two build files with two targets each: a library, a tool or actions,
an application, and a target for everything, in every order in which the passes may take the
projects. File lists are chosen so that directories lie inside, above and beside each other
and groups collapse in one and several steps; there are headers, folders, libraries and sources
that actions and rules make or read, a library that is linked and made, a folder that is given
again, and projects that are written to another directory. `FilesKept`: each file entered is
there once under its path, and twice exactly if it is a library both linked and entered
otherwise. `WellOwned`: a tree with owners, but for the script phases of actions and rules, and
references that lead to the other project from where this one is. `RemoteProducts`,
`NeverRaises` (but for a folder that is given again), `SettingsOwn`, and the action property
`IDsStable`.

**gflags** (`MCFlagValues`) - programs of up to three flags out of seven whose names are
prefixes and negations of each other; up to `MaxSteps` = 5 operations of parsing, defining,
overriding, deleting, moving between two registries, resetting, with two flag files that
include each other, themselves and a missing one, one with a plain word and one with an option
that lacks its value; defaults may be illegal. `PrefixesUnique`, `CommandLineWins` (unless the
flag files hold a line that stops getopt or takes the next argument), `RoundTrip` (unless a
MultiFlag has several values or none, or a name is ambiguous), `ListsRegistered`. Five steps are enough to define, move, delete, parse and reset
the same flag.

**cpplint** (`MCCpplint`) - every sequence of up to four include lines and of up to five
lines of classes, up to four with those that close two classes or open one and go on behind a
semicolon (`RareLines`), every three lines with braces, `else` and blanks, a file for each pattern
that a check looks for, and quadruples of files with comments, NOLINT and guards under several
filters, one of which is the prefix of three categories. `SuppressedExactly`: what is printed is
what NOLINT, filters and verbosity leave, but for the comment without an end. `IncludesInOrder`:
an include is reported exactly if it is a header of C or C++ behind one of a higher rank of the
five that the code documents; the file's own header never is. `ClassesTracked`: the stack is the
nesting of classes as long as all lines were `Regular`. Two sorts of file are left
out because cpplint does not get through them: one whose first code line is an indented
`{...};` (CheckBraces goes on looking for a previous line for ever) and one that opens a
parenthesis behind `} else if` and never closes it (an IndexError).

**writable** - no `_writev`, 3 accepted writes, 1 rejected, cork depth 1, chunks of length 1
against a high water mark of 2, a write(null) (`WriteNull`), errors, calls from events, write callbacks and
'drain'/'error' listeners. Three writes are enough for one in flight and two in the buffer, so
that clearBuffer() stops in the middle. `WritesHandled` joins `TypeOK`, `OneWriteInFlight`,
`EveryWriteCalledBack`, `InOrder`, `NoCallbackInsideWrite`, `FinishEmitted`,
`EndCallbackNotLost` and the action property `FinishMeansFlushed`.

**timers** - three timers, timeouts and intervals, delays 1 and 2, clock up to 3, one of them
unref'd and ref'd at will, callbacks that set, clear and unref, and one timer whose callback may
throw. Two delays and three
timers give lists that are emptied, closed and made again while another list runs.
`TimersKept`: none is lost unless the callback of its last run threw, none is early, repeated or run after it was cleared, the watcher of a list
fires in time, and no timeout is called before an earlier one of its delay that is in the list
of the table. That of another list may be overtaken (see below), which takes five timers and a
clock up to 7.

**immediates** - five immediates. `ImmediatesKept`: pointers well formed and watchers started
exactly while the queue is not empty; the refinement of `ImmediateQueue` with the queue read
off the pointers; what is set is called unless it is cleared.

**unref_timers** - three interchangeable sockets, timeouts 1 and 2, clock up to 4, listeners
that take time and throw, and Date.now() set once by one millisecond in either direction.
`TimeoutsKept`: sorted and awaited whatever the clock does; in time and not while active
while nobody sets it.

**cluster** - two workers, two connections, two RoundRobinHandles; both workers may close,
disconnect, be killed and crash at any moment, binding may fail. `ConnectionsKept`: no
connection waits while a worker is free, a worker has one at a time, each is accepted once,
disconnect()'s callback is not forgotten once a worker was connected (with none it is, see
below). `Relisten` is FALSE: a worker that listens again
before it has answered is put on the free list twice (see below), and the first two of these
do not hold then; the last two always do, which is a theorem.

**shared** - three workers, two sockets, opening may fail, workers listen again, leave, have
their channel end, or are destroyed by the master while connected: `SocketPerUser`. The last
sort may go on listening on a socket that the master has closed, so its third conjunct is about
connected workers.

**Fairness.** test_py: a runnable thread goes on, a killed child exits (the operating
system's scheduling) unless it is one of those that ignore SIGTERM (`Deaf`), of which nothing is
assumed, and a child that runs on exceeds its time limit; nothing is assumed of how long a child
runs or of Ctrl-C. gyp_load: loading goes on (`Load`); a process of the pool
that was given a file returns or reports an error. immediates: the phases of the event loop
go on, which the idle watcher guarantees while something is queued, and callbacks return.

Every property has a mutant in `PROJECT.json`: a variant of a modelled function, as a
plausible mistake would leave it, under which TLC finds the property violated. The variants
stand before the originals in the modules.

## Proofs

**GypFlattenProofs**, for every finite set of targets (`TargetsFinite`), every graph on it and
every order of `set.pop()`:

- `FlattenedInOrder`: `FlattenSpec => []DependenciesFirst` - each target once, behind all it
  depends on;
- `CyclesReported`: `FlattenSpec => []CycleDetected` - CircularException exactly for graphs with
  a cycle.

The inductive invariant is `FlattenInv`: the types; `ZerosReady` (the ready nodes are exactly
the targets that are not in the list and all of whose dependencies are); `ListClosed` (the
list is closed under dependencies and contains no member of a cycle); `DependenciesFirst`;
`EndKnown` (once it is known how the walk ended no node is ready, and all targets are listed
if and only if it ended well). DependenciesFirst alone is not inductive because it does not
say why a popped node may be appended; ZerosReady does.

**WritableProofs**, for every number of writes, size, high water mark, implementation and set
of places from which the program calls the stream (`WritableAssumption` states their types):

- `TypeCorrect`: `Spec => []TypeOK`;
- `NoOverlap`: `Spec => []OneWriteInFlight`;
- `FinishFlushed`: `Spec => FinishMeansFlushed` for streams without `_writev` whose
  'prefinish' listeners do not call the stream;
- `EndCallbackKept`: `Spec => []EndCallbackNotLost`;
- `ChunksInOrder` and `ResultBeforeOutcome`: `Spec => []InOrder` and
  `Spec => []NoCallbackInsideWrite` for streams that are called from events, write callbacks
  and 'drain' and 'error' listeners, as in the run. Listeners of 'finish' and 'prefinish' and
  `_write()` itself are excluded because the code then does not keep the order (see below);
- `CallbacksOnce`: no callback of a write() is called twice, for any stream without `_writev`;
- `AllCalledBack` and `EndFinishes`: `Spec => []EveryWriteCalledBack` and
  `Spec => []FinishEmitted` for the streams of ChunksInOrder without `_writev` and without
  chunks of length 0;
- `AllHandled`: `Spec => WritesHandled` for the same streams, which contain the one of the run.

There is one lemma per library function, saying that it takes a good machine to a good
machine. `WritableInv` adds to the types that the number of unfinished `_write()` calls is 1
exactly while `writing` is set, which makes NoOverlap inductive. For FinishFlushed it adds that
`pendingcb` is the number of accepted writes minus the callbacks made, that 'finish' was
emitted exactly if `finished` is set, and that a 'prefinish' frame is innermost and what
finishMaybe() saw before it still holds. The two restrictions are needed: with `_writev`
clearBuffer() counts the group in flight once more in pendingcb, and a 'prefinish' listener
that writes invalidates what finishMaybe() saw.

The other three rest on a second pass over the functions. `Quietly` says of a function that it
keeps the queue of chunks and calls at most one listener or callback; `Kept` that an error is
not forgotten and that a waiting end() callback has a 'finish' or a tick to wait for
(`EndDue`). EndCallbackNotLost speaks of an idle stream only; EndDue is what makes it
inductive. The order of chunks is the invariant `Ordered`: what was sent is 1, 2, ... and the
buffer behind the `d` chunks that clearBuffer() has sent continues it up to the last accepted
one (`Rest`). Outside of `_write()` (`Out`) `d` is 0 and a chunk waits only for a write in
flight, a cork or the end; inside (`In`), the innermost frame tells `d` and `sync` is set, so
that a callback there becomes a tick. `OpenEnd` says that between `ending` and `ended` only
endWritable() and its listeners run, which is why no chunk is accepted behind an end.
ChunksInOrder needs the whole of it, ResultBeforeOutcome that `_write()` is innermost.

CallbacksOnce needs an account of where each callback is: `Book` has a page for the buffer
behind the chunks that clearBuffer() has sent, the write in flight, the ticks, the frames that
will call one, those that were called and the one a function of the library has in hand.
`Books` says that each accepted write is on one page (`Partition`), nothing on a page twice,
that `length` is what is in flight and in the buffer (`Ledger`, with the partial sums as a
function, so that no recursion is needed), and that the innermost turn of clearBuffer()'s loop
tells how much of the buffer was sent (`AllLawful`). It holds with errors too and wherever the
stream is called from. `_writev` is excluded because its callback stands for a whole group,
and drops what `_writev()` writes itself.

AllCalledBack and EndFinishes say that a stream with nothing to run has nothing to do. They
are not inductive: a stream may well have something to do while code is running. `Alive` says
what will do it: chunks in the buffer are waited for by a write in flight, a cork or the loop
that is sending them (`Busy`), and when all that finishMaybe() asks for is there, a frame or a
tick that will come to it (`Hope`). Ordered, Balanced and Alive of an idle stream leave every
callback on the page of those that were called. Chunks of length 0 are excluded because
onwrite() takes one behind the last of an ending stream for nothing and leaves it in the
buffer (see below); where length 0 means an empty buffer the proof cites `LengthZero`.

**SharedHandlesProofs**: `SharedSockets`, `Spec => []SocketPerUser` for any number of workers and
sockets. `SharedInv` adds the answers on their way: whoever listens, or was told that it may,
is in the SharedHandle; a worker that is gone has neither servers nor unread answers.

**TestRunnerProofs**, for any finite sets of cases and worker threads and whatever a child
process does (`RunnerAssumption`), `Spec => []...` of:

- `RunnerAccounts`: `Accounted`; `RunnerSucceeds`: `SuccessIsReal`; `RunnerLeavesNoOrphans`:
  `NoOrphans`.

`RunnerInv` says where a case can be: `Apart` (queued once or in the hands of one thread),
`Locked` (between two counters a thread holds the lock, and what it has read is still true),
`Sums` (the counters add up, and at least as many cases remain as are queued or in hand),
`Children` (the state of a child process is the one its thread's place says), `NotStarted`,
`Ends` (a thread returns only for want of cases or because it was told to stop), and
`NothingLost`: unless a thread died, the succeeded are exactly the good ones. The last needs
the cardinalities of sets of threads and cases, hence their finiteness. The theorems are about
`TestRunner!Spec`. The run checks the same definitions for the composition `TestMain`, which
reads status files with recursive operators and can have no theorems of its own.

**UnrefTimersProofs**: `SocketTimeoutsKept`, `Spec => TimeoutsKept` for any sockets, timeouts
and skews, with an action property among its conjuncts. `UnrefInv` adds to the order of the
list that just the sockets with a timeout to come are listed (`Listed`), that the timer was
started for the first of them or for an earlier one (`Awaited`), and, until somebody sets the
clock, that items bear the time of their last activity and unrefTimeout() goes by a time the
clock has reached (`Stamped`, `Clocks`). There is one lemma for each function of the source;
insertion into the sorted list goes by the least place behind which it belongs.

**TimersProofs**: `TimersPromise`, `Spec => TimersKept` for any numbers of timers and lists, any
delays, and callbacks that set, clear, unref and throw (`TimersAssumption` states the types of
the constants); three conjuncts are action properties. The inductive invariant is `TimersInv`
(`TimersInvariant`). It is stated of machines, because the functions of the source call each
other and are operators on machines: `State` says what is always true, also between two calls
of one action, and there is one lemma for each function that takes a machine with it to
another. Its parts:

- `ListSound`: a list has its delay, its timers start in the order of their places (`Ordered`),
  and each was set for that delay (`Held`); without it nothing follows from the first timer of
  a list about the others, which is what listOnTimeout() stops and restarts by;
- `Exclusive`: a timer is in one list; `Collected`: timeouts that were set later than one in the
  table's list are in that list or in none, which is why they cannot overtake it and why
  `InSetOrder` has to speak of the table's list;
- `HeapSound`: a watcher that is started is that of an open list, or of a timer that was
  unref'd and for which the rest of its time was kept;
- `Flagged`: what `_onTimeout`, `_repeat`, `_handle` and clearing say of each other, `Apart`: a
  timer with a watcher of its own is in no list; these are why unref() neither loses a timer nor
  runs it twice;
- `Awake` and `AllKept`: every open list has a watcher that fires in time, and every timer is
  still to fire, except for the list and the timer that run now (`RunningSound`) and lists that
  wait for a tick after a throw. Without the exceptions they are not invariant, since
  listOnTimeout() takes a timer out before it calls it.

The loop of listOnTimeout() up to its next callback is one operator, `RunList`; `RunKeeps` covers
its three ends: the list is empty, waits for its first timer, or calls one.

**ClusterProofs**, for any workers, connections and number of handles, whoever closes, leaves,
is killed or crashes:

- `ServedOnce`: `Spec => [](AcceptedOnce /\ NotForgotten)`;
- `KeptInTurn`: `ConnectionsKept`, if no program listens again (`~Relisten`).

`MasterInv`: the master has each connection in one place (`Placed`), remembers each question
until it has read the answer (`Answers`), what a worker serves will not be given to another
(`Served`), and the handle in the table is that of connected workers (`Linked`).
`TurnsInv` adds that a connected worker has one connection to answer for, or is free in one
handle and once, or waits for its handle to be bound (`InTurn`), and that a handle with
connections has no free worker (`Idle`). It holds as long as a worker whose query is still to
come is unknown to every handle (`New => Unknown`), which listening again breaks.

**ImmediatesProofs**, for any finite set of immediates:

- `ImmediatesAreAQueue`: `Spec => ImplementsQueue`, the refinement of `ImmediateQueue` by the
  pointers, the flag and the watchers of the code;
- `QueueStaysWatched`: `Spec => []QueueWatched`.

The run's `ImmediatesKept` joins these two with a liveness property, so no theorem states it.
`Linked(h, q)` says that the pointers of the heap h form the circle of the sequence q with the
head; the lemmas show that append(), remove() and shift() take a circle to the circle of the
sequence with an item more or less, and that walking the pointers, as `Items` does, gives q.
`ImmediatesInv` adds that queued immediates still have their callbacks, and that the flag, the
watchers and the queue agree. The walk's length is not bounded, so this is induction over the
natural numbers, for which see below.

What stays with TLC, and why. Liveness under fairness is out of this prover's reach:
`AllThreadsEnd`, `LoadingEnds`, `SetLeadsToCall`. So is everything in a module that reaches a
recursive operator, since the provers lose their arithmetic there: the properties of gyp other
than the order of targets, of the status files, of the Xcode generator, of gflags and of
cpplint. Induction over data is possible only in the form of a set: the library's induction
theorems take an operator as a parameter, which no installed prover can instantiate, but its
theorem about least elements of well-founded relations does not, and `LeastNatural` and
`Induction` in `ImmediatesProofs` follow from it. That serves recursive functions of a number;
the operators on nested values (`GypMerge`, `GypEval`, `TestStatus`, `XcodeProj`) are checked
on their samples. Of `Writable`, streams with `_writev` or whose 'prefinish' listeners call
them are covered by TypeCorrect, NoOverlap, EndCallbackKept and, the former, by ChunksInOrder.

Each of the invariants was checked by TLC on the run of its component before it was proved.

## Other disagreements

Places where the code does not do what a document, comment or name in it says, met while
modelling. None has a run of its own; the models contain the code's behaviour, and where a
property is weakened for one of them its comment says so.

`test.py`: a worker that meets an exception other than IOError dies silently, its case is
counted nowhere, and Run() may report success (121); Ctrl-C reaches only the main thread and
does not set `terminate`, so workers go on behind it (1466); a child that ignores or blocks
SIGTERM (480) keeps wait() (531) and with it Run() for ever, whatever its time limit; the files
of a child's output stay if an exception or Ctrl-C comes before they are removed (555-570);
`ReadConfigurationInto` returning
False is ignored.

gyp, input: the pool fails on two build files of the command line that reach a file in common,
or one the other, where serial loading does not (`ParallelIsSerial` excepts these: the second
gets nothing for the file from the pool); how far in the items of a prepended list come depends
on its repetitions and on the list that is there (1920; `OrderIrrelevant`); a configuration that
inherits from one that is not abstract gets what that one was or what it has become, by the
order of a dictionary (2040, 2107; `OrderIrrelevant`); the cache of command results ignores the directory (830).

gyp, generators: on a Mac a bundle that compiles nothing does not wait for the target's actions
in make, nor does who depends on it (`make.py` 1369, against the comment at 1476), and with ninja
the link of a program or shared library that compiles nothing does not (`ninja.py` 858, 959-987),
so that these actions may never run; targets of one name in two directories that both compile
../common.c write one object (`ninja.py` 327-331, `make.py` 1826-1832); `all`
of Android with limit_to_target_all looks up targets that were left out (805), and duplicate
module names only print ERROR (1072); executables of the host and target toolset with the same
name share a file (`ninja.py` 1167, `make.py` 1328), and so do objects of such targets in make
(1826); FinalOutput's docstring (`ninja.py` 175) promises less than callers need; with several
configurations the ninja pool is called inside the loop that fills its work list (1802).

gyp, Xcode: a directory given as "dir/" twice is a ValueError, against the comment at
`xcodeproj_file.py` 1214 (`NeverRaises`); the script phases of actions and rules that are
inserted before others never get their parent (`xcode.py` 790, 1071; `WellOwned`); a library that
an action makes and the target links is in the project twice (`xcode.py` 1151-1158;
`FilesKept`); "Run X Tests" targets get Debug and Release, not the target's configurations
(`xcode.py` 130, 380); identifiers are not what the docstring says when a group with the
directory's own name takes over (`IDsStable`).

gyp, command line: RegenerateFlags promises an equivalent options object but does not keep
`--parallel`, `--no-circular-check` and `--msvs-version`, nor paths when the Makefile is not in
toplevel_dir or generator_output is given (`RegenerateSame` states what is kept).

gyp, regenerating: without build files on the command line a run from another directory takes
those it finds there (`RegenerateSame` excepts it).

`gflags.py`: a flag file with a plain word, "--" or an option that lacks its value at its end
takes precedence over the command line, whose flags are then not set, against "_should_ always
take precedence" (1434, 1458; `CommandLineWins`); an illegal default stays when SetDefault raises
(1684-1685); a MultiFlag with several values is written as one line that cannot be read back
(2404-2420 against 1492; `RoundTrip`); of several settings of a flag the last wins, not "the first one we hit"; the
arguments behind `--` are rewritten in GNU style; RemoveFlagValues deletes flags of the same
name that are not the other registry's (847); AppendFlagValues stops half done (832); values
set before a parse error stay (1110); FlagsIntoString lists a flag twice and cannot restore a
MultiFlag; the docstrings of duplicate flags (1583) and Reset (1135) differ from the code.

`cpplint.py`: an include out of order is returned as a message, not raised as
"an _IncludeError"; CloseExpression's docstring (977) names another position than is returned;
an unterminated comment is reported before its NOLINT is read and one line off (898); the file's
own header behind an other one is never reported, though it ranks lower and the code "complains
if we see a lower type after that" (2297-2307; `IncludesInOrder`); "} };" ends the inner class
only and the outer one never ends, and "class A { int x;" is taken for a whole class (1399, 1435;
`ClassesTracked`); a filter is a prefix of characters, so that -build/include takes out
build/include_order and build/include_what_you_use too (777-783).

Runtime: a write() made by `_writev()` itself is dropped, because clearBuffer() empties the
buffer after the call; uncork() does nothing on a finished stream, so that chunks which a
'finish' listener of end() writes under a cork are sent behind later ones; an empty chunk
behind the last one keeps a Writable from finishing; a second writer's write() clears the
`needDrain` an earlier one relies on; listOnTimeout() ends with `delete lists[msecs]` even if a
newer list is there, whose watcher is then never stopped and whose timeouts may be overtaken by
later ones of the same delay; unref() of a timeout that has fired runs it again; a clock set
forward times out an active socket; a connection sent to a worker that leaves before it answers is given to nobody;
`RoundRobinHandle.remove()` on a port still being bound is a TypeError in the master; a worker
that listens again before it answered is free twice; the disconnect of a worker that does not
use every shared socket fails the assertion of SharedHandle.remove(), and one that closes and
listens again that of add(); cluster.disconnect()'s callback runs when the first disconnect
leaves the master without handles, and without workers never (`cluster.js` 277-283, against
`doc/api/cluster.markdown` 276: "called when all workers are disconnected and handlers are
closed"); the master's destroy() or kill() takes a connected worker out of its
shared sockets, which may be closed while it listens (301-310); write(null) to a stream of bytes
is counted in `pendingcb` before `chunk.length` throws (`_stream_writable.js` 139-177, 216), so
that its callback never comes and 'finish' is not emitted any more.

## Not modelled

The Visual Studio generator, its project writers and MSVSSettings (XML and tables for an
installed Visual Studio); the scons, eclipse, gypd and gypsh generators (printers of what
`GypInput` computes); xcode_emulation, msvs_emulation and the mac, win and sun tools (string
tables and wrappers of one command); js2c, install and the other one-pass scripts; the Closure
linter itself. Of the modelled components: compiler flags, the text of generated makefiles and
project files, progress indicators' layout, help. Several configurations of one build are not
generated together, and a command has one output whichever file runs it. One of the two hazards
without a property is of this kind; the other is that of values which stay when gflags fails half
way. In the runtime everything that the inventory's last row
names.

## Plan

Done: the toolchain's modules above, the composition from build files' targets to build steps,
and of the runtime `Writable`, the timers, immediates and cluster.

Next, in this order:

1. The Closure linter: the context stack of ecmametadatapass and the token stack of
   indentation against the grammar they follow, then error_fixer's edits of the token list.
2. `HttpAgent`: pool, queue, sockets, requests, ticks; at most maxSockets, no request stalls,
   one request per socket.
3. `Readable` with `pipe()` and an abstract sink that `Writable` refines; then `Transform`.
4. `NextTick` with domains, which justifies what the other modules assume of ticks;
   `IpcQueue`, which justifies the channel of `Cluster`.

Theorems worth proving next: that `Timers`, whose lists are sequences, is implemented by the
same with the pointers of `LinkList`, as `Immediates` is; the account of callbacks of
`Writable` for `_writev`, whose page would hold groups; then `PrefixesUnique` and
`ListsRegistered` of gflags, for which the registry would have to be split from the recursive
reading of flag files.

## Running

In this directory: `tlc -config MCGypBuild.cfg MCGypBuild`, `tlc -config Cluster.cfg Cluster`
and likewise for the other cfgs; `tlapm ClusterProofs.tla` and likewise for the other modules
of proofs. Each run takes from seconds to a few minutes. WritableProofs, ClusterProofs
and TimersProofs, whose obligations are the most, take about ten minutes each.
