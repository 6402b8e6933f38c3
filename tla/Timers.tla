------------------------------- MODULE Timers -------------------------------
(***************************************************************************)
(* lib/timers.js: setTimeout, setInterval and what stops them.             *)
(*                                                                         *)
(* Timers with the same delay share one list and one libuv timer, the      *)
(* list's watcher.  The list is found through the table lists, keyed by    *)
(* the delay; it is closed and taken out of the table when it runs empty,  *)
(* and a new one is made on demand.  A list object can thus outlive its    *)
(* place in the table: while listOnTimeout() runs a callback, and while a  *)
(* tick waits to run the list again after a callback threw.  An unref'd    *)
(* timer leaves its list for a watcher of its own.                         *)
(*                                                                         *)
(* Functions of the source are operators from a machine m (the variables   *)
(* but the clock) to the machine that the call leaves behind.              *)
(***************************************************************************)
EXTENDS Integers, Sequences, FiniteSets, SequencesExt

CONSTANTS
  Objects,    \* bound: how many Timeout objects are made, 1..n
  ListIds,    \* bound: list objects that exist at the same time
  Delays,     \* the delays in use, in milliseconds
  MaxTime,    \* bound: the loop's clock
  Kinds,      \* which of "timeout" and "interval" the program uses
  MayUnref,   \* the Timeout objects whose unref() and ref() are called
  MayThrow    \* those whose callback may throw, and the process goes on

NoList == 0
NoTimer == 0

ASSUME TimersAssumption ==
  /\ Objects \subseteq Nat \ {0} /\ ListIds \subseteq Nat \ {0}
  /\ IsFiniteSet(Objects) /\ IsFiniteSet(ListIds)
  /\ Delays \subseteq Nat \ {0} /\ MaxTime \in Nat
  /\ Kinds \subseteq {"timeout", "interval"}
  /\ MayUnref \subseteq Objects /\ MayThrow \subseteq Objects

VARIABLES
  now,      \* Timer.now(): the loop's clock, which stands still in a callback
  timer,    \* the Timeout objects
  lists,    \* the table: delay -> list
  list,     \* the list objects, items in order of insertion
  heap,     \* started libuv timers, in order of uv_timer_start
  running,  \* the callback that runs now
  ticks     \* nextTick queue: lists to run again

vars == <<now, timer, lists, list, heap, running, ticks>>

Here == [timer |-> timer, lists |-> lists, list |-> list, heap |-> heap,
         running |-> running, ticks |-> ticks]
Become(m) == /\ timer' = m.timer /\ lists' = m.lists /\ list' = m.list
             /\ heap' = m.heap /\ running' = m.running /\ ticks' = m.ticks

(* A watcher is the libuv timer of a list or an unref'd timer's own. *)
OfList(l) == [of |-> "list", id |-> l]
OfTimer(t) == [of |-> "timer", id |-> t]
NotRunning == [by |-> "none", list |-> NoList, timer |-> NoTimer, now |-> 0]
-----------------------------------------------------------------------------
(* libuv timers: one-shot, and close() stops.                              *)
StopWatcher(m, w) == [m EXCEPT !.heap = RemoveFirstMatch(@, LAMBDA e : e.w = w)]
StartWatcher(m, w, after) ==
  [StopWatcher(m, w) EXCEPT !.heap = Append(@, [w |-> w, due |-> now + after])]

(* The watcher that uv__run_timers() takes: the earliest, and of those the *)
(* one that was started first.                                             *)
Expired(i) ==
  /\ heap[i].due <= now
  /\ \A j \in DOMAIN heap : \/ heap[i].due < heap[j].due
                            \/ heap[i].due = heap[j].due /\ i <= j
-----------------------------------------------------------------------------
(* Lists.                                                                  *)
RemoveItem(m, t) == \* L.remove()
  [m EXCEPT !.list = [l \in ListIds |->
     [m.list[l] EXCEPT !.items = RemoveFirst(@, t)]]]

Free(m) == {l \in ListIds : /\ ~m.list[l].open /\ m.list[l].items = <<>>
                            /\ l # m.running.list
                            /\ l \notin {m.ticks[i] : i \in DOMAIN m.ticks}}

NewList(m, msecs) ==
  LET l == CHOOSE l \in Free(m) : TRUE
  IN  StartWatcher([m EXCEPT !.lists[msecs] = l,
                             !.list[l] = [open |-> TRUE, msecs |-> msecs,
                                          items |-> <<>>]],
                   OfList(l), msecs)

CloseList(m, l, msecs) ==
  [StopWatcher(m, OfList(l)) EXCEPT !.list[l].open = FALSE,
                                    !.lists[msecs] = NoList]

AtFront(items, t) == <<t>> \o items \* mutant
AtEnd(items, t) == Append(items, t)

(* active() with insert(): the item goes to the end of its delay's list. *)
Insert(m, t, msecs) ==
  LET m1 == IF m.lists[msecs] = NoList THEN NewList(m, msecs) ELSE m
      m2 == RemoveItem(m1, t)
  IN  [m2 EXCEPT !.list[m1.lists[msecs]].items = AtEnd(@, t),
                 !.timer[t].start = now]
Active(m, t) ==
  IF m.timer[t].idle < 0 THEN m ELSE Insert(m, t, m.timer[t].idle)

Unenroll(m, t) ==
  LET m1 == RemoveItem(m, t)
      ms == m.timer[t].idle
      m2 == IF ms < 0 \/ m1.lists[ms] = NoList THEN m1
            ELSE IF m1.list[m1.lists[ms]].items # <<>> THEN m1
            ELSE CloseList(m1, m1.lists[ms], ms)
  IN  [m2 EXCEPT !.timer[t].idle = -1]
-----------------------------------------------------------------------------
(* listOnTimeout() up to the next callback it calls.                       *)
DueAt(m, t, msecs, at) == at - m.timer[t].start >= msecs
Callable(m, t) == m.timer[t].cb
RestartAfter(msecs, diff) == msecs - diff
(* A callback starts; threw says how its last run ended. *)
Fired(o) == [o EXCEPT !.fired = @ + 1, !.threw = FALSE]
Behind(items, i) == SubSeq(items, i + 1, Len(items))

(* The end of listOnTimeout(): the table's entry goes, whatever it is. *)
ListEmpty(m, l) == CloseList(m, l, m.list[l].msecs)

RunList(m, l, at) ==
  LET items == m.list[l].items
      ms    == m.list[l].msecs
      stops == {i \in DOMAIN items : \/ ~DueAt(m, items[i], ms, at)
                                     \/ Callable(m, items[i])}
      i     == CHOOSE i \in stops : \A j \in stops : i <= j
      t     == items[i]
      idle  == [m EXCEPT !.running = NotRunning]
  IN  IF stops = {}
      THEN ListEmpty([idle EXCEPT !.list[l].items = <<>>], l)
      ELSE IF ~DueAt(m, t, ms, at)
      THEN StartWatcher([idle EXCEPT !.list[l].items = SubSeq(items, i, Len(items))],
                        OfList(l), RestartAfter(ms, at - m.timer[t].start))
      ELSE [m EXCEPT !.list[l].items = Behind(items, i),
                     !.running = [by |-> "list", list |-> l, timer |-> t,
                                  now |-> at],
                     !.timer[t] = Fired(@)]

(* What setInterval's wrapper does after the callback.  Called by a list   *)
(* it runs as a method of the timer, called by the timer's own watcher as  *)
(* a method of that watcher, which has no _handle.                         *)
Rearm(m, t, by) ==
  IF m.timer[t].kind # "interval" \/ ~m.timer[t].repeat THEN m
  ELSE IF by = "list" /\ m.timer[t].handle # "none"
  THEN StartWatcher([m EXCEPT !.timer[t].since = now], OfTimer(t),
                    m.timer[t].after)
  ELSE Active([m EXCEPT !.timer[t].idle = m.timer[t].after,
                        !.timer[t].since = now], t)
-----------------------------------------------------------------------------
(* The public functions.                                                   *)
NewTimer(m, t, kind, after) ==
  Active([m EXCEPT !.timer[t] =
            [kind |-> kind, after |-> after, idle |-> after, start |-> 0,
             cb |-> TRUE, repeat |-> kind = "interval", handle |-> "none",
             hcb |-> FALSE, ref |-> TRUE,
             since |-> now, fired |-> 0, threw |-> FALSE, cleared |-> FALSE]], t)

(* clearTimeout() and Timeout.prototype.close(). *)
CloseTimer(m, t) ==
  LET m1 == [m EXCEPT !.timer[t].cb = FALSE]
  IN  IF m.timer[t].handle = "none" THEN Unenroll(m1, t)
      ELSE StopWatcher([m1 EXCEPT !.timer[t].hcb = FALSE,
                                  !.timer[t].handle = "closed"], OfTimer(t))
ClearTimeout(m, t) == IF m.timer[t].cb THEN CloseTimer(m, t) ELSE m
ClearInterval(m, t) ==
  IF m.timer[t].repeat
  THEN ClearTimeout([m EXCEPT !.timer[t].repeat = FALSE], t) ELSE m
Clear(m, t) ==
  LET m1 == [m EXCEPT !.timer[t].cleared = TRUE]
  IN  IF m.timer[t].kind = "interval" THEN ClearInterval(m1, t)
      ELSE ClearTimeout(m1, t)

DelayLeft(m, t) ==
  LET left == m.timer[t].start + m.timer[t].idle - now
  IN  IF left < 0 THEN 0 ELSE left

Unref(m, t) ==
  IF m.timer[t].handle # "none"
  THEN [m EXCEPT !.timer[t].ref = FALSE]
  ELSE StartWatcher([Unenroll(m, t) EXCEPT
                       !.timer[t].handle = "open", !.timer[t].ref = FALSE,
                       !.timer[t].hcb = m.timer[t].cb],
                    OfTimer(t), DelayLeft(m, t))
Ref(m, t) == IF m.timer[t].handle = "none" THEN m
             ELSE [m EXCEPT !.timer[t].ref = TRUE]
-----------------------------------------------------------------------------
Unused == [kind |-> "none", after |-> 0, idle |-> -1, start |-> 0,
           cb |-> FALSE, repeat |-> FALSE, handle |-> "none", hcb |-> FALSE,
           ref |-> TRUE, since |-> 0, fired |-> 0, threw |-> FALSE, cleared |-> FALSE]
Init == /\ now = 1
        /\ timer = [t \in Objects |-> Unused]
        /\ lists = [ms \in Delays |-> NoList]
        /\ list = [l \in ListIds |-> [open |-> FALSE, msecs |-> 0, items |-> <<>>]]
        /\ heap = <<>> /\ running = NotRunning /\ ticks = <<>>

Used == {t \in Objects : timer[t].kind # "none"}

SetTimer == /\ Free(Here) # {}
            /\ \E t \in Objects \ Used, kind \in Kinds, after \in Delays :
                 /\ \A u \in Objects \ Used : t <= u
                 /\ Become(NewTimer(Here, t, kind, after))
            /\ UNCHANGED now
ClearTimer == /\ \E t \in Used : Become(Clear(Here, t))
              /\ UNCHANGED now
UnrefTimer == /\ \E t \in Used \cap MayUnref : Become(Unref(Here, t))
              /\ UNCHANGED now
RefTimer == /\ \E t \in Used \cap MayUnref : Become(Ref(Here, t))
            /\ UNCHANGED now

(* A list's watcher fires: listOnTimeout(). *)
OnListTimeout ==
  /\ running = NotRunning
  /\ \E i \in DOMAIN heap :
       /\ Expired(i) /\ heap[i].w.of = "list"
       /\ Become(RunList(StopWatcher(Here, heap[i].w), heap[i].w.id, now))
  /\ UNCHANGED now

(* An unref'd timer's own watcher fires.  Without a callback to call this  *)
(* is an uncaught TypeError.                                               *)
OnHandleTimeout ==
  /\ running = NotRunning
  /\ \E i \in DOMAIN heap :
       LET t == heap[i].w.id
           m == StopWatcher(Here, heap[i].w)
       IN  /\ Expired(i) /\ heap[i].w.of = "timer"
           /\ Become(IF ~timer[t].hcb THEN m
                     ELSE [m EXCEPT !.running = [by |-> "handle", list |-> NoList,
                                                 timer |-> t, now |-> now],
                                    !.timer[t] = Fired(@)])
  /\ UNCHANGED now

CallbackReturns ==
  /\ running # NotRunning
  /\ Free(Here) # {}
  /\ LET m == Rearm(Here, running.timer, running.by)
     IN  Become(IF running.by = "list" THEN RunList(m, running.list, running.now)
                ELSE [m EXCEPT !.running = NotRunning])
  /\ UNCHANGED now

(* The process goes on after an uncaught exception.  A list runs again on  *)
(* a later tick; other events may come first.                              *)
CallbackThrows ==
  /\ running # NotRunning /\ running.timer \in MayThrow
  /\ Become([Here EXCEPT !.running = NotRunning, !.timer[running.timer].threw = TRUE,
                         !.ticks = IF running.by = "list"
                                   THEN Append(@, running.list) ELSE @])
  /\ UNCHANGED now
ProcessTick ==
  /\ running = NotRunning /\ ticks # <<>>
  /\ Become(RunList([Here EXCEPT !.ticks = Tail(@)], Head(ticks), now))
  /\ UNCHANGED now

(* The loop updates its clock when no watcher is due. *)
Advance == /\ running = NotRunning
           /\ \A i \in DOMAIN heap : heap[i].due > now
           /\ now' \in now + 1 .. MaxTime
           /\ UNCHANGED <<timer, lists, list, heap, running, ticks>>

Next == \/ SetTimer \/ ClearTimer \/ UnrefTimer \/ RefTimer
        \/ OnListTimeout \/ OnHandleTimeout \/ CallbackReturns
        \/ CallbackThrows \/ ProcessTick \/ Advance

Spec == Init /\ [][Next]_vars
-----------------------------------------------------------------------------
Watched == {heap[i].w : i \in DOMAIN heap}
InList(t) == \E l \in ListIds : t \in Range(list[l].items)
Pending(t) == InList(t) \/ OfTimer(t) \in Watched

TimerObject ==
  [kind : Kinds \cup {"none"}, after : Delays \cup {0},
   idle : Delays \cup {-1}, start : Nat, cb : BOOLEAN, repeat : BOOLEAN,
   handle : {"none", "open", "closed"}, hcb : BOOLEAN, ref : BOOLEAN,
   since : Nat, fired : Nat, threw : BOOLEAN, cleared : BOOLEAN]
ListObject == [open : BOOLEAN, msecs : Delays \cup {0}, items : Seq(Objects)]
Watcher == [of : {"list"}, id : ListIds] \cup [of : {"timer"}, id : Objects]

(* Every field keeps its type, and a list that is closed stays empty: no   *)
(* timer is ever added to a list whose watcher is gone.                    *)
TypeOK ==
  /\ now \in Nat
  /\ timer \in [Objects -> TimerObject]
  /\ lists \in [Delays -> ListIds \cup {NoList}]
  /\ list \in [ListIds -> ListObject]
  /\ heap \in Seq([w : Watcher, due : Nat])
  /\ ticks \in Seq(ListIds)
  /\ running \in [by : {"none", "list", "handle"}, list : ListIds \cup {NoList},
                  timer : Objects \cup {NoTimer}, now : Nat]
  /\ \A l \in ListIds : ~list[l].open => list[l].items = <<>>

(* A list with timers in it is being run, or will be run again on a tick,  *)
(* or its watcher is started and fires by the time the first of them is    *)
(* due: no timer sleeps on.                                                *)
Armed ==
  \A l \in ListIds :
    list[l].items # <<>> /\ l # running.list /\ l \notin Range(ticks) =>
      \E i \in DOMAIN heap :
        /\ heap[i].w = OfList(l)
        /\ \A t \in Range(list[l].items) :
             heap[i].due <= timer[t].start + list[l].msecs

(* A timer that was set and not cleared is still going to fire: a timeout  *)
(* until it has fired, an interval always, unless its last callback threw. *)
NotLost ==
  \A t \in Used :
    ~timer[t].cleared /\ (timer[t].kind = "timeout" => timer[t].fired = 0) =>
      Pending(t) \/ running.timer = t \/ timer[t].threw

(* A callback runs no sooner than its delay after it was set or, for an    *)
(* interval, after its last run.                                           *)
NotEarly ==
  [][\A t \in Objects : timer'[t].fired > timer[t].fired =>
       now >= timer[t].since + timer[t].after]_vars

(* A callback does not run once its timer was cleared.                     *)
NotAfterClear ==
  [][\A t \in Objects : timer'[t].fired > timer[t].fired =>
       ~timer[t].cleared]_vars

(* While a timeout's list is the one in the table for its delay, no        *)
(* timeout of that delay that was set after it fires from a list.  (When   *)
(* the end of listOnTimeout() took its list out of the table, a later one  *)
(* can: its list may be armed before the first restarts its watcher.)      *)
InSetOrder ==
  [][\A t, u \in Used :
       /\ t < u /\ timer[t].after = timer[u].after
       /\ timer[t].kind = "timeout" /\ timer[u].kind = "timeout"
       /\ \E l \in ListIds : l = lists[timer[t].after] /\ t \in Range(list[l].items)
       => ~(timer'[u].fired > timer[u].fired /\ running'.by = "list")]_vars

(* A timeout's callback runs once, as long as its timer is not unref'd.    *)
OneTime ==
  \A t \in Used : timer[t].kind = "timeout" /\ timer[t].handle = "none" =>
                   timer[t].fired <= 1

(* What setTimeout() and setInterval() promise the program.                *)
TimersKept == /\ [](TypeOK /\ Armed /\ NotLost /\ OneTime)
              /\ NotEarly /\ NotAfterClear /\ InSetOrder
=============================================================================
