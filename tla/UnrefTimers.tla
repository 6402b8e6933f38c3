---------------------------- MODULE UnrefTimers -----------------------------
(***************************************************************************)
(* The timeouts of sockets in lib/timers.js: enroll(), _unrefActive(),     *)
(* unenroll() and unrefTimeout().  All sockets are in one list, sorted by  *)
(* the time at which they time out, and share one libuv timer that is      *)
(* started for the first of them.                                          *)
(*                                                                         *)
(* Three clocks are involved: the monotonic clock, the loop's copy of it   *)
(* which is only brought up to date between callbacks and which the libuv  *)
(* timer is started from, and Date.now(), which the list is sorted by and  *)
(* which can be set.                                                       *)
(***************************************************************************)
EXTENDS Integers, Sequences, SequencesExt

CONSTANTS
  Sockets,    \* the items
  Timeouts,   \* the timeouts in use, in milliseconds
  MaxTime,    \* bound: the monotonic clock
  MaxSkew,    \* how far Date.now() may be set from it; 0: the clock is not set
  NoSocket,   \* none of them
  MayThrow    \* may a 'timeout' listener throw, and the process go on?

ASSUME UnrefTimersAssumption ==
  /\ NoSocket \notin Sockets /\ Timeouts \subseteq Nat \ {0}
  /\ MaxTime \in Nat /\ MaxSkew \in Nat /\ MayThrow \in BOOLEAN

VARIABLES
  clock,    \* the monotonic clock
  loop,     \* the loop's copy of it
  skew,     \* Date.now() - clock
  item,     \* _idleStart, _idleTimeout; history: last activity, timed out?
  list,     \* unrefList
  timer,    \* unrefTimer: started?, when it fires (loop), and its .when
  running,  \* the socket whose _onTimeout runs and unrefTimeout()'s now
  ticks,    \* how many nextTick(unrefTimeout) are pending
  steady    \* history: nobody has set the clock yet

vars == <<clock, loop, skew, item, list, timer, running, ticks, steady>>

Here == [item |-> item, list |-> list, timer |-> timer, running |-> running,
         ticks |-> ticks]
Become(m) == /\ item' = m.item /\ list' = m.list /\ timer' = m.timer
             /\ running' = m.running /\ ticks' = m.ticks
             /\ UNCHANGED <<clock, loop, skew, steady>>
-----------------------------------------------------------------------------
DateNow == clock + skew
NotRunning == [socket |-> NoSocket, now |-> 0]

When(m, s) == m.item[s].start + m.item[s].timeout
StartTimer(m, msecs, when) ==
  [m EXCEPT !.timer = [on |-> TRUE, due |-> loop + msecs, when |-> when]]

RemoveItem(m, s) == [m EXCEPT !.list = RemoveFirst(@, s)]

(* Where the loop over the list stops: the first socket that times out     *)
(* later than when, or the end.                                            *)
PlaceFor(m, when) ==
  SelectInSeq(m.list, LAMBDA u : when < When(m, u))

TooLate(m, when) == m.timer.when > when

Insert(m, s, place) ==
  [m EXCEPT !.list = IF place = 0 THEN Append(@, s) ELSE InsertAt(@, place, s)]

UnrefActive(m, s) ==
  LET msecs == m.item[s].timeout
      m1    == [RemoveItem(m, s) EXCEPT !.item[s].start = DateNow,
                                        !.item[s].since = clock,
                                        !.item[s].timedOut = FALSE]
      when  == DateNow + msecs
      place == PlaceFor(m1, when)
      m2    == Insert(m1, s, place)
  IN  IF msecs <= 0 THEN m
      ELSE IF m1.list = <<>>
      THEN StartTimer([m1 EXCEPT !.list = <<s>>], msecs, when)
      ELSE IF place # 0 /\ TooLate(m, when) THEN StartTimer(m2, msecs, when)
      ELSE m2

Unenroll(m, s) == [RemoveItem(m, s) EXCEPT !.item[s].timeout = -1]
Enroll(m, s, msecs) == [Unenroll(m, s) EXCEPT !.item[s].timeout = msecs]

(* unrefTimeout() up to the next callback it calls. *)
IdleSinceNow(m, s, now) == now >= m.item[s].start \* mutant
IdleFor(m, s, now) == now - m.item[s].start >= m.item[s].timeout

RunUnref(m, now) ==
  LET first == Head(m.list)
      stop  == [m EXCEPT !.running = NotRunning]
  IN  IF m.list = <<>> THEN [stop EXCEPT !.timer.when = -1]
      ELSE IF IdleFor(m, first, now)
      THEN [m EXCEPT !.list = Tail(@),
                     !.item[first].timedOut = TRUE,
                     !.running = [socket |-> first, now |-> now]]
      ELSE LET diff == m.item[first].timeout - (now - m.item[first].start)
           IN  StartTimer(stop, diff, now + diff)
-----------------------------------------------------------------------------
Init == /\ clock = 1 /\ loop = 1 /\ skew = 0
        /\ item = [s \in Sockets |-> [start |-> 0, timeout |-> -1,
                                  since |-> 0, timedOut |-> FALSE]]
        /\ list = <<>> /\ timer = [on |-> FALSE, due |-> 0, when |-> -1]
        /\ running = NotRunning /\ ticks = 0 /\ steady = TRUE

(* Socket.prototype.setTimeout *)
SetTimeout == \E s \in Sockets, msecs \in Timeouts :
                Become(UnrefActive(Enroll(Here, s, msecs), s))
(* setTimeout(0), and a socket that is destroyed *)
ClearTimeout == \E s \in Sockets : Become(Unenroll(Here, s))
(* data was read or written *)
Activity == \E s \in Sockets : Become(UnrefActive(Here, s))

OnTimeout == /\ running = NotRunning /\ timer.on /\ timer.due <= loop
             /\ Become(RunUnref([Here EXCEPT !.timer.on = FALSE], DateNow))

CallbackReturns == /\ running # NotRunning
                   /\ Become(RunUnref(Here, running.now))

CallbackThrows ==
  /\ MayThrow /\ running # NotRunning
  /\ Become([Here EXCEPT !.running = NotRunning, !.ticks = @ + 1])

ProcessTick == /\ running = NotRunning /\ ticks > 0
               /\ Become(RunUnref([Here EXCEPT !.ticks = @ - 1], DateNow))

(* Time passes, in callbacks too; a loop that has nothing to do brings its *)
(* clock up to date.                                                       *)
Advance == /\ clock < MaxTime /\ clock' = clock + 1
           /\ UNCHANGED <<loop, skew, item, list, timer, running, ticks, steady>>
UpdateTime == /\ running = NotRunning /\ loop' = clock
              /\ UNCHANGED <<clock, skew, item, list, timer, running, ticks, steady>>
SetClock == /\ steady \* bound: the clock is set once
            /\ skew' \in -MaxSkew .. MaxSkew /\ skew' # skew
            /\ clock + skew' >= 1 /\ steady' = FALSE
            /\ UNCHANGED <<clock, loop, item, list, timer, running, ticks>>

Next == \/ SetTimeout \/ ClearTimeout \/ Activity
        \/ OnTimeout \/ CallbackReturns \/ CallbackThrows \/ ProcessTick
        \/ Advance \/ UpdateTime \/ SetClock

Spec == Init /\ [][Next]_vars
-----------------------------------------------------------------------------
(* The list is sorted by the time at which the sockets time out and holds  *)
(* no socket twice, however the clock is set.                              *)
Sorted == \A i, j \in DOMAIN list :
            i < j => /\ list[i] # list[j]
                     /\ When(Here, list[i]) <= When(Here, list[j])

(* A socket with a timeout that has not timed out since it was last active *)
(* is waited for: it is in the list, and unless unrefTimeout() runs or is  *)
(* about to, the timer is started.  As long as the clock is never set the  *)
(* timer fires by the time at which the socket times out.                  *)
TimeoutAwaited ==
  \A s \in Sockets : item[s].timeout > 0 /\ ~item[s].timedOut =>
    /\ Contains(list, s)
    /\ running = NotRunning /\ ticks = 0 =>
         timer.on /\ (steady => timer.due <= When(Here, s))

(* A socket times out only after it was idle for the whole timeout, as     *)
(* long as the clock is never set.                                         *)
NotWhileActive ==
  [][\A s \in Sockets : running'.socket = s /\ running # running' /\ steady =>
       clock - item[s].since >= item[s].timeout]_vars

(* What a socket's timeout promises.                                       *)
TimeoutsKept == [](Sorted /\ TimeoutAwaited) /\ NotWhileActive

(* For TLC: sockets are interchangeable. *)
Interchangeable == Permutations(Sockets)
=============================================================================
