----------------------------- MODULE Immediates -----------------------------
(***************************************************************************)
(* setImmediate() and clearImmediate() of lib/timers.js, with the flag     *)
(* process._needImmediateCallback of src/node.cc behind them: writing it   *)
(* starts and stops the check watcher that calls processImmediate() once   *)
(* in every iteration of the event loop, and the idle watcher that keeps   *)
(* the loop from waiting for I/O meanwhile.                                *)
(***************************************************************************)
EXTENDS LinkList

CONSTANTS Ids,    \* bound: the immediates that are made
          Queue   \* the list object immediateQueue

ASSUME ImmediatesAssumption ==
  IsFiniteSet(Ids) /\ Queue \notin Ids /\ Null \notin Ids \cup {Queue}

VARIABLES
  link,      \* _idleNext and _idlePrev of every object
  cb,        \* _onImmediate: "unmade", "set" or "undefined"
  need,      \* need_immediate_cb
  watching,  \* are the check and the idle watcher started?
  phase,     \* of the loop: "io" or "check"
  running,   \* the immediate whose callback runs, or Null
  cleared    \* history: the immediates that clearImmediate() was called for

vars == <<link, cb, need, watching, phase, running, cleared>>

Init ==
  /\ link = [n \in Ids \cup {Queue} |->
               IF n = Queue THEN [next |-> Queue, prev |-> Queue] ELSE Unlinked]
  /\ cb = [i \in Ids |-> "unmade"]
  /\ need = FALSE /\ watching = FALSE
  /\ phase = "io" /\ running = Null /\ cleared = {}

(* The setter does nothing when the value stays. *)
SetNeed(value) ==
  /\ need' = value
  /\ watching' = IF need = value THEN watching ELSE value

(* JavaScript runs in the callback of an I/O event or of an immediate.     *)
UserRuns == phase = "io" \/ running # Null

SetImmediate ==
  /\ UserRuns
  /\ \E i \in Ids :
       /\ cb[i] = "unmade"
       /\ cb' = [cb EXCEPT ![i] = "set"]
       /\ link' = Append_(InitLink(link, i), Queue, i)
  /\ IF need THEN UNCHANGED <<need, watching>> ELSE SetNeed(TRUE)
  /\ UNCHANGED <<phase, running, cleared>>

ClearImmediate ==
  /\ UserRuns
  /\ \E i \in Ids :
       /\ cb[i] # "unmade"
       /\ cb' = [cb EXCEPT ![i] = "undefined"]
       /\ link' = Remove(link, i)
       /\ cleared' = cleared \cup {i}
  /\ IF IsEmpty(link', Queue) THEN SetNeed(FALSE)
     ELSE UNCHANGED <<need, watching>>
  /\ UNCHANGED <<phase, running>>

(* The check watcher's callback: processImmediate() up to the callback.    *)
CheckImmediate ==
  /\ phase = "io" /\ watching
  /\ phase' = "check"
  /\ link' = Shift(link, Queue)
  /\ IF IsEmpty(link', Queue) THEN SetNeed(FALSE)
     ELSE UNCHANGED <<need, watching>>
  /\ LET i == First(link, Queue)
     IN  running' = IF cb[i] = "set" THEN i ELSE Null
  /\ UNCHANGED <<cb, cleared>>

(* The callback returns or throws: nothing is left to do in either case.   *)
CallbackEnds == /\ running # Null /\ running' = Null
                /\ UNCHANGED <<link, cb, need, watching, phase, cleared>>

(* The rest of the loop's iteration. *)
NextIteration == /\ phase = "check" /\ running = Null /\ phase' = "io"
                 /\ UNCHANGED <<link, cb, need, watching, running, cleared>>

Next == \/ SetImmediate \/ ClearImmediate
        \/ CheckImmediate \/ CallbackEnds \/ NextIteration

Spec == Init /\ [][Next]_vars

(* The loop goes on while a watcher is started, and callbacks end.         *)
FairSpec == Spec /\ WF_vars(CheckImmediate) /\ WF_vars(CallbackEnds)
                 /\ WF_vars(NextIteration)
-----------------------------------------------------------------------------
(* The pointers stay those of one circular list beside single objects, and *)
(* the watchers are started exactly as long as the queue holds something:  *)
(* processImmediate() never shifts from an empty queue.                    *)
QueueWatched == /\ WellLinked(link)
                /\ IsEmpty(link, Queue) <=> ~watching

(* The immediates of the code are a queue as ImmediateQueue promises it.   *)
Abstract == INSTANCE ImmediateQueue WITH
  None <- Null,
  queue <- Items(link, Queue),
  unused <- {i \in Ids : cb[i] = "unmade"},
  popped <- (phase = "check")
ImplementsQueue == Abstract!Spec

(* An immediate that is queued is called unless it is cleared.             *)
SetLeadsToCall ==
  \A i \in Ids : link[i].next # Null ~> running = i \/ i \in cleared

(* What setImmediate() promises, and the state of the queue that keeps the *)
(* promise.                                                                *)
ImmediatesKept == []QueueWatched /\ ImplementsQueue /\ SetLeadsToCall
=============================================================================
