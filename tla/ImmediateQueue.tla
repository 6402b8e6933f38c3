--------------------------- MODULE ImmediateQueue ---------------------------
(***************************************************************************)
(* What setImmediate() promises: the callbacks run in the order in which   *)
(* they were scheduled, each at most once and not after clearImmediate(),  *)
(* and at most one of them in an iteration of the event loop.              *)
(***************************************************************************)
EXTENDS Naturals, Sequences

CONSTANTS Ids,   \* the immediates
          None   \* no immediate

VARIABLES queue,    \* scheduled, in order
          unused,   \* not made yet
          running,  \* the immediate whose callback runs
          popped    \* has this iteration of the loop taken one?

vars == <<queue, unused, running, popped>>

Init == queue = <<>> /\ unused = Ids /\ running = None /\ popped = FALSE

Schedule == /\ \E i \in unused : /\ queue' = Append(queue, i)
                                 /\ unused' = unused \ {i}
            /\ UNCHANGED <<running, popped>>

Without(q, n) == SubSeq(q, 1, n - 1) \o SubSeq(q, n + 1, Len(q))

Cancel == /\ \E n \in DOMAIN queue : queue' = Without(queue, n)
          /\ UNCHANGED <<unused, running, popped>>

Run == /\ ~popped /\ running = None /\ queue # <<>>
       /\ running' = Head(queue) /\ queue' = Tail(queue)
       /\ popped' = TRUE /\ UNCHANGED unused

Finish == /\ running # None /\ running' = None
          /\ UNCHANGED <<queue, unused, popped>>

Iterate == /\ running = None /\ popped' = FALSE
           /\ UNCHANGED <<queue, unused, running>>

Next == Schedule \/ Cancel \/ Run \/ Finish \/ Iterate

Spec == Init /\ [][Next]_vars
=============================================================================
