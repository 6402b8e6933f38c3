--------------------------- MODULE SharedHandles ----------------------------
(***************************************************************************)
(* lib/cluster.js without round-robin (SCHED_NONE, and UDP always): the    *)
(* master opens a listen socket for a key and sends it to every worker     *)
(* that asks; the workers accept on their own copies.  The master keeps a  *)
(* SharedHandle with the workers that got it and closes its own copy when  *)
(* the last of them is disconnected.                                       *)
(***************************************************************************)
EXTENDS Naturals, Sequences, FiniteSets, TLC

CONSTANTS Workers,
          Keys,       \* address:port:type:fd
          MayFail,    \* may opening the socket fail?
          Relisten    \* may a worker listen again on what it has closed?

ASSUME SharedHandlesAssumption == MayFail \in BOOLEAN /\ Relisten \in BOOLEAN

VARIABLES
  handles,   \* key -> the workers of its SharedHandle, {} for none
  open,      \* the keys for which the master holds a socket
  thrown,    \* the assertion that failed in the master, if any
  chan,      \* IPC channel, seen from the master
  toMaster,  \* keys that are asked for
  toWorker,  \* replies
  up,        \* is the worker process running?
  server     \* the worker's servers: "none", "asked", "open", "closed"

vars == <<handles, open, thrown, chan, toMaster, toWorker, up, server>>

InUse == {k \in Keys : handles[k] # {}}

Init == /\ handles = [k \in Keys |-> {}] /\ open = {} /\ thrown = "none"
        /\ chan = [w \in Workers |-> "open"]
        /\ toMaster = [w \in Workers |-> <<>>]
        /\ toWorker = [w \in Workers |-> <<>>]
        /\ up = [w \in Workers |-> TRUE]
        /\ server = [w \in Workers |-> [k \in Keys |-> "none"]]

WorkersUnchanged == UNCHANGED <<chan, up, server>>

(* queryServer(): add() with the socket, which is opened when there is no  *)
(* SharedHandle; when that fails the table's entry is deleted again.       *)
Answer(w, k, ok) ==
  toWorker' = IF up[w] THEN [toWorker EXCEPT ![w] = Append(@, [key |-> k, ok |-> ok])]
              ELSE toWorker
QueryServer(w, k) ==
  IF w \in handles[k]
  THEN /\ thrown' = "add" /\ UNCHANGED <<handles, open, toWorker>>
  ELSE \/ /\ handles' = [handles EXCEPT ![k] = handles[k] \cup {w}]
          /\ open' = open \cup {k}
          /\ Answer(w, k, TRUE) /\ UNCHANGED thrown
       \/ /\ MayFail /\ handles[k] = {}
          /\ Answer(w, k, FALSE) /\ UNCHANGED <<handles, open, thrown>>
MasterReceives(w) ==
  /\ chan[w] = "open" /\ toMaster[w] # <<>>
  /\ QueryServer(w, Head(toMaster[w]))
  /\ toMaster' = [toMaster EXCEPT ![w] = Tail(@)]
  /\ WorkersUnchanged

(* The 'disconnect' event: remove() for every key in the table, which      *)
(* asserts that the worker is there.  Keys are visited in some order, and  *)
(* those before the first failure are done.                                *)
RemovedKept(w, done) == \* mutant: the last worker does not close the socket
  /\ handles' = [k \in Keys |-> IF k \in done THEN handles[k] \ {w} ELSE handles[k]]
  /\ UNCHANGED open
Removed(w, done) ==
  /\ handles' = [k \in Keys |-> IF k \in done THEN handles[k] \ {w} ELSE handles[k]]
  /\ open' = open \ {k \in done : handles[k] = {w}}
OnDisconnect(w) ==
  LET mine == {k \in InUse : w \in handles[k]}
  IN  /\ IF mine = InUse THEN Removed(w, mine) /\ UNCHANGED thrown
         ELSE \E done \in SUBSET mine : Removed(w, done) /\ thrown' = "remove"
      /\ chan' = [chan EXCEPT ![w] = "closed"]
      /\ UNCHANGED <<toWorker, up, server>>

(* The worker's end of the channel is closed and everything it sent read.  *)
ChannelEnds(w) ==
  /\ chan[w] = "open" /\ ~up[w] /\ toMaster[w] = <<>>
  /\ OnDisconnect(w) /\ UNCHANGED toMaster

(* worker.destroy(), alias kill(): the master closes its end of the        *)
(* channel, with what it has not read, and the event follows at once.  The *)
(* process goes on until the signal or the end of the channel reaches it.  *)
Destroy(w) ==
  /\ chan[w] = "open"
  /\ OnDisconnect(w) /\ toMaster' = [toMaster EXCEPT ![w] = <<>>]
-----------------------------------------------------------------------------
MasterUnchanged == UNCHANGED <<handles, open, thrown, chan>>

Listen(w, k) ==
  /\ up[w] /\ server[w][k] \in (IF Relisten THEN {"none", "closed"} ELSE {"none"})
  /\ server' = [server EXCEPT ![w][k] = "asked"]
  /\ toMaster' = [toMaster EXCEPT ![w] = IF chan[w] = "open" THEN Append(@, k) ELSE @]
  /\ MasterUnchanged /\ UNCHANGED <<toWorker, up>>

WorkerReceives(w) ==
  /\ up[w] /\ toWorker[w] # <<>>
  /\ LET reply == Head(toWorker[w])
     IN  server' = [server EXCEPT ![w][reply.key] = IF reply.ok THEN "open" ELSE "closed"]
  /\ toWorker' = [toWorker EXCEPT ![w] = Tail(@)]
  /\ MasterUnchanged /\ UNCHANGED <<toMaster, up>>

(* The worker closes its copy and forgets it; the master is not told.      *)
CloseServer(w, k) ==
  /\ up[w] /\ server[w][k] = "open"
  /\ server' = [server EXCEPT ![w][k] = "closed"]
  /\ MasterUnchanged /\ UNCHANGED <<toMaster, toWorker, up>>

(* The worker disconnects, is killed, crashes, or exits because the        *)
(* channel was closed.                                                     *)
Leave(w) ==
  /\ up[w]
  /\ up' = [up EXCEPT ![w] = FALSE]
  /\ server' = [server EXCEPT ![w] = [k \in Keys |-> "closed"]]
  /\ toWorker' = [toWorker EXCEPT ![w] = <<>>]
  /\ MasterUnchanged /\ UNCHANGED toMaster

Next == /\ thrown = "none"
        /\ \E w \in Workers : \/ MasterReceives(w) \/ ChannelEnds(w) \/ Destroy(w)
                              \/ WorkerReceives(w) \/ Leave(w)
                              \/ \E k \in Keys : Listen(w, k) \/ CloseServer(w, k)

Spec == Init /\ [][Next]_vars

Interchangeable == Permutations(Workers) \cup Permutations(Keys) \* for TLC
-----------------------------------------------------------------------------
(* The master holds a socket exactly as long as a connected worker was     *)
(* given a copy of it: no socket outlives its workers, and none is closed  *)
(* under a connected worker that listens.  (One that was cut off by        *)
(* destroy() may listen on its copy until it ends.)                        *)
SocketPerUser ==
  thrown = "none" =>
    /\ open = InUse
    /\ \A k \in Keys : \A w \in handles[k] : chan[w] = "open"
    /\ \A w \in Workers, k \in Keys :
         server[w][k] = "open" /\ chan[w] = "open" => k \in open

=============================================================================
