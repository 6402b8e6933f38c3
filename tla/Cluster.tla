------------------------------ MODULE Cluster -------------------------------
(***************************************************************************)
(* lib/cluster.js with round-robin scheduling: the master accepts the      *)
(* connections of a port and hands them to the workers that listen on it.  *)
(*                                                                         *)
(* One port is modelled.  Its RoundRobinHandle is found through the table  *)
(* handles; when the last worker leaves it is closed and the next worker   *)
(* that listens gets a new one, so callbacks can refer to one that is gone.*)
(* Master and workers talk over IPC channels, which keep messages in order *)
(* and lose what was not read when an end closes.                          *)
(***************************************************************************)
EXTENDS Naturals, Sequences, FiniteSets, SequencesExt

CONSTANTS
  Workers,
  Conns,      \* bound: the connections that clients make
  Objects,    \* bound: how many RoundRobinHandles are made, 1..n
  MayClose,   \* the workers whose program may close its server
  MayLeave,   \* the workers that may be disconnected, killed or crash
  Relisten,   \* may a program listen on the port again after it closed?
  MayFail     \* may binding the port fail?

NoObject == 0

ASSUME ClusterAssumption ==
  /\ MayClose \subseteq Workers /\ MayLeave \subseteq Workers
  /\ Objects \subseteq Nat \ {0} /\ IsFiniteSet(Objects)
  /\ Relisten \in BOOLEAN /\ MayFail \in BOOLEAN

VARIABLES
  workers,    \* cluster.workers
  handle,     \* handles[key]: the RoundRobinHandle in use
  rr,         \* the RoundRobinHandles
  callbacks,  \* newconn messages that the master waits to be acked
  closed,     \* connections whose handle the master has closed
  whenGone,   \* callback of cluster.disconnect(): "none"; "waits", or "alone"
              \* if no worker was connected since it was given; "called"
  thrown,     \* an exception in the master
  chan,       \* IPC channel, seen from the master: "none", "open", "closed"
  toWorker, toMaster,
  up,         \* is the worker process running?
  server,     \* the worker's server: "none", "asked", "open", "was"
  serving     \* the connections a worker has accepted

vars == <<workers, handle, rr, callbacks, closed, whenGone, thrown, chan,
          toWorker, toMaster, up, server, serving>>

Here == [workers |-> workers, handle |-> handle, rr |-> rr, closed |-> closed,
         callbacks |-> callbacks, whenGone |-> whenGone, thrown |-> thrown,
         chan |-> chan, toWorker |-> toWorker]
Become(m) ==
  /\ workers' = m.workers /\ handle' = m.handle /\ rr' = m.rr
  /\ callbacks' = m.callbacks /\ closed' = m.closed
  /\ whenGone' = m.whenGone /\ thrown' = m.thrown /\ chan' = m.chan
  /\ toWorker' = m.toWorker
WorkersUnchanged == UNCHANGED <<toMaster, up, server, serving>>
-----------------------------------------------------------------------------
(* The master.                                                             *)

(* process.send(): an error when the channel is closed, which nobody       *)
(* listens for; lost when the worker is gone.                              *)
Send(m, w, message) ==
  IF m.thrown THEN m
  ELSE IF m.chan[w] # "open" THEN [m EXCEPT !.thrown = TRUE]
  ELSE IF ~up[w] THEN m
  ELSE [m EXCEPT !.toWorker[w] = Append(@, message)]

(* To all of W in any order: each worker has a channel of its own.         *)
SendAll(m, W, message) ==
  IF \E w \in W : m.chan[w] # "open" THEN [m EXCEPT !.thrown = TRUE]
  ELSE [m EXCEPT !.toWorker = [w \in Workers |->
          IF w \in W /\ up[w] THEN Append(m.toWorker[w], message) ELSE m.toWorker[w]]]

Reply(ok) == [type |-> "reply", ok |-> ok]
NewConn(h, c) == [type |-> "newconn", object |-> h, conn |-> c]
Ack(h, c, accepted) ==
  [type |-> "ack", object |-> h, conn |-> c, accepted |-> accepted]

Handoff(m, h, w) ==
  IF m.thrown \/ w \notin m.rr[h].all THEN m
  ELSE IF m.rr[h].handles = <<>> THEN [m EXCEPT !.rr[h].free = Append(@, w)]
  ELSE LET c == Head(m.rr[h].handles)
       IN  Send([m EXCEPT !.rr[h].handles = Tail(@),
                          !.callbacks = @ \cup {[worker |-> w, object |-> h, conn |-> c]}],
                w, NewConn(h, c))

Distribute(m, h, c) ==
  LET m1 == [m EXCEPT !.rr[h].handles = Append(@, c)]
  IN  IF m.rr[h].free = <<>> THEN m1
      ELSE Handoff([m1 EXCEPT !.rr[h].free = Tail(@)], h, Head(m.rr[h].free))

ReplyResends(m, w, h, c, accepted) == \* mutant: sent on although accepted
  LET m1 == [m EXCEPT !.callbacks = @ \ {[worker |-> w, object |-> h, conn |-> c]}]
  IN  Handoff(Distribute(m1, h, c), h, w)
(* The reply to newconn. *)
OnReply(m, w, h, c, accepted) ==
  LET m1 == [m EXCEPT !.callbacks = @ \ {[worker |-> w, object |-> h, conn |-> c]}]
  IN  Handoff(IF accepted THEN [m1 EXCEPT !.closed = @ \cup {c}]
              ELSE Distribute(m1, h, c), h, w)

(* add() once the port is bound. *)
Done(m, h, w) == Handoff(Send(m, w, Reply(TRUE)), h, w)
Add(m, h, w) ==
  LET m1 == [m EXCEPT !.rr[h].all = @ \cup {w}]
  IN  IF w \in m.rr[h].all THEN [m EXCEPT !.thrown = TRUE]
      ELSE IF m.rr[h].state = "bound" THEN Done(m1, h, w)
      ELSE [m1 EXCEPT !.rr[h].waiting = Append(@, w)]

Unused == {h \in Objects : rr[h].state = "unused"}
QueryServer(m, w) ==
  IF m.handle # NoObject THEN Add(m, m.handle, w)
  ELSE LET h == CHOOSE h \in Unused : \A k \in Unused : h <= k
       IN  Add([m EXCEPT !.handle = h, !.rr[h].state = "binding"], h, w)

(* remove(), and the table's entry goes when it returns true.              *)
RemoveWorker(m, w) ==
  LET h  == m.handle
      m1 == [m EXCEPT !.rr[h].all = @ \ {w},
                      !.rr[h].free = RemoveFirst(@, w)]
  IN  IF h = NoObject \/ w \notin m.rr[h].all THEN m
      ELSE IF m1.rr[h].all # {} THEN m1
      ELSE IF m.rr[h].state = "binding" THEN [m1 EXCEPT !.thrown = TRUE]
      ELSE [m1 EXCEPT !.closed = @ \cup ToSet(m.rr[h].handles),
                      !.rr[h].handles = <<>>, !.rr[h].state = "closed",
                      !.handle = NoObject]

(* A 'close' message for a port that has no handle is an error.            *)
OnClose(m, w) == IF m.handle = NoObject THEN [m EXCEPT !.thrown = TRUE]
                 ELSE RemoveWorker(m, w)

(* The listeners of a worker's 'disconnect' event. *)
OnDisconnect(m, w) ==
  LET m1 == RemoveWorker([m EXCEPT !.chan[w] = "closed", !.workers = @ \ {w}], w)
  IN  IF m1.thrown \/ m1.handle # NoObject \/ m1.whenGone \notin {"waits", "alone"}
      THEN m1
      ELSE [m1 EXCEPT !.whenGone = "called"]
-----------------------------------------------------------------------------
Init ==
  /\ workers = {} /\ handle = NoObject
  /\ rr = [h \in Objects |-> [state |-> "unused", all |-> {}, free |-> <<>>,
                              handles |-> <<>>, waiting |-> <<>>]]
  /\ callbacks = {} /\ closed = {} /\ whenGone = "none" /\ thrown = FALSE
  /\ chan = [w \in Workers |-> "none"]
  /\ toWorker = [w \in Workers |-> <<>>]
  /\ toMaster = [w \in Workers |-> <<>>]
  /\ up = [w \in Workers |-> FALSE]
  /\ server = [w \in Workers |-> "none"]
  /\ serving = [w \in Workers |-> {}]

(* While a port is being bound only ticks, the program and the rest of the *)
(* chunk that the query came in have their turn, no other I/O event.       *)
Binding == {h \in Objects : rr[h].state = "binding"}
NoIO == Binding # {}
SameChunk(w) == \A h \in Binding : rr[h].waiting # <<>> /\ Head(rr[h].waiting) = w

Fork(w) ==
  /\ chan[w] = "none"
  /\ Become([Here EXCEPT !.workers = @ \cup {w}, !.chan[w] = "open",
                          !.whenGone = IF @ = "alone" THEN "waits" ELSE @])
  /\ up' = [up EXCEPT ![w] = TRUE]
  /\ UNCHANGED <<toMaster, server, serving>>

MasterReceives(w) ==
  /\ chan[w] = "open" /\ toMaster[w] # <<>> /\ SameChunk(w)
  /\ Head(toMaster[w]).type = "query" => handle # NoObject \/ Unused # {} \* bound
  /\ LET message == Head(toMaster[w])
     IN  Become(CASE message.type = "query" -> QueryServer(Here, w)
                  [] message.type = "close" -> OnClose(Here, w)
                  [] message.type = "ack" ->
                       OnReply(Here, w, message.object, message.conn,
                               message.accepted))
  /\ toMaster' = [toMaster EXCEPT ![w] = Tail(@)]
  /\ UNCHANGED <<up, server, serving>>

(* The server of a RoundRobinHandle emits 'listening' or 'error'.          *)
Listening(h) ==
  /\ h \in Binding
  /\ Become(FoldLeft(LAMBDA m, w : Done(m, h, w),
                     [Here EXCEPT !.rr[h].state = "bound",
                                  !.rr[h].waiting = <<>>], rr[h].waiting))
  /\ WorkersUnchanged
ListenFails(h) ==
  /\ MayFail /\ h \in Binding
  /\ Become(SendAll([Here EXCEPT !.rr[h].state = "failed",
                                 !.rr[h].waiting = <<>>,
                                 !.handle = NoObject],
                    ToSet(rr[h].waiting), Reply(FALSE)))
  /\ WorkersUnchanged

Held(h) == ToSet(rr[h].handles)
Seen == closed \cup {k.conn : k \in callbacks}
        \cup (UNION {Held(h) : h \in Objects})
        \cup {c \in Conns : \E w \in Workers : c \in serving[w]}
OnConnection(c) ==
  /\ ~NoIO /\ c \notin Seen
  /\ handle # NoObject /\ Become(Distribute(Here, handle, c))
  /\ WorkersUnchanged

(* The worker's end of the channel is closed and everything it sent read.  *)
ChannelEnds(w) ==
  /\ ~NoIO /\ chan[w] = "open" /\ ~up[w] /\ toMaster[w] = <<>>
  /\ Become(OnDisconnect(Here, w)) /\ WorkersUnchanged

ExitEvent(w) == /\ ~NoIO /\ ~up[w] /\ w \in workers
                /\ Become([Here EXCEPT !.workers = @ \ {w}])
                /\ WorkersUnchanged

(* The master's program: worker.disconnect(), worker.kill(),               *)
(* cluster.disconnect(callback).                                           *)
Disconnect(w) ==
  /\ w \in MayLeave /\ w \in workers /\ chan[w] = "open"
  /\ [type |-> "disconnect"] \notin ToSet(toWorker[w]) \* bound
  /\ Become(Send(Here, w, [type |-> "disconnect"])) /\ WorkersUnchanged
Destroy(w) ==
  /\ w \in MayLeave /\ chan[w] = "open"
  /\ Become(OnDisconnect(Here, w))
  /\ toMaster' = [toMaster EXCEPT ![w] = <<>>]
  /\ UNCHANGED <<up, server, serving>>
Connected == {w \in Workers : chan[w] = "open"}
ClusterDisconnect ==
  /\ MayLeave = Workers /\ whenGone = "none" \* bound: one callback
  /\ Become(SendAll([Here EXCEPT !.whenGone = IF Connected = {} THEN "alone" ELSE "waits"],
                    workers, [type |-> "disconnect"]))
  /\ WorkersUnchanged
-----------------------------------------------------------------------------
(* The workers.  What is sent on a closed channel is lost.                 *)
MasterUnchanged ==
  UNCHANGED <<workers, handle, rr, callbacks, closed, whenGone, thrown, chan>>
Tell(w, message) ==
  toMaster' = [toMaster EXCEPT ![w] = IF chan[w] = "open" THEN Append(@, message)
                                      ELSE @]

Listen(w) ==
  /\ up[w] /\ server[w] \in (IF Relisten THEN {"none", "was"} ELSE {"none"})
  /\ server' = [server EXCEPT ![w] = "asked"]
  /\ Tell(w, [type |-> "query"])
  /\ MasterUnchanged /\ UNCHANGED <<toWorker, up, serving>>

CloseServer(w) ==
  /\ up[w] /\ server[w] = "open" /\ w \in MayClose
  /\ server' = [server EXCEPT ![w] = "was"]
  /\ Tell(w, [type |-> "close"])
  /\ MasterUnchanged /\ UNCHANGED <<toWorker, up, serving>>

(* The reply to the query. *)
WorkerGotReply(w) ==
  /\ up[w] /\ toWorker[w] # <<>> /\ Head(toWorker[w]).type = "reply"
  /\ server' = [server EXCEPT ![w] = IF Head(toWorker[w]).ok THEN "open" ELSE "was"]
  /\ toWorker' = [toWorker EXCEPT ![w] = Tail(@)]
  /\ MasterUnchanged /\ UNCHANGED <<toMaster, up, serving>>

Accepts(w) == server[w] = "open"
OnNewConn(w) ==
  /\ up[w] /\ toWorker[w] # <<>> /\ Head(toWorker[w]).type = "newconn"
  /\ LET message == Head(toWorker[w])
     IN  /\ Tell(w, Ack(message.object, message.conn, Accepts(w)))
         /\ serving' = [serving EXCEPT ![w] = IF Accepts(w) THEN @ \cup {message.conn}
                                              ELSE @]
  /\ toWorker' = [toWorker EXCEPT ![w] = Tail(@)]
  /\ MasterUnchanged /\ UNCHANGED <<up, server>>

(* Worker.prototype.disconnect: the servers are closed, the channel too,   *)
(* and the process exits on its 'disconnect' event.                        *)
Leave(w) ==
  /\ up' = [up EXCEPT ![w] = FALSE]
  /\ server' = [server EXCEPT ![w] = "was"]
  /\ serving' = [serving EXCEPT ![w] = {}]
  /\ toWorker' = [toWorker EXCEPT ![w] = <<>>]
  /\ MasterUnchanged
Disconnects(w) ==
  /\ IF server[w] = "open" THEN Tell(w, [type |-> "close"])
     ELSE UNCHANGED toMaster
  /\ Leave(w)
WorkerDisconnects(w) ==
  /\ up[w] /\ w \in MayLeave /\ chan[w] = "open"
  /\ Disconnects(w)
OnDisconnectMessage(w) ==
  /\ up[w] /\ toWorker[w] # <<>> /\ Head(toWorker[w]).type = "disconnect"
  /\ Disconnects(w)

(* A crash, a signal, or the end of the channel that the master closed.    *)
WorkerDies(w) ==
  /\ up[w] /\ (w \in MayLeave \/ chan[w] = "closed")
  /\ Leave(w) /\ UNCHANGED toMaster

(* A client or the server ends a connection. *)
ConnectionEnds(w) ==
  /\ up[w]
  /\ \E c \in serving[w] :
       serving' = [serving EXCEPT ![w] = @ \ {c}]
  /\ MasterUnchanged /\ UNCHANGED <<toWorker, toMaster, up, server>>
-----------------------------------------------------------------------------
MasterStep ==
  /\ ~thrown
  /\ \/ \E w \in Workers : \/ Fork(w) \/ MasterReceives(w) \/ ChannelEnds(w)
                           \/ ExitEvent(w) \/ Disconnect(w) \/ Destroy(w)
     \/ \E h \in Objects : Listening(h) \/ ListenFails(h)
     \/ \E c \in Conns : OnConnection(c)
     \/ ClusterDisconnect

WorkerStep ==
  /\ ~thrown
  /\ \E w \in Workers :
       \/ Listen(w) \/ CloseServer(w) \/ WorkerGotReply(w) \/ OnNewConn(w)
       \/ WorkerDisconnects(w) \/ OnDisconnectMessage(w) \/ WorkerDies(w)
       \/ ConnectionEnds(w)

Next == MasterStep \/ WorkerStep

Spec == Init /\ [][Next]_vars

-----------------------------------------------------------------------------
(* A connection never waits in the master's queue while a worker is free:  *)
(* every path that queues one also looks for a worker.                     *)
NoneWaits == \A h \in Objects : rr[h].handles # <<>> => rr[h].free = <<>>

(* A worker has one connection at a time to answer for: it is given the    *)
(* next one when it has answered, and it is free only then, and only once. *)
Outstanding(w) == {k \in callbacks : k.worker = w /\ chan[w] = "open"}
OneAtATime ==
  \A w \in Workers, h \in Objects :
    LET freed == Cardinality({i \in DOMAIN rr[h].free : rr[h].free[i] = w})
    IN  Cardinality(Outstanding(w)) + freed <= 1

(* A connection is given to one worker: once a worker serves it no other   *)
(* does, and the master does not queue it again.                           *)
AcceptedOnce ==
  \A w \in Workers : \A c \in serving[w] :
    /\ \A v \in Workers \ {w} : c \notin serving[v]
    /\ \A h \in Objects : c \notin Held(h)

(* The callback of cluster.disconnect() is not forgotten: once a worker    *)
(* was connected while it waits, or when it was given, some worker still   *)
(* is, whose 'disconnect' event can call it.  (Nothing calls one that was  *)
(* given to a cluster without workers, until one is forked and leaves.)    *)
NotForgotten == whenGone = "waits" /\ ~thrown => Connected # {}

(* What the master keeps to while workers come and go.                     *)
ConnectionsKept == NoneWaits /\ OneAtATime /\ AcceptedOnce /\ NotForgotten
=============================================================================
