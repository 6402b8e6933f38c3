------------------------ MODULE SharedHandlesProofs -------------------------
(***************************************************************************)
(* The master's copy of a shared listen socket lives exactly as long as    *)
(* the workers that use it, for any number of workers and sockets.         *)
(*                                                                         *)
(* SocketPerUser is not inductive: a worker that opens its server does so  *)
(* on an answer that was sent earlier, so the answers that are on their    *)
(* way have to be accounted for as well, and a worker that is gone must    *)
(* have none.                                                              *)
(***************************************************************************)
EXTENDS SharedHandles, TLAPS

Answers == [key : Keys, ok : BOOLEAN]

Types == /\ handles \in [Keys -> SUBSET Workers]
         /\ open \in SUBSET Keys
         /\ chan \in [Workers -> {"open", "closed"}]
         /\ toMaster \in [Workers -> Seq(Keys)]
         /\ toWorker \in [Workers -> Seq(Answers)]
         /\ up \in [Workers -> BOOLEAN]
         /\ server \in [Workers -> [Keys -> {"none", "asked", "open", "closed"}]]

(* Whoever uses a socket, or is about to, is in its SharedHandle. *)
Open == open = InUse
Connected == \A k \in Keys : \A w \in handles[k] : chan[w] = "open"
Users == \A w \in Workers, k \in Keys :
           server[w][k] = "open" /\ chan[w] = "open" => w \in handles[k]
Answered ==
  \A w \in Workers : \A i \in 1..Len(toWorker[w]) :
    toWorker[w][i].ok /\ chan[w] = "open" => w \in handles[toWorker[w][i].key]
Gone == \A w \in Workers : ~up[w] => /\ toWorker[w] = <<>>
                                     /\ \A k \in Keys : server[w][k] # "open"
Accounted == Open /\ Connected /\ Users /\ Answered /\ Gone

SharedInv == Types /\ (thrown = "none" => Accounted)
-----------------------------------------------------------------------------
(* What is left of a queue when its head is taken.                        *)
LEMMA TailOf ==
  ASSUME NEW S, NEW q \in Seq(S), q # <<>>
  PROVE  /\ Len(q) \in Nat \ {0} /\ Len(Tail(q)) = Len(q) - 1
         /\ \A i \in 1..Len(Tail(q)) : Tail(q)[i] = q[i + 1]
  <1>1. Len(q) \in Nat \ {0} OBVIOUS
  <1>2. Len(Tail(q)) = Len(q) - 1 BY <1>1
  <1>. QED BY <1>1, <1>2

(* Initially nobody has asked for anything. *)
LEMMA InitInv == Init => SharedInv
  <1>. SUFFICES ASSUME Init PROVE SharedInv
    OBVIOUS
  <1>1. Types BY DEF Init, Types, Answers
  <1>2. Accounted
    BY DEF Init, Accounted, Open, InUse, Connected, Users, Answered, Gone
  <1>. QED BY <1>1, <1>2 DEF SharedInv

(* queryServer() with the answer that it sends.                            *)
LEMMA MasterReceivesInv ==
  ASSUME SharedInv, thrown = "none", NEW w \in Workers, MasterReceives(w)
  PROVE  SharedInv'
  <1>. DEFINE k == Head(toMaster[w])
  <1>1. /\ Types /\ Accounted
        /\ chan[w] = "open" /\ toMaster[w] # <<>>
        /\ UNCHANGED <<chan, up, server>>
        /\ toMaster' = [toMaster EXCEPT ![w] = Tail(@)]
        /\ QueryServer(w, k)
    BY DEF SharedInv, MasterReceives, WorkersUnchanged
  <1>2. toMaster[w] \in Seq(Keys) BY <1>1 DEF Types
  <1>3. k \in Keys BY <1>1, <1>2
  <1>4. toMaster' \in [Workers -> Seq(Keys)] BY <1>1, <1>2 DEF Types
  <1>. HIDE DEF k
  <1>5. CASE w \in handles[k]
    BY <1>1, <1>4, <1>5 DEF QueryServer, SharedInv, Types
  <1>6. ASSUME NEW ok \in BOOLEAN, Answer(w, k, ok), thrown' = thrown,
               handles' = IF ok THEN [handles EXCEPT ![k] = handles[k] \cup {w}]
                          ELSE handles,
               open' = IF ok THEN open \cup {k} ELSE open
        PROVE  SharedInv'
    <2>. DEFINE answer == [key |-> k, ok |-> ok]
    <2>1. answer \in Answers BY <1>3 DEF Answers
    <2>2. toWorker[w] \in Seq(Answers) BY <1>1 DEF Types
    <2>3. /\ toWorker' \in [Workers -> Seq(Answers)]
          /\ \A v \in Workers : v # w => toWorker'[v] = toWorker[v]
          /\ toWorker'[w] = IF up[w] THEN Append(toWorker[w], answer) ELSE toWorker[w]
      BY <1>1, <1>6, <2>1, <2>2 DEF Answer, Types
    <2>4. /\ handles' \in [Keys -> SUBSET Workers] /\ open' \in SUBSET Keys
          /\ \A j \in Keys : j # k => handles'[j] = handles[j]
          /\ handles'[k] = IF ok THEN handles[k] \cup {w} ELSE handles[k]
      BY <1>1, <1>3, <1>6 DEF Types
    <2>5. Types' BY <1>1, <1>4, <2>3, <2>4 DEF Types
    <2>6. Open'
      BY <1>1, <1>3, <1>6, <2>4 DEF Accounted, Open, InUse, Types
    <2>7. Connected'
      BY <1>1, <1>3, <2>4 DEF Accounted, Connected
    <2>8. Users'
      BY <1>1, <1>3, <2>4 DEF Accounted, Users
    <2>9. Answered'
      <3>. SUFFICES ASSUME NEW v \in Workers, NEW i \in 1..Len(toWorker'[v]),
                           toWorker'[v][i].ok, chan[v] = "open"
                    PROVE  v \in handles'[toWorker'[v][i].key]
        BY <1>1 DEF Answered
      <3>1. toWorker[v] \in Seq(Answers) BY <1>1 DEF Types
      <3>2. ASSUME i \in 1..Len(toWorker[v]), toWorker'[v][i] = toWorker[v][i]
            PROVE  v \in handles'[toWorker'[v][i].key]
        <4>1. toWorker[v][i] \in Answers BY <3>1, <3>2
        <4>2. toWorker[v][i].key \in Keys BY <4>1 DEF Answers
        <4>3. v \in handles[toWorker[v][i].key]
          BY <1>1, <3>2 DEF Accounted, Answered
        <4>. QED BY <2>4, <3>2, <4>2, <4>3
      <3>3. CASE v # w \/ ~up[w] BY <2>3, <3>2, <3>3
      <3>4. CASE v = w /\ up[w]
        <4>1. toWorker'[w] = Append(toWorker[w], answer) BY <2>3, <3>4
        <4>2. CASE i \in 1..Len(toWorker[w])
          BY <2>1, <2>2, <3>2, <3>4, <4>1, <4>2
        <4>3. CASE i = Len(toWorker[w]) + 1
          <5>1. toWorker'[v][i] = answer BY <2>2, <3>4, <4>1, <4>3
          <5>. QED BY <2>4, <3>4, <5>1
        <4>. QED BY <2>2, <3>4, <4>1, <4>2, <4>3
      <3>. QED BY <3>3, <3>4
    <2>10. Gone'
      BY <1>1, <2>3 DEF Accounted, Gone
    <2>. QED BY <2>5, <2>6, <2>7, <2>8, <2>9, <2>10 DEF SharedInv, Accounted
  <1>7. CASE w \notin handles[k]
    <2>1. \/ /\ handles' = [handles EXCEPT ![k] = handles[k] \cup {w}]
             /\ open' = open \cup {k} /\ Answer(w, k, TRUE) /\ UNCHANGED thrown
          \/ Answer(w, k, FALSE) /\ UNCHANGED <<handles, open, thrown>>
      BY <1>1, <1>7 DEF QueryServer
    <2>. QED BY <1>6, <2>1
  <1>. QED BY <1>5, <1>7

(* The 'disconnect' event of a worker that is gone or cut off.             *)
LEMMA OnDisconnectInv ==
  ASSUME SharedInv, thrown = "none", NEW w \in Workers, ChannelEnds(w) \/ Destroy(w)
  PROVE  SharedInv'
  <1>. DEFINE mine == {k \in InUse : w \in handles[k]}
  <1>1. /\ Types /\ Accounted /\ OnDisconnect(w)
        /\ chan' = [chan EXCEPT ![w] = "closed"]
        /\ UNCHANGED <<toWorker, up, server>>
        /\ toMaster' \in [Workers -> Seq(Keys)]
    <2>1. Types /\ Accounted BY DEF SharedInv
    <2>2. CASE ChannelEnds(w)
      <3>1. OnDisconnect(w) /\ toMaster' = toMaster BY <2>2 DEF ChannelEnds
      <3>. QED BY <2>1, <3>1 DEF OnDisconnect, Types
    <2>3. CASE Destroy(w)
      <3>1. OnDisconnect(w) /\ toMaster' = [toMaster EXCEPT ![w] = <<>>]
        BY <2>3 DEF Destroy
      <3>2. toMaster \in [Workers -> Seq(Keys)] BY <2>1 DEF Types
      <3>3. <<>> \in Seq(Keys) OBVIOUS
      <3>4. toMaster' \in [Workers -> Seq(Keys)] BY <3>1, <3>2, <3>3, Zenon
      <3>5. /\ chan' = [chan EXCEPT ![w] = "closed"]
            /\ UNCHANGED <<toWorker, up, server>>
        BY <3>1 DEF OnDisconnect
      <3>. QED BY <2>1, <3>1, <3>4, <3>5
    <2>. QED BY <2>2, <2>3
  <1>2. ASSUME NEW done \in SUBSET mine, Removed(w, done) PROVE Types'
    BY <1>1, <1>2 DEF Types, Removed
  <1>3. CASE mine # InUse
    <2>1. PICK done \in SUBSET mine : Removed(w, done) /\ thrown' = "remove"
      BY <1>1, <1>3 DEF OnDisconnect
    <2>. QED BY <1>2, <2>1 DEF SharedInv
  <1>4. CASE mine = InUse
    <2>1. Removed(w, mine) /\ thrown' = thrown BY <1>1, <1>4 DEF OnDisconnect
    <2>2. \A k \in Keys : handles'[k] = handles[k] \ {w}
      BY <2>1 DEF Removed, InUse
    <2>3. Types' BY <1>2, <2>1
    <2>4. Open'
      <3>1. open \in SUBSET Keys /\ open = InUse
            /\ open' = open \ {k \in mine : handles[k] = {w}}
        BY <1>1, <2>1 DEF Accounted, Open, Removed, Types
      <3>2. ASSUME NEW k \in Keys PROVE k \in open' <=> k \in InUse'
        <4>1. k \in InUse' <=> handles[k] \ {w} # {} BY <2>2 DEF InUse
        <4>2. k \in open <=> handles[k] # {} BY <3>1 DEF InUse
        <4>3. k \in mine <=> k \in open BY <1>4, <3>1
        <4>4. handles[k] \ {w} = {} <=> handles[k] = {} \/ handles[k] = {w}
          OBVIOUS
        <4>. QED BY <3>1, <4>1, <4>2, <4>3, <4>4
      <3>3. InUse' \subseteq Keys BY DEF InUse
      <3>. QED BY <3>1, <3>2, <3>3 DEF Open
    <2>5. Connected' BY <1>1, <2>2 DEF Accounted, Connected, Types
    <2>6. Users' BY <1>1, <2>2 DEF Accounted, Users, Types
    <2>7. Answered'
      <3>. SUFFICES ASSUME NEW v \in Workers, NEW i \in 1..Len(toWorker[v]),
                           toWorker[v][i].ok, chan'[v] = "open"
                    PROVE  v \in handles'[toWorker[v][i].key]
        BY <1>1 DEF Answered
      <3>1. v # w /\ chan[v] = "open" BY <1>1 DEF Types
      <3>2. toWorker[v][i].key \in Keys
        <4>1. toWorker[v] \in Seq(Answers) BY <1>1 DEF Types
        <4>2. toWorker[v][i] \in Answers BY <4>1
        <4>. QED BY <4>2 DEF Answers
      <3>. QED BY <1>1, <2>2, <3>1, <3>2 DEF Accounted, Answered
    <2>8. Gone' BY <1>1 DEF Accounted, Gone, Types
    <2>. QED BY <2>3, <2>4, <2>5, <2>6, <2>7, <2>8 DEF SharedInv, Accounted
  <1>. QED BY <1>3, <1>4

(* What the workers do leaves the master's table alone.                    *)
LEMMA ListenInv ==
  ASSUME SharedInv, thrown = "none", NEW w \in Workers, NEW k \in Keys,
         Listen(w, k) \/ CloseServer(w, k)
  PROVE  SharedInv'
  <1>1. /\ Types /\ Accounted
        /\ UNCHANGED <<handles, open, thrown, chan, toWorker, up>>
    BY DEF SharedInv, Listen, CloseServer, MasterUnchanged
  <1>2. PICK st \in {"asked", "closed"} :
          server' = [server EXCEPT ![w][k] = st]
    BY DEF Listen, CloseServer
  <1>3. toMaster' \in [Workers -> Seq(Keys)]
    <2>1. toMaster[w] \in Seq(Keys) BY <1>1 DEF Types
    <2>2. Append(toMaster[w], k) \in Seq(Keys) BY <2>1
    <2>3. CASE Listen(w, k) BY <1>1, <2>2, <2>3 DEF Types, Listen
    <2>4. CASE CloseServer(w, k) BY <1>1, <2>4 DEF Types, CloseServer
    <2>. QED BY <2>3, <2>4
  <1>4. server' \in [Workers -> [Keys -> {"none", "asked", "open", "closed"}]]
    BY <1>1, <1>2 DEF Types
  <1>5. \A v \in Workers, j \in Keys :
          server'[v][j] = "open" => server[v][j] = "open"
    BY <1>1, <1>2 DEF Types
  <1>6. Types' BY <1>1, <1>3, <1>4 DEF Types
  <1>7. Open' /\ Connected' /\ Answered'
    BY <1>1 DEF Accounted, Open, InUse, Connected, Answered
  <1>8. Users' /\ Gone' BY <1>1, <1>5 DEF Accounted, Users, Gone
  <1>. QED BY <1>6, <1>7, <1>8 DEF SharedInv, Accounted

(* A worker opens its server on an answer, which is accounted for.         *)
LEMMA WorkerReceivesInv ==
  ASSUME SharedInv, thrown = "none", NEW w \in Workers, WorkerReceives(w)
  PROVE  SharedInv'
  <1>. DEFINE reply == Head(toWorker[w])
  <1>1. /\ Types /\ Accounted
        /\ up[w] /\ toWorker[w] # <<>>
        /\ server' = [server EXCEPT ![w][reply.key] =
                                      IF reply.ok THEN "open" ELSE "closed"]
        /\ toWorker' = [toWorker EXCEPT ![w] = Tail(@)]
        /\ UNCHANGED <<handles, open, thrown, chan, toMaster, up>>
    BY DEF SharedInv, WorkerReceives, MasterUnchanged
  <1>2. toWorker[w] \in Seq(Answers) BY <1>1 DEF Types
  <1>3. reply \in Answers /\ reply = toWorker[w][1] /\ 1 \in 1..Len(toWorker[w])
    BY <1>1, <1>2
  <1>4. reply.key \in Keys BY <1>3 DEF Answers
  <1>5. reply.ok /\ chan[w] = "open" => w \in handles[reply.key]
    BY <1>1, <1>3 DEF Accounted, Answered
  <1>. HIDE DEF reply
  <1>6. Types'
    <2>1. toWorker' \in [Workers -> Seq(Answers)] BY <1>1, <1>2 DEF Types
    <2>2. server' \in [Workers -> [Keys -> {"none", "asked", "open", "closed"}]]
      BY <1>1, <1>4 DEF Types
    <2>. QED BY <1>1, <2>1, <2>2 DEF Types
  <1>7. Open' /\ Connected' BY <1>1 DEF Accounted, Open, InUse, Connected
  <1>8. Users'
    <2>. SUFFICES ASSUME NEW v \in Workers, NEW j \in Keys, server'[v][j] = "open",
                         chan[v] = "open"
                  PROVE  v \in handles[j]
      BY <1>1 DEF Users
    <2>1. CASE v = w /\ j = reply.key
      BY <1>1, <1>4, <1>5, <2>1 DEF Types
    <2>2. CASE ~(v = w /\ j = reply.key)
      <3>1. server'[v][j] = server[v][j] BY <1>1, <1>4, <2>2 DEF Types
      <3>. QED BY <1>1, <3>1 DEF Accounted, Users
    <2>. QED BY <2>1, <2>2
  <1>9. Answered'
    <2>. SUFFICES ASSUME NEW v \in Workers, NEW i \in 1..Len(toWorker'[v]),
                         toWorker'[v][i].ok, chan[v] = "open"
                  PROVE  v \in handles[toWorker'[v][i].key]
      BY <1>1 DEF Answered
    <2>1. CASE v # w
      <3>1. toWorker'[v] = toWorker[v] BY <1>1, <2>1 DEF Types
      <3>. QED BY <1>1, <3>1 DEF Accounted, Answered
    <2>2. CASE v = w
      <3>1. toWorker'[v] = Tail(toWorker[w]) BY <1>1, <2>2 DEF Types
      <3>2. Len(toWorker'[v]) = Len(toWorker[w]) - 1 /\ Len(toWorker[w]) \in Nat
        BY <1>1, <1>2, <3>1, TailOf
      <3>3. i \in Nat /\ i >= 1 /\ i + 1 <= Len(toWorker[w]) BY <3>2
      <3>4. i + 1 \in 1..Len(toWorker[w]) BY <3>2, <3>3
      <3>5. toWorker'[v][i] = toWorker[w][i + 1] BY <1>1, <1>2, <3>1, TailOf
      <3>. QED BY <1>1, <2>2, <3>4, <3>5 DEF Accounted, Answered
    <2>. QED BY <2>1, <2>2
  <1>10. Gone'
    <2>. SUFFICES ASSUME NEW v \in Workers
                  PROVE  ~up[v] => /\ toWorker'[v] = <<>>
                                   /\ \A j \in Keys : server'[v][j] # "open"
      BY <1>1 DEF Gone
    <2>1. v # w => toWorker'[v] = toWorker[v] /\ server'[v] = server[v]
      BY <1>1 DEF Types
    <2>. QED BY <1>1, <2>1 DEF Accounted, Gone
  <1>. QED BY <1>6, <1>7, <1>8, <1>9, <1>10 DEF SharedInv, Accounted

(* A worker that leaves takes its servers and unread answers with it.      *)
LEMMA LeaveInv ==
  ASSUME SharedInv, thrown = "none", NEW w \in Workers, Leave(w)
  PROVE  SharedInv'
  <1>1. /\ Types /\ Accounted
        /\ up' = [up EXCEPT ![w] = FALSE]
        /\ server' = [server EXCEPT ![w] = [k \in Keys |-> "closed"]]
        /\ toWorker' = [toWorker EXCEPT ![w] = <<>>]
        /\ UNCHANGED <<handles, open, thrown, chan, toMaster>>
    BY DEF SharedInv, Leave, MasterUnchanged
  <1>2. /\ \A v \in Workers : v # w => /\ toWorker'[v] = toWorker[v]
                                       /\ server'[v] = server[v]
                                       /\ up'[v] = up[v]
        /\ toWorker'[w] = <<>> /\ ~up'[w]
        /\ \A k \in Keys : server'[w][k] = "closed"
    BY <1>1 DEF Types
  <1>3. Types' BY <1>1 DEF Types
  <1>4. Open' /\ Connected' BY <1>1 DEF Accounted, Open, InUse, Connected
  <1>5. Users' BY <1>1, <1>2 DEF Accounted, Users
  <1>6. Answered'
    <2>1. Len(<<>>) = 0 OBVIOUS
    <2>. QED BY <1>1, <1>2, <2>1 DEF Accounted, Answered
  <1>7. Gone' BY <1>1, <1>2 DEF Accounted, Gone
  <1>. QED BY <1>3, <1>4, <1>5, <1>6, <1>7 DEF SharedInv, Accounted

(* The master holds a shared socket exactly as long as connected workers   *)
(* were given it, and no worker listens on one that the master has closed. *)
THEOREM SharedSockets == Spec => []SocketPerUser
  <1>1. Init => SharedInv BY InitInv
  <1>2. SharedInv /\ [Next]_vars => SharedInv'
    <2>. SUFFICES ASSUME SharedInv, [Next]_vars PROVE SharedInv'
      OBVIOUS
    <2>1. CASE Next
      <3>1. thrown = "none" BY <2>1 DEF Next
      <3>2. PICK w \in Workers :
              \/ MasterReceives(w) \/ ChannelEnds(w) \/ Destroy(w)
              \/ WorkerReceives(w) \/ Leave(w)
              \/ \E k \in Keys : Listen(w, k) \/ CloseServer(w, k)
        BY <2>1 DEF Next
      <3>. QED BY <3>1, <3>2, MasterReceivesInv, OnDisconnectInv,
                  WorkerReceivesInv, LeaveInv, ListenInv
    <2>2. CASE UNCHANGED vars
      BY <2>2 DEF vars, SharedInv, Types, Accounted, Open, InUse, Connected,
                  Users, Answered, Gone
    <2>. QED BY <2>1, <2>2
  <1>3. SharedInv => SocketPerUser
    BY DEF SharedInv, Types, Accounted, SocketPerUser, Open, InUse, Connected, Users
  <1>. QED BY <1>1, <1>2, <1>3, PTL DEF Spec
=============================================================================
