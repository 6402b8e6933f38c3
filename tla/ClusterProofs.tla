--------------------------- MODULE ClusterProofs ----------------------------
(***************************************************************************)
(* What the master of lib/cluster.js keeps to, for any number of workers,  *)
(* connections and handles, and whoever leaves or fails: AcceptedOnce and  *)
(* NotForgotten always, and the whole of ConnectionsKept as long as no     *)
(* program listens again on the port that it has closed.                   *)
(***************************************************************************)
EXTENDS Cluster, FiniteSetTheorems, SequenceTheorems, WellFoundedInduction, TLAPS

-----------------------------------------------------------------------------
(* Sequences: queues, and channels that carry messages of several types.   *)

Distinct(q) == \A i, j \in DOMAIN q : q[i] = q[j] => i = j
Once(q, t)  == \A i, j \in DOMAIN q : q[i].type = t /\ q[i] = q[j] => i = j

(* A set of natural numbers that is not empty has a least member.          *)
LEMMA LeastOf ==
    ASSUME NEW S \in SUBSET Nat, S # {}
    PROVE  \E n \in S : \A k \in S : n <= k
<1>1. PICK n \in S : \A k \in S : <<k, n>> \notin OpToRel(<, Nat)
    BY NatLessThanWellFounded, WFMin
<1>2. \A k \in S : ~(k < n)
    BY <1>1 DEF OpToRel
<1> QED
    BY <1>2

(* Something is put at the end.                                            *)
LEMMA Appended ==
    ASSUME NEW T, NEW q \in Seq(T), NEW e \in T
    PROVE  LET r == Append(q, e)
           IN  /\ r \in Seq(T) /\ r # <<>> /\ ToSet(r) = ToSet(q) \cup {e}
               /\ Distinct(q) /\ e \notin ToSet(q) => Distinct(r)
               /\ \A t : Once(q, t) /\ (e.type = t => e \notin ToSet(q)) => Once(r, t)
<1> DEFINE r == Append(q, e)
<1>1. /\ r \in Seq(T) /\ Len(r) = Len(q) + 1 /\ Len(q) \in Nat /\ r[Len(q) + 1] = e
      /\ \A i \in 1 .. Len(q) : r[i] = q[i]
      /\ DOMAIN r = 1 .. Len(r) /\ DOMAIN q = 1 .. Len(q)
    OBVIOUS
<1> HIDE DEF r
<1>2. \A i \in DOMAIN r : i = Len(q) + 1 \/ i \in DOMAIN q
    BY <1>1
<1>3. DOMAIN q \subseteq DOMAIN r /\ Len(q) + 1 \in DOMAIN r
    BY <1>1
<1>4. ToSet(r) = ToSet(q) \cup {e}
    BY <1>1, <1>2, <1>3 DEF ToSet
<1>5. ASSUME Distinct(q), e \notin ToSet(q) PROVE Distinct(r)
    BY <1>1, <1>2, <1>5 DEF Distinct, ToSet
<1>6. ASSUME NEW t, Once(q, t), e.type = t => e \notin ToSet(q) PROVE Once(r, t)
    BY <1>1, <1>2, <1>6 DEF Once, ToSet
<1>7. r # <<>>
    BY <1>1
<1> QED
    BY <1>1, <1>4, <1>5, <1>6, <1>7 DEF r

(* The first is taken.                                                     *)
LEMMA Tailed ==
    ASSUME NEW T, NEW q \in Seq(T), q # <<>>
    PROVE  LET r == Tail(q) IN
           /\ r \in Seq(T) /\ Head(q) \in T /\ ToSet(q) = ToSet(r) \cup {Head(q)}
           /\ Distinct(q) => Distinct(r) /\ Head(q) \notin ToSet(r)
           /\ \A t : Once(q, t) => Once(r, t) /\ (Head(q).type = t => Head(q) \notin ToSet(r))
<1> DEFINE r == Tail(q)
<1>1. /\ r \in Seq(T) /\ Len(r) = Len(q) - 1 /\ Len(q) \in Nat \ {0} /\ Head(q) = q[1] /\ q[1] \in T
      /\ \A i \in 1 .. Len(r) : r[i] = q[i + 1]
      /\ DOMAIN r = 1 .. Len(r) /\ DOMAIN q = 1 .. Len(q)
    OBVIOUS
<1> HIDE DEF r
<1>2. \A i \in DOMAIN r : i + 1 \in DOMAIN q /\ r[i] = q[i + 1] /\ i + 1 # 1 /\ i \in Int
    BY <1>1
<1>3. ASSUME NEW k \in DOMAIN q, k # 1 PROVE \E i \in DOMAIN r : k = i + 1
  <2> DEFINE i == k - 1
  <2>1. i \in DOMAIN r /\ k = i + 1
      BY <1>1, <1>3
  <2> HIDE DEF i
  <2> QED
      BY <2>1
<1>4. 1 \in DOMAIN q
    BY <1>1
<1>5. ToSet(q) = ToSet(r) \cup {Head(q)}
  <2>1. ASSUME NEW x \in ToSet(q) PROVE x \in ToSet(r) \cup {Head(q)}
    <3>1. PICK k \in DOMAIN q : x = q[k]
        BY DEF ToSet
    <3>2. CASE k = 1
        BY <1>1, <3>1, <3>2
    <3>3. CASE k # 1
      <4>1. PICK i \in DOMAIN r : k = i + 1
          BY <1>3, <3>3
      <4>2. r[i] = x
          BY <1>2, <3>1, <4>1
      <4> QED
          BY <4>2 DEF ToSet
    <3> QED
        BY <3>2, <3>3
  <2>2. ASSUME NEW i \in DOMAIN r PROVE r[i] \in ToSet(q)
      BY <1>2 DEF ToSet
  <2>3. Head(q) \in ToSet(q)
      BY <1>1, <1>4 DEF ToSet
  <2>4. ToSet(r) \subseteq ToSet(q)
      BY <2>2 DEF ToSet
  <2> QED
      BY <2>1, <2>3, <2>4
<1>6. ASSUME Distinct(q) PROVE Distinct(r) /\ Head(q) \notin ToSet(r)
  <2>1. ASSUME NEW i \in DOMAIN r, NEW j \in DOMAIN r, r[i] = r[j] PROVE i = j
    <3>1. i + 1 = j + 1
        BY <1>2, <1>6, <2>1 DEF Distinct
    <3> QED
        BY <1>2, <3>1
  <2>2. ASSUME NEW i \in DOMAIN r PROVE r[i] # Head(q)
      BY <1>1, <1>2, <1>4, <1>6 DEF Distinct
  <2> QED
      BY <2>1, <2>2 DEF Distinct, ToSet
<1>7. ASSUME NEW t, Once(q, t) PROVE Once(r, t) /\ (Head(q).type = t => Head(q) \notin ToSet(r))
  <2>1. ASSUME NEW i \in DOMAIN r, NEW j \in DOMAIN r, r[i].type = t, r[i] = r[j] PROVE i = j
    <3>1. i + 1 = j + 1
        BY <1>2, <1>7, <2>1 DEF Once
    <3> QED
        BY <1>2, <3>1
  <2>2. ASSUME NEW i \in DOMAIN r, Head(q).type = t PROVE r[i] # Head(q)
      BY <1>1, <1>2, <1>4, <1>7, <2>2 DEF Once
  <2> QED
      BY <2>1, <2>2 DEF Once, ToSet
<1> QED
    BY <1>1, <1>5, <1>6, <1>7 DEF r

(* One that is there once is taken out.                                    *)
LEMMA FirstRemoved ==
    ASSUME NEW T, NEW q \in Seq(T), NEW e
    PROVE  LET r == RemoveFirst(q, e)
           IN  /\ r \in Seq(T)
               /\ Distinct(q) => Distinct(r) /\ ToSet(r) = ToSet(q) \ {e}
<1> DEFINE r == RemoveFirst(q, e)
<1>1. CASE \E i \in 1 .. Len(q) : q[i] = e
  <2> DEFINE I == {i \in 1 .. Len(q) : q[i] = e}
             n == Min(I)
  <2>1. n \in I
    <3>1. I \in SUBSET Nat /\ I # {}
        BY <1>1
    <3> HIDE DEF I
    <3>2. \E k \in I : \A l \in I : k <= l
        BY <3>1, LeastOf
    <3> QED
        BY <3>2 DEF Min
  <2>2. SelectInSeq(q, LAMBDA v : v = e) = n
      BY <1>1 DEF SelectInSeq
  <2>3. r = RemoveAt(q, n)
      BY <1>1, <2>2 DEF RemoveFirst
  <2>4. n \in 1 .. Len(q) /\ q[n] = e
      BY <2>1
  <2> HIDE DEF n, I, r
  <2> DEFINE a == SubSeq(q, 1, n - 1)
             b == SubSeq(q, n + 1, Len(q))
  <2>5. /\ a \in Seq(T) /\ Len(a) = n - 1 /\ DOMAIN a = 1 .. n - 1
        /\ \A i \in 1 .. n - 1 : a[i] = q[i]
      BY <2>4
  <2>6. /\ b \in Seq(T) /\ Len(b) = Len(q) - n
        /\ \A i \in 1 .. Len(q) - n : b[i] = q[i + n]
      BY <2>4
  <2>7. r = a \o b
      BY <2>3 DEF RemoveAt
  <2> HIDE DEF a, b
  <2>8. /\ r \in Seq(T) /\ Len(r) = Len(a) + Len(b)
        /\ \A i \in 1 .. Len(a) + Len(b) : r[i] = IF i <= Len(a) THEN a[i] ELSE b[i - Len(a)]
      BY <2>5, <2>6, <2>7, ConcatProperties
  <2>9. /\ Len(r) = Len(q) - 1 /\ DOMAIN r = 1 .. Len(r) /\ DOMAIN q = 1 .. Len(q) /\ n \in Nat
        /\ Len(q) \in Nat
      BY <2>4, <2>5, <2>6, <2>8
  <2>10. ASSUME NEW i \in DOMAIN r, i < n PROVE i \in DOMAIN q /\ r[i] = q[i]
    <3>1. i \in 1 .. n - 1 /\ i <= Len(a) /\ i \in 1 .. Len(a) + Len(b)
        BY <2>4, <2>5, <2>8, <2>9, <2>10
    <3> QED
        BY <2>5, <2>8, <2>9, <2>4, <3>1
  <2>11. ASSUME NEW i \in DOMAIN r, ~(i < n) PROVE i + 1 \in DOMAIN q /\ r[i] = q[i + 1]
    <3> DEFINE j == i - Len(a)
    <3>1. ~(i <= Len(a)) /\ i \in 1 .. Len(a) + Len(b)
        BY <2>4, <2>5, <2>8, <2>9, <2>11
    <3>2. r[i] = b[j]
        BY <2>8, <3>1
    <3>3. j \in 1 .. Len(q) - n /\ j + n = i + 1 /\ i + 1 \in DOMAIN q
        BY <2>4, <2>5, <2>8, <2>9, <2>11
    <3> HIDE DEF j
    <3> QED
        BY <2>6, <3>2, <3>3
  <2>12. ASSUME Distinct(q) PROVE Distinct(r) /\ ToSet(r) = ToSet(q) \ {e}
    <3>1. ASSUME NEW i \in DOMAIN r
          PROVE  \E k \in DOMAIN q :
                   k # n /\ r[i] = q[k] /\ (i < n => k = i) /\ (~(i < n) => k = i + 1)
      <4>1. CASE i < n
          BY <2>9, <2>10, <4>1
      <4>2. CASE ~(i < n)
        <5> DEFINE k == i + 1
        <5>1. k \in DOMAIN q /\ r[i] = q[k]
            BY <2>11, <4>2
        <5>2. k # n /\ k = i + 1
            BY <2>9, <4>2
        <5> HIDE DEF k
        <5> QED
            BY <4>2, <5>1, <5>2
      <4> QED
          BY <4>1, <4>2
    <3>2. ASSUME NEW i \in DOMAIN r, NEW j \in DOMAIN r, r[i] = r[j] PROVE i = j
      <4>1. PICK k \in DOMAIN q : r[i] = q[k] /\ (i < n => k = i) /\ (~(i < n) => k = i + 1)
          BY <3>1
      <4>2. PICK l \in DOMAIN q : r[j] = q[l] /\ (j < n => l = j) /\ (~(j < n) => l = j + 1)
          BY <3>1
      <4>3. k = l
          BY <2>12, <3>2, <4>1, <4>2 DEF Distinct
      <4>4. i \in Int /\ j \in Int /\ n \in Int
          BY <2>9
      <4> QED
          BY <4>1, <4>2, <4>3, <4>4
    <3>3. ASSUME NEW i \in DOMAIN r PROVE r[i] \in ToSet(q) \ {e}
      <4>1. PICK k \in DOMAIN q : r[i] = q[k] /\ k # n
          BY <3>1
      <4>2. q[k] # e
          BY <2>4, <2>9, <2>12, <4>1 DEF Distinct
      <4> QED
          BY <4>1, <4>2 DEF ToSet
    <3>4. ASSUME NEW k \in DOMAIN q, q[k] # e PROVE q[k] \in ToSet(r)
      <4>1. CASE k < n
        <5>1. k \in DOMAIN r
            BY <2>4, <2>9, <4>1
        <5> QED
            BY <2>10, <4>1, <5>1 DEF ToSet
      <4>2. CASE ~(k < n)
        <5> DEFINE i == k - 1
        <5>1. k # n
            BY <2>4, <3>4
        <5>2. i \in DOMAIN r /\ ~(i < n) /\ i + 1 = k
            BY <2>4, <2>9, <4>2, <5>1
        <5> HIDE DEF i
        <5>3. r[i] = q[k]
            BY <2>11, <5>2
        <5> QED
            BY <5>2, <5>3 DEF ToSet
      <4> QED
          BY <4>1, <4>2
    <3> QED
        BY <3>2, <3>3, <3>4 DEF Distinct, ToSet
  <2> QED
      BY <2>8, <2>12 DEF r
<1>2. CASE ~ \E i \in 1 .. Len(q) : q[i] = e
    BY <1>2 DEF RemoveFirst, ToSet
<1> QED
    BY <1>1, <1>2

-----------------------------------------------------------------------------
(* The inductive invariant: of the master as one record, a machine, and of *)
(* what the workers have sent (tm), serve (sg) and asked for (sv).         *)

Robin    == [state : {"unused", "binding", "bound", "failed", "closed"}, all : SUBSET Workers,
             free : Seq(Workers), handles : Seq(Conns), waiting : Seq(Workers)]
Callback == [worker : Workers, object : Objects, conn : Conns]
ToWorker == [type : {"reply"}, ok : BOOLEAN] \cup [type : {"disconnect"}]
            \cup [type : {"newconn"}, object : Objects, conn : Conns]
ToMaster == [type : {"query", "close"}]
            \cup [type : {"ack"}, object : Objects, conn : Conns, accepted : BOOLEAN]
Machine  == [workers : SUBSET Workers, handle : Objects \cup {NoObject}, rr : [Objects -> Robin],
             closed : SUBSET Conns, callbacks : SUBSET Callback, whenGone : {"none", "waits", "alone", "called"},
             thrown : BOOLEAN, chan : [Workers -> {"none", "open", "closed"}],
             toWorker : [Workers -> Seq(ToWorker)]]
Sides    == /\ toMaster \in [Workers -> Seq(ToMaster)] /\ up \in [Workers -> BOOLEAN]
            /\ server \in [Workers -> {"none", "asked", "open", "was"}]
            /\ serving \in [Workers -> SUBSET Conns]

Query           == [type |-> "query"]
CallTo(w, h, c) == [worker |-> w, object |-> h, conn |-> c]
Queued(m, h)    == ToSet(m.rr[h].handles)
Told(m, w)      == ToSet(m.toWorker[w])

(* The master has a connection in one place: queued once in one handle,    *)
(* sent to one worker that has not answered, or closed.                    *)
Placed(m) ==
    /\ \A h \in Objects : Distinct(m.rr[h].handles)
    /\ \A g, h \in Objects : \A c \in Conns : c \in Queued(m, g) /\ c \in Queued(m, h) => g = h
    /\ \A k, l \in m.callbacks : k.conn = l.conn => k = l
    /\ \A k \in m.callbacks : k.conn \notin m.closed /\ \A h \in Objects : k.conn \notin Queued(m, h)
    /\ \A h \in Objects : \A c \in Queued(m, h) : c \notin m.closed

(* What is on its way is a question without or with its answer, and the    *)
(* master remembers the question.                                          *)
Asked(m, tm, w, h, c) ==
    /\ NewConn(h, c) \in Told(m, w) =>
         CallTo(w, h, c) \in m.callbacks /\ \A a \in BOOLEAN : Ack(h, c, a) \notin ToSet(tm[w])
    /\ \A a \in BOOLEAN : Ack(h, c, a) \in ToSet(tm[w]) =>
         CallTo(w, h, c) \in m.callbacks /\ Ack(h, c, ~a) \notin ToSet(tm[w])
Answers(m, tm) ==
    /\ \A w \in Workers : Once(m.toWorker[w], "newconn") /\ Once(tm[w], "ack")
    /\ \A w \in Workers, h \in Objects, c \in Conns : Asked(m, tm, w, h, c)

(* A connection that a worker serves will not be given to another.         *)
Taken(m, tm, sg, w, c) ==
    /\ c \in m.closed \/ \E k \in m.callbacks : k.worker = w /\ k.conn = c
    /\ \A h \in Objects : NewConn(h, c) \notin Told(m, w) /\ Ack(h, c, FALSE) \notin ToSet(tm[w])
    /\ \A v \in Workers : c \in sg[v] => v = w
Served(m, tm, sg) == \A w \in Workers : \A c \in sg[w] : Taken(m, tm, sg, w, c)

Sound(m, tm, sg) == m \in Machine /\ Placed(m) /\ Answers(m, tm) /\ Served(m, tm, sg)

(* The table's handle is that of workers that are connected, and only one  *)
(* worker waits for it to be bound.                                        *)
Linked(m) ==
    ~m.thrown =>
      /\ \A w \in m.workers : m.chan[w] = "open"
      /\ m.handle # NoObject =>
           /\ m.rr[m.handle].state \in {"binding", "bound"} /\ m.rr[m.handle].all # {}
           /\ \A w \in m.rr[m.handle].all : m.chan[w] = "open"
      /\ \A h \in Objects :
           /\ m.rr[h].state = "binding" => h = m.handle /\ \E w \in Workers : m.rr[h].waiting = <<w>> /\ m.rr[h].all = {w}
           /\ m.rr[h].state # "binding" => m.rr[h].waiting = <<>>
           /\ m.rr[h].state = "unused" => m.rr[h].all = {}
      /\ m.whenGone = "waits" => \E w \in Workers : m.chan[w] = "open"

MasterInv == Sides /\ Sound(Here, toMaster, serving) /\ Linked(Here)

-----------------------------------------------------------------------------
(* The functions of the source keep a machine sound.                       *)

(* One RoundRobinHandle changes.                                           *)
LEMMA Updated ==
    ASSUME NEW m \in Machine, NEW h \in Objects, NEW x \in Robin, NEW r, r = [m EXCEPT !.rr[h] = x]
    PROVE  /\ r \in Machine /\ r.rr[h] = x /\ \A g \in Objects \ {h} : r.rr[g] = m.rr[g]
           /\ r.workers = m.workers /\ r.handle = m.handle /\ r.closed = m.closed /\ r.callbacks = m.callbacks
           /\ r.whenGone = m.whenGone /\ r.thrown = m.thrown /\ r.chan = m.chan /\ r.toWorker = m.toWorker
BY DEF Machine

(* What stays sound: the connections are where they were, and no worker is *)
(* sent another.                                                           *)
Settled(r, m) ==
    /\ r \in Machine /\ r.closed = m.closed /\ r.callbacks = m.callbacks
    /\ \A h \in Objects : r.rr[h].handles = m.rr[h].handles
    /\ \A w \in Workers :
         /\ Once(r.toWorker[w], "newconn")
         /\ \A h \in Objects, c \in Conns : NewConn(h, c) \in Told(r, w) => NewConn(h, c) \in Told(m, w)

(* The workers serve and have answered no more than before.                *)
NoMore(tn, sn, tm, sg) ==
    \A w \in Workers :
      /\ Once(tn[w], "ack") /\ sn[w] \subseteq sg[w]
      /\ \A h \in Objects, c \in Conns, a \in BOOLEAN : Ack(h, c, a) \in ToSet(tn[w]) => Ack(h, c, a) \in ToSet(tm[w])

LEMMA QuietSound ==
    ASSUME NEW m, NEW tm, NEW sg, Sound(m, tm, sg), sg \in [Workers -> SUBSET Conns], NEW r, Settled(r, m),
           NEW tn, NEW sn, NoMore(tn, sn, tm, sg)
    PROVE  Sound(r, tn, sn)
<1>1. Placed(r)
    BY DEF Sound, Placed, Settled, Queued
<1>2. ASSUME NEW w \in Workers, NEW h \in Objects, NEW c \in Conns PROVE Asked(r, tn, w, h, c)
  <2>1. Asked(m, tm, w, h, c) /\ r.callbacks = m.callbacks /\ (NewConn(h, c) \in Told(r, w) => NewConn(h, c) \in Told(m, w))
      BY DEF Sound, Answers, Settled
  <2>2. \A a \in BOOLEAN : Ack(h, c, a) \in ToSet(tn[w]) => Ack(h, c, a) \in ToSet(tm[w])
      BY DEF NoMore
  <2> QED
      BY <2>1, <2>2 DEF Asked
<1>3. Answers(r, tn)
    BY <1>2 DEF NoMore, Answers, Settled
<1>4. ASSUME NEW w \in Workers, NEW c \in sn[w] PROVE Taken(r, tn, sn, w, c)
  <2>1. c \in Conns /\ Taken(m, tm, sg, w, c) /\ \A v \in Workers : sn[v] \subseteq sg[v]
      BY DEF Sound, Served, NoMore
  <2>2. \A h \in Objects : /\ NewConn(h, c) \in Told(r, w) => NewConn(h, c) \in Told(m, w)
                           /\ Ack(h, c, FALSE) \in ToSet(tn[w]) => Ack(h, c, FALSE) \in ToSet(tm[w])
      BY <2>1 DEF Settled, NoMore
  <2>3. r.callbacks = m.callbacks /\ r.closed = m.closed
      BY DEF Settled
  <2> QED
      BY <2>1, <2>2, <2>3 DEF Taken
<1>5. Served(r, tn, sn)
    BY <1>4 DEF Served
<1> QED
    BY <1>1, <1>3, <1>5 DEF Sound, Settled

LEMMA SettledSound ==
    ASSUME NEW m, NEW tm, NEW sg, Sound(m, tm, sg), sg \in [Workers -> SUBSET Conns], NEW r, Settled(r, m)
    PROVE  Sound(r, tm, sg)
<1>1. NoMore(tm, sg, tm, sg)
    BY DEF NoMore, Sound, Answers
<1> QED
    BY <1>1, QuietSound

LEMMA SettledSelf ==
    ASSUME NEW m, NEW tm, NEW sg, Sound(m, tm, sg) PROVE Settled(m, m)
BY DEF Settled, Sound, Answers
(* What stays linked: only the queues of the handles change.               *)
SameLinks(r, m) ==
    /\ r.workers = m.workers /\ r.handle = m.handle /\ r.whenGone = m.whenGone /\ r.chan = m.chan
    /\ m.thrown => r.thrown
    /\ \A h \in Objects : /\ r.rr[h].state = m.rr[h].state /\ r.rr[h].all = m.rr[h].all
                          /\ r.rr[h].waiting = m.rr[h].waiting

LEMMA SameLinksTransitive ==
    ASSUME NEW m, NEW n, NEW r, SameLinks(n, m), SameLinks(r, n) PROVE SameLinks(r, m)
BY DEF SameLinks

LEMMA StillLinked ==
    ASSUME NEW m \in Machine, NEW r, Linked(m), SameLinks(r, m) PROVE Linked(r)
<1> SUFFICES ASSUME ~r.thrown PROVE Linked(r)
    BY DEF Linked
<1>1. ~m.thrown /\ m.handle \in Objects \cup {NoObject}
    BY DEF SameLinks, Machine
<1> QED
    BY <1>1 DEF Linked, SameLinks

(* Only the channels to the workers change.                                *)
LEMMA ChannelsChange ==
    ASSUME NEW m \in Machine, NEW a \in [Workers -> Seq(ToWorker)], NEW r, r = [m EXCEPT !.toWorker = a]
    PROVE  /\ r \in Machine /\ r.closed = m.closed /\ r.callbacks = m.callbacks /\ r.rr = m.rr
           /\ r.toWorker = a /\ r.workers = m.workers /\ r.handle = m.handle
           /\ r.whenGone = m.whenGone /\ r.chan = m.chan /\ r.thrown = m.thrown
BY DEF Machine

(* Anything but a connection is sent.                                      *)
LEMMA SendQuiet ==
    ASSUME up \in [Workers -> BOOLEAN],
           NEW m \in Machine, \A v \in Workers : Once(m.toWorker[v], "newconn"),
           NEW w \in Workers, NEW x \in ToWorker, x.type # "newconn", NEW r, r = Send(m, w, x)
    PROVE  Settled(r, m) /\ SameLinks(r, m) /\ r.rr = m.rr
<1>1. CASE r = m
    BY <1>1 DEF Settled, SameLinks
<1>2. CASE r = [m EXCEPT !.thrown = TRUE]
  <2>1. /\ r \in Machine /\ r.closed = m.closed /\ r.callbacks = m.callbacks /\ r.rr = m.rr
        /\ r.toWorker = m.toWorker /\ r.workers = m.workers /\ r.handle = m.handle
        /\ r.whenGone = m.whenGone /\ r.chan = m.chan /\ r.thrown
      BY <1>2 DEF Machine
  <2> QED
      BY <2>1 DEF Settled, SameLinks, Told
<1>3. CASE r = [m EXCEPT !.toWorker[w] = Append(@, x)]
  <2> DEFINE q == m.toWorker[w]
             a == Append(q, x)
  <2>1. q \in Seq(ToWorker) /\ Once(q, "newconn")
      BY DEF Machine
  <2>2. /\ a \in Seq(ToWorker) /\ ToSet(a) = ToSet(q) \cup {x} /\ Once(a, "newconn")
      BY <2>1, Appended
  <2> DEFINE b == [m.toWorker EXCEPT ![w] = a]
  <2>3. r = [m EXCEPT !.toWorker = b]
      BY <1>3 DEF Machine
  <2> HIDE DEF a
  <2>4. b \in [Workers -> Seq(ToWorker)] /\ b[w] = a /\ \A v \in Workers \ {w} : b[v] = m.toWorker[v]
      BY <2>2 DEF Machine
  <2> HIDE DEF b
  <2>5. /\ r \in Machine /\ r.closed = m.closed /\ r.callbacks = m.callbacks /\ r.rr = m.rr
        /\ r.toWorker[w] = a /\ (\A v \in Workers \ {w} : r.toWorker[v] = m.toWorker[v])
        /\ r.workers = m.workers /\ r.handle = m.handle
        /\ r.whenGone = m.whenGone /\ r.chan = m.chan /\ r.thrown = m.thrown
      BY <2>3, <2>4, ChannelsChange
  <2>6. \A h, c : NewConn(h, c) # x
      BY DEF NewConn
  <2> QED
      BY <2>2, <2>5, <2>6 DEF Settled, SameLinks, Told
<1> QED
    BY <1>1, <1>2, <1>3 DEF Send

(* One message to several workers.                                         *)
LEMMA SendAllQuiet ==
    ASSUME up \in [Workers -> BOOLEAN],
           NEW m \in Machine, \A v \in Workers : Once(m.toWorker[v], "newconn"),
           NEW W, NEW x \in ToWorker, x.type # "newconn", NEW r, r = SendAll(m, W, x)
    PROVE  Settled(r, m) /\ SameLinks(r, m) /\ r.rr = m.rr
<1>1. CASE r = [m EXCEPT !.thrown = TRUE]
  <2>1. /\ r \in Machine /\ r.closed = m.closed /\ r.callbacks = m.callbacks /\ r.rr = m.rr
        /\ r.toWorker = m.toWorker /\ r.workers = m.workers /\ r.handle = m.handle
        /\ r.whenGone = m.whenGone /\ r.chan = m.chan /\ r.thrown
      BY <1>1 DEF Machine
  <2> QED
      BY <2>1 DEF Settled, SameLinks, Told
<1>2. CASE r # [m EXCEPT !.thrown = TRUE]
  <2> DEFINE a == [v \in Workers |-> IF v \in W /\ up[v] THEN Append(m.toWorker[v], x) ELSE m.toWorker[v]]
  <2>1. r = [m EXCEPT !.toWorker = a]
      BY <1>2 DEF SendAll
  <2>2. ASSUME NEW v \in Workers
        PROVE  /\ a[v] \in Seq(ToWorker) /\ Once(a[v], "newconn")
               /\ ToSet(a[v]) \subseteq ToSet(m.toWorker[v]) \cup {x}
    <3>1. m.toWorker[v] \in Seq(ToWorker) /\ Once(m.toWorker[v], "newconn")
        BY DEF Machine
    <3>2. LET q == Append(m.toWorker[v], x)
          IN  q \in Seq(ToWorker) /\ Once(q, "newconn") /\ ToSet(q) = ToSet(m.toWorker[v]) \cup {x}
        BY <3>1, Appended
    <3>3. a[v] = Append(m.toWorker[v], x) \/ a[v] = m.toWorker[v]
        OBVIOUS
    <3> HIDE DEF a
    <3> QED
        BY <3>1, <3>2, <3>3
  <2>3. a \in [Workers -> Seq(ToWorker)]
      BY <2>2
  <2> HIDE DEF a
  <2>4. /\ r \in Machine /\ r.closed = m.closed /\ r.callbacks = m.callbacks /\ r.rr = m.rr
        /\ r.toWorker = a /\ r.workers = m.workers /\ r.handle = m.handle
        /\ r.whenGone = m.whenGone /\ r.chan = m.chan /\ r.thrown = m.thrown
      BY <2>1, <2>3, ChannelsChange
  <2>5. \A h, c : NewConn(h, c) # x
      BY DEF NewConn
  <2> QED
      BY <2>2, <2>4, <2>5 DEF Settled, SameLinks, Told
<1> QED
    BY <1>1, <1>2

(* A connection leaves its queue for a worker ...                          *)
Give(m, h, w, c) == [m EXCEPT !.rr[h].handles = Tail(@), !.callbacks = @ \cup {CallTo(w, h, c)}]
LEMMA Given ==
    ASSUME NEW m, NEW tm, NEW sg, Sound(m, tm, sg), sg \in [Workers -> SUBSET Conns],
           NEW h \in Objects, NEW w \in Workers, m.rr[h].handles # <<>>, NEW c, c = Head(m.rr[h].handles),
           NEW n, n = Give(m, h, w, c)
    PROVE  /\ Sound(n, tm, sg) /\ SameLinks(n, m) /\ c \in Conns
           /\ n.rr = [m.rr EXCEPT ![h].handles = Tail(@)] /\ n.chan = m.chan
           /\ n.callbacks = m.callbacks \cup {CallTo(w, h, c)}
           /\ NewConn(h, c) \notin Told(n, w) /\ \A v \in Workers : c \notin sg[v]
           /\ \A a \in BOOLEAN : Ack(h, c, a) \notin ToSet(tm[w])
<1> DEFINE q == m.rr[h].handles
           x == [m.rr[h] EXCEPT !.handles = Tail(q)]
           n1 == [m EXCEPT !.rr[h] = x]
           k == CallTo(w, h, c)
<1>1. m \in Machine /\ q \in Seq(Conns) /\ q # <<>> /\ Distinct(q) /\ m.rr[h] \in Robin
    BY DEF Sound, Machine, Robin, Placed
<1>2. /\ Tail(q) \in Seq(Conns) /\ c \in Conns /\ ToSet(q) = ToSet(Tail(q)) \cup {c}
      /\ Distinct(Tail(q)) /\ c \notin ToSet(Tail(q))
    BY <1>1, Tailed
<1>3. x \in Robin /\ x.handles = Tail(q) /\ x.state = m.rr[h].state /\ x.all = m.rr[h].all
      /\ x.waiting = m.rr[h].waiting /\ x.free = m.rr[h].free
    BY <1>1, <1>2 DEF Robin
<1>4. n = [n1 EXCEPT !.callbacks = @ \cup {k}]
    BY DEF Sound, Machine, Give
<1> HIDE DEF x
<1>5. /\ n1 \in Machine /\ n1.rr[h] = x /\ \A g \in Objects \ {h} : n1.rr[g] = m.rr[g]
      /\ n1.workers = m.workers /\ n1.handle = m.handle /\ n1.closed = m.closed /\ n1.callbacks = m.callbacks
      /\ n1.whenGone = m.whenGone /\ n1.thrown = m.thrown /\ n1.chan = m.chan /\ n1.toWorker = m.toWorker
    BY <1>1, <1>3, Updated
<1>6. n1.rr = [m.rr EXCEPT ![h].handles = Tail(@)]
    BY <1>1 DEF x, Machine
<1> HIDE DEF n1
<1>7. k \in Callback /\ k.worker = w /\ k.conn = c
    BY <1>2 DEF CallTo, Callback
<1> DEFINE K == m.callbacks \cup {k}
<1>19. K \in SUBSET Callback /\ n = [n1 EXCEPT !.callbacks = K]
    BY <1>1, <1>4, <1>5, <1>7 DEF Machine
<1>20. k \in K /\ K = m.callbacks \cup {k}
    OBVIOUS
<1> HIDE DEF K
<1>8. /\ n \in Machine /\ n.rr = n1.rr /\ n.callbacks = m.callbacks \cup {k}
      /\ n.workers = m.workers /\ n.handle = m.handle /\ n.closed = m.closed
      /\ n.whenGone = m.whenGone /\ n.thrown = m.thrown /\ n.chan = m.chan /\ n.toWorker = m.toWorker
  <2>1. n1 \in Machine
      BY <1>5
  <2>2. /\ n \in Machine /\ n.closed = n1.closed /\ n.callbacks = K /\ n.rr = n1.rr
        /\ n.toWorker = n1.toWorker /\ n.workers = n1.workers /\ n.handle = n1.handle
        /\ n.whenGone = n1.whenGone /\ n.chan = n1.chan /\ n.thrown = n1.thrown
    <3>1. K \in SUBSET Callback /\ n = [n1 EXCEPT !.callbacks = K]
        BY <1>19
    <3>2. n \in Machine
        BY <2>1, <3>1 DEF Machine
    <3> QED
        BY <2>1, <3>1, <3>2 DEF Machine
  <2> QED
      BY <1>5, <1>20, <2>2
<1> HIDE DEF q
<1>9. /\ Queued(n, h) = Queued(m, h) \ {c} /\ \A g \in Objects \ {h} : Queued(n, g) = Queued(m, g)
      /\ c \in Queued(m, h)
    BY <1>2, <1>3, <1>5, <1>8 DEF Queued, q
<1>10. /\ \A l \in m.callbacks : l.conn # c
       /\ c \notin m.closed /\ \A g \in Objects \ {h} : c \notin Queued(m, g)
    BY <1>2, <1>9 DEF Sound, Placed
<1> HIDE DEF k
<1>11. Placed(n)
  <2>1. \A g \in Objects : Distinct(n.rr[g].handles)
      BY <1>2, <1>3, <1>5, <1>8 DEF Sound, Placed
  <2>2. \A g, f \in Objects : \A d \in Conns : d \in Queued(n, g) /\ d \in Queued(n, f) => g = f
      BY <1>9 DEF Sound, Placed
  <2>3. \A l, j \in n.callbacks : l.conn = j.conn => l = j
      BY <1>7, <1>8, <1>10 DEF Sound, Placed
  <2>4. \A l \in n.callbacks : l.conn \notin n.closed /\ \A g \in Objects : l.conn \notin Queued(n, g)
      BY <1>7, <1>8, <1>9, <1>10 DEF Sound, Placed
  <2>5. \A g \in Objects : \A d \in Queued(n, g) : d \notin n.closed
      BY <1>8, <1>9 DEF Sound, Placed
  <2> QED
      BY <2>1, <2>2, <2>3, <2>4, <2>5 DEF Placed
<1>12. Answers(n, tm)
    BY <1>8 DEF Sound, Answers, Asked, Told
<1>13. Served(n, tm, sg)
  <2>1. ASSUME NEW v \in Workers, NEW d \in sg[v] PROVE Taken(n, tm, sg, v, d)
    <3>1. Taken(m, tm, sg, v, d)
        BY DEF Sound, Served
    <3> QED
        BY <1>8, <3>1 DEF Taken, Told
  <2> QED
      BY <2>1 DEF Served
<1>14. Asked(m, tm, w, h, c)
    BY <1>2 DEF Sound, Answers
<1>15. k \notin m.callbacks
    BY <1>7, <1>10
<1>16. NewConn(h, c) \notin Told(n, w) /\ \A a \in BOOLEAN : Ack(h, c, a) \notin ToSet(tm[w])
  <2>1. CallTo(w, h, c) \notin m.callbacks
      BY <1>15 DEF k
  <2> QED
      BY <1>8, <1>14, <2>1 DEF Asked, Told
<1>17. ASSUME NEW v \in Workers PROVE c \notin sg[v]
  <2>1. c \in sg[v] => Taken(m, tm, sg, v, c)
      BY DEF Sound, Served
  <2> QED
      BY <1>10, <2>1 DEF Taken
<1>18. SameLinks(n, m)
    BY <1>3, <1>5, <1>8 DEF SameLinks
<1> QED
    BY <1>2, <1>6, <1>8, <1>11, <1>12, <1>13, <1>16, <1>17, <1>18 DEF Sound, k

(* ... and is sent to it.                                                  *)
LEMMA Sent ==
    ASSUME up \in [Workers -> BOOLEAN],
           NEW m, NEW tm, NEW sg, Sound(m, tm, sg), sg \in [Workers -> SUBSET Conns],
           NEW h \in Objects, NEW w \in Workers, NEW c \in Conns, CallTo(w, h, c) \in m.callbacks,
           NewConn(h, c) \notin Told(m, w), \A v \in Workers : c \notin sg[v],
           \A a \in BOOLEAN : Ack(h, c, a) \notin ToSet(tm[w]),
           NEW r, r = Send(m, w, NewConn(h, c))
    PROVE  /\ Sound(r, tm, sg) /\ SameLinks(r, m)
           /\ r.rr = m.rr /\ r.callbacks = m.callbacks /\ r.chan = m.chan
<1>1. m \in Machine
    BY DEF Sound
<1>2. CASE r = m
    BY <1>2 DEF SameLinks
<1>3. CASE r = [m EXCEPT !.thrown = TRUE]
  <2>1. /\ r \in Machine /\ r.closed = m.closed /\ r.callbacks = m.callbacks /\ r.rr = m.rr
        /\ r.toWorker = m.toWorker /\ r.workers = m.workers /\ r.handle = m.handle
        /\ r.whenGone = m.whenGone /\ r.chan = m.chan /\ r.thrown
      BY <1>1, <1>3 DEF Machine
  <2>2. Settled(r, m)
      BY <2>1 DEF Settled, Told, Sound, Answers
  <2> QED
      BY <2>1, <2>2, SettledSound DEF SameLinks
<1>4. CASE r = [m EXCEPT !.toWorker[w] = Append(@, NewConn(h, c))]
  <2> DEFINE x == NewConn(h, c)
             q == m.toWorker[w]
             a == Append(q, x)
             b == [m.toWorker EXCEPT ![w] = a]
  <2>1. q \in Seq(ToWorker) /\ Once(q, "newconn") /\ x \in ToWorker /\ x \notin ToSet(q)
      BY <1>1 DEF Machine, Sound, Answers, Told, NewConn, ToWorker
  <2>2. a \in Seq(ToWorker) /\ ToSet(a) = ToSet(q) \cup {x} /\ Once(a, "newconn")
      BY <2>1, Appended
  <2>3. r = [m EXCEPT !.toWorker = b]
      BY <1>1, <1>4 DEF Machine
  <2> HIDE DEF a
  <2>4. b \in [Workers -> Seq(ToWorker)] /\ b[w] = a /\ \A v \in Workers \ {w} : b[v] = m.toWorker[v]
      BY <1>1, <2>2 DEF Machine
  <2> HIDE DEF b
  <2>5. /\ r \in Machine /\ r.closed = m.closed /\ r.callbacks = m.callbacks /\ r.rr = m.rr
        /\ r.toWorker = b /\ r.workers = m.workers /\ r.handle = m.handle
        /\ r.whenGone = m.whenGone /\ r.chan = m.chan /\ r.thrown = m.thrown
      BY <1>1, <2>3, <2>4, ChannelsChange
  <2>6. Told(r, w) = Told(m, w) \cup {x} /\ \A v \in Workers \ {w} : Told(r, v) = Told(m, v)
      BY <2>2, <2>4, <2>5 DEF Told
  <2>7. \A g \in Objects, d \in Conns : NewConn(g, d) = x => g = h /\ d = c
      BY DEF NewConn
  <2> HIDE DEF x, q
  <2>8. Placed(r)
      BY <2>5 DEF Sound, Placed, Queued
  <2>9. ASSUME NEW v \in Workers, NEW g \in Objects, NEW d \in Conns PROVE Asked(r, tm, v, g, d)
    <3>1. Asked(m, tm, v, g, d)
        BY DEF Sound, Answers
    <3>2. NewConn(g, d) \in Told(r, v) => NewConn(g, d) \in Told(m, v) \/ (v = w /\ g = h /\ d = c)
        BY <2>6, <2>7
    <3> QED
        BY <2>5, <3>1, <3>2 DEF Asked
  <2>10. Answers(r, tm)
      BY <2>2, <2>4, <2>5, <2>9 DEF Sound, Answers
  <2>11. ASSUME NEW v \in Workers, NEW d \in sg[v] PROVE Taken(r, tm, sg, v, d)
    <3>1. Taken(m, tm, sg, v, d) /\ d # c /\ d \in Conns
        BY DEF Sound, Served
    <3>2. \A g \in Objects : NewConn(g, d) \in Told(r, v) => NewConn(g, d) \in Told(m, v)
        BY <2>6, <2>7, <3>1
    <3> QED
        BY <2>5, <3>1, <3>2 DEF Taken
  <2>12. Served(r, tm, sg)
      BY <2>11 DEF Served
  <2> QED
      BY <2>5, <2>8, <2>10, <2>12 DEF Sound, SameLinks
<1> QED
    BY <1>2, <1>3, <1>4 DEF Send


(* What handoff() does: nothing, or the worker is free, or it is given the *)
(* first connection.                                                       *)
SameQueues(r, m, g) == r.rr[g].handles = m.rr[g].handles /\ r.rr[g].free = m.rr[g].free
HandedOver(r, m, h, w) ==
    /\ SameLinks(r, m) /\ \A g \in Objects \ {h} : SameQueues(r, m, g)
    /\ \/ /\ m.thrown \/ w \notin m.rr[h].all
          /\ SameQueues(r, m, h) /\ r.callbacks = m.callbacks
       \/ /\ ~m.thrown /\ w \in m.rr[h].all /\ m.rr[h].handles = <<>>
          /\ r.rr[h].handles = <<>> /\ r.rr[h].free = Append(m.rr[h].free, w)
          /\ r.callbacks = m.callbacks
       \/ /\ ~m.thrown /\ w \in m.rr[h].all /\ m.rr[h].handles # <<>>
          /\ r.rr[h].handles = Tail(m.rr[h].handles) /\ r.rr[h].free = m.rr[h].free
          /\ r.callbacks = m.callbacks \cup {CallTo(w, h, Head(m.rr[h].handles))}

LEMMA HandoffSound ==
    ASSUME up \in [Workers -> BOOLEAN],
           NEW m, NEW tm, NEW sg, Sound(m, tm, sg), sg \in [Workers -> SUBSET Conns],
           NEW h \in Objects, NEW w \in Workers, NEW r, r = Handoff(m, h, w)
    PROVE  Sound(r, tm, sg) /\ HandedOver(r, m, h, w)
<1>1. m \in Machine /\ m.rr[h] \in Robin /\ m.rr[h].free \in Seq(Workers) /\ m.rr[h].handles \in Seq(Conns)
    BY DEF Sound, Machine, Robin
<1>2. CASE m.thrown \/ w \notin m.rr[h].all
  <2>1. r = m
      BY <1>2 DEF Handoff
  <2> QED
      BY <1>2, <2>1 DEF HandedOver, SameLinks, SameQueues
<1>3. CASE ~(m.thrown \/ w \notin m.rr[h].all) /\ m.rr[h].handles = <<>>
  <2> DEFINE f == Append(m.rr[h].free, w)
             x == [m.rr[h] EXCEPT !.free = f]
  <2>1. r = [m EXCEPT !.rr[h] = x]
      BY <1>1, <1>3 DEF Handoff, Machine
  <2>2. f \in Seq(Workers)
      BY <1>1
  <2> HIDE DEF f
  <2>3. /\ x \in Robin /\ x.free = f /\ x.handles = m.rr[h].handles /\ x.state = m.rr[h].state
        /\ x.all = m.rr[h].all /\ x.waiting = m.rr[h].waiting
      BY <1>1, <2>2 DEF Robin
  <2> HIDE DEF x
  <2>4. /\ r \in Machine /\ r.rr[h] = x /\ \A g \in Objects \ {h} : r.rr[g] = m.rr[g]
        /\ r.workers = m.workers /\ r.handle = m.handle /\ r.closed = m.closed /\ r.callbacks = m.callbacks
        /\ r.whenGone = m.whenGone /\ r.thrown = m.thrown /\ r.chan = m.chan /\ r.toWorker = m.toWorker
      BY <1>1, <2>1, <2>3, Updated
  <2>5. Settled(r, m)
      BY <2>3, <2>4 DEF Settled, Told, Sound, Answers
  <2>6. Sound(r, tm, sg)
      BY <2>5, SettledSound
  <2>7. SameLinks(r, m)
      BY <2>3, <2>4 DEF SameLinks
  <2>8. \A g \in Objects \ {h} : SameQueues(r, m, g)
      BY <2>4 DEF SameQueues
  <2>9. r.rr[h].handles = <<>> /\ r.rr[h].free = f /\ r.callbacks = m.callbacks
      BY <1>3, <2>3, <2>4
  <2> QED
      BY <1>3, <2>6, <2>7, <2>8, <2>9 DEF HandedOver, f
<1>4. CASE ~(m.thrown \/ w \notin m.rr[h].all) /\ m.rr[h].handles # <<>>
  <2> DEFINE c == Head(m.rr[h].handles)
             n == Give(m, h, w, c)
  <2>1. r = Send(n, w, NewConn(h, c))
      BY <1>4 DEF Handoff, CallTo, Give
  <2>2. c = Head(m.rr[h].handles) /\ n = Give(m, h, w, c)
      OBVIOUS
  <2> HIDE DEF c, n
  <2>3. /\ Sound(n, tm, sg) /\ SameLinks(n, m) /\ c \in Conns
        /\ n.rr = [m.rr EXCEPT ![h].handles = Tail(@)] /\ n.chan = m.chan
        /\ n.callbacks = m.callbacks \cup {CallTo(w, h, c)}
        /\ NewConn(h, c) \notin Told(n, w) /\ \A v \in Workers : c \notin sg[v]
        /\ \A a \in BOOLEAN : Ack(h, c, a) \notin ToSet(tm[w])
      BY <1>4, <2>2, Given
  <2>4. /\ Sound(r, tm, sg) /\ SameLinks(r, n)
        /\ r.rr = n.rr /\ r.callbacks = n.callbacks /\ r.chan = n.chan
    <3>1. CallTo(w, h, c) \in n.callbacks
        BY <2>3
    <3> QED
        BY <2>1, <2>3, <3>1, Sent
  <2>5. SameLinks(r, m)
      BY <2>3, <2>4, SameLinksTransitive
  <2>6. /\ r.rr[h].handles = Tail(m.rr[h].handles) /\ r.rr[h].free = m.rr[h].free
        /\ \A g \in Objects \ {h} : r.rr[g] = m.rr[g]
      BY <1>1, <2>3, <2>4 DEF Machine, Robin
  <2>7. \A g \in Objects \ {h} : SameQueues(r, m, g)
      BY <2>6 DEF SameQueues
  <2>8. r.callbacks = m.callbacks \cup {CallTo(w, h, Head(m.rr[h].handles))}
      BY <2>2, <2>3, <2>4
  <2> QED
      BY <1>4, <2>4, <2>5, <2>6, <2>7, <2>8 DEF HandedOver
<1> QED
    BY <1>2, <1>3, <1>4

(* Nobody but the caller knows of the connection.                          *)
Fresh(m, sg, c) ==
    /\ c \notin m.closed /\ (\A k \in m.callbacks : k.conn # c)
    /\ \A h \in Objects : c \notin Queued(m, h)
    /\ \A w \in Workers : c \notin sg[w]

(* What distribute() does: the connection is queued, and the first free    *)
(* worker, if there is one, is given the first in the queue.               *)
QueuedAs(n, m, h, f, c) ==
    /\ SameLinks(n, m) /\ n.callbacks = m.callbacks /\ n.thrown = m.thrown
    /\ \A g \in Objects \ {h} : SameQueues(n, m, g)
    /\ n.rr[h].handles = Append(m.rr[h].handles, c) /\ n.rr[h].free = f
Distributed(r, m, h, c) ==
    \/ m.rr[h].free = <<>> /\ QueuedAs(r, m, h, <<>>, c)
    \/ /\ m.rr[h].free # <<>>
       /\ \E n \in Machine : /\ QueuedAs(n, m, h, Tail(m.rr[h].free), c)
                            /\ HandedOver(r, n, h, Head(m.rr[h].free))

LEMMA QueueSound ==
    ASSUME NEW m, NEW tm, NEW sg, Sound(m, tm, sg), sg \in [Workers -> SUBSET Conns],
           NEW h \in Objects, NEW c \in Conns, Fresh(m, sg, c), NEW f \in Seq(Workers),
           NEW x, x = [m.rr[h] EXCEPT !.handles = Append(@, c), !.free = f],
           NEW n, n = [m EXCEPT !.rr[h] = x]
    PROVE  Sound(n, tm, sg) /\ QueuedAs(n, m, h, f, c)
<1> DEFINE q == m.rr[h].handles
           a == Append(q, c)
<1>1. m \in Machine /\ q \in Seq(Conns) /\ Distinct(q) /\ m.rr[h] \in Robin
    BY DEF Sound, Machine, Robin, Placed
<1>2. a \in Seq(Conns) /\ ToSet(a) = ToSet(q) \cup {c} /\ Distinct(a)
  <2>1. c \notin ToSet(q)
      BY DEF Fresh, Queued
  <2> QED
      BY <1>1, <2>1, Appended
<1>3. a = Append(m.rr[h].handles, c)
    OBVIOUS
<1>4. x = [m.rr[h] EXCEPT !.handles = a, !.free = f]
    BY <1>1 DEF Robin
<1> HIDE DEF a
<1>5. /\ x \in Robin /\ x.handles = a /\ x.free = f /\ x.state = m.rr[h].state
      /\ x.all = m.rr[h].all /\ x.waiting = m.rr[h].waiting
    BY <1>1, <1>2, <1>4 DEF Robin
<1>6. /\ n \in Machine /\ n.rr[h] = x /\ \A g \in Objects \ {h} : n.rr[g] = m.rr[g]
      /\ n.workers = m.workers /\ n.handle = m.handle /\ n.closed = m.closed /\ n.callbacks = m.callbacks
      /\ n.whenGone = m.whenGone /\ n.thrown = m.thrown /\ n.chan = m.chan /\ n.toWorker = m.toWorker
    BY <1>1, <1>5, Updated
<1>7. /\ Queued(n, h) = Queued(m, h) \cup {c} /\ \A g \in Objects \ {h} : Queued(n, g) = Queued(m, g)
    BY <1>2, <1>5, <1>6 DEF Queued
<1>8. Placed(n)
  <2>1. \A g \in Objects : Distinct(n.rr[g].handles)
      BY <1>2, <1>5, <1>6 DEF Sound, Placed
  <2>2. \A g, e \in Objects : \A d \in Conns : d \in Queued(n, g) /\ d \in Queued(n, e) => g = e
      BY <1>7 DEF Sound, Placed, Fresh
  <2>3. \A l, j \in n.callbacks : l.conn = j.conn => l = j
      BY <1>6 DEF Sound, Placed
  <2>4. \A l \in n.callbacks : l.conn \notin n.closed /\ \A g \in Objects : l.conn \notin Queued(n, g)
      BY <1>6, <1>7 DEF Sound, Placed, Fresh
  <2>5. \A g \in Objects : \A d \in Queued(n, g) : d \notin n.closed
      BY <1>6, <1>7 DEF Sound, Placed, Fresh
  <2> QED
      BY <2>1, <2>2, <2>3, <2>4, <2>5 DEF Placed
<1>9. Answers(n, tm)
    BY <1>6 DEF Sound, Answers, Asked, Told
<1>10. Served(n, tm, sg)
  <2>1. ASSUME NEW v \in Workers, NEW d \in sg[v] PROVE Taken(n, tm, sg, v, d)
    <3>1. Taken(m, tm, sg, v, d)
        BY DEF Sound, Served
    <3> QED
        BY <1>6, <3>1 DEF Taken, Told
  <2> QED
      BY <2>1 DEF Served
<1>11. SameLinks(n, m)
    BY <1>5, <1>6 DEF SameLinks
<1>12. \A g \in Objects \ {h} : SameQueues(n, m, g)
    BY <1>6 DEF SameQueues
<1> QED
    BY <1>3, <1>5, <1>6, <1>8, <1>9, <1>10, <1>11, <1>12 DEF Sound, QueuedAs

LEMMA DistributeSound ==
    ASSUME up \in [Workers -> BOOLEAN],
           NEW m, NEW tm, NEW sg, Sound(m, tm, sg), sg \in [Workers -> SUBSET Conns],
           NEW h \in Objects, NEW c \in Conns, Fresh(m, sg, c), NEW r, r = Distribute(m, h, c)
    PROVE  Sound(r, tm, sg) /\ SameLinks(r, m) /\ Distributed(r, m, h, c)
<1>1. m \in Machine /\ m.rr[h] \in Robin /\ m.rr[h].free \in Seq(Workers)
    BY DEF Sound, Machine, Robin
<1>2. CASE m.rr[h].free = <<>>
  <2> DEFINE x == [m.rr[h] EXCEPT !.handles = Append(@, c), !.free = <<>>]
             n == [m EXCEPT !.rr[h] = x]
  <2>1. r = n
      BY <1>1, <1>2 DEF Distribute, Machine, Robin
  <2>2. <<>> \in Seq(Workers)
      OBVIOUS
  <2>3. Sound(n, tm, sg) /\ QueuedAs(n, m, h, <<>>, c)
      BY <2>2, QueueSound
  <2> HIDE DEF n
  <2> QED
      BY <1>2, <2>1, <2>3 DEF Distributed, QueuedAs
<1>3. CASE m.rr[h].free # <<>>
  <2> DEFINE f == Tail(m.rr[h].free)
             w == Head(m.rr[h].free)
             x == [m.rr[h] EXCEPT !.handles = Append(@, c), !.free = f]
             n == [m EXCEPT !.rr[h] = x]
  <2>1. r = Handoff(n, h, w)
    <3> DEFINE m1 == [m EXCEPT !.rr[h].handles = Append(@, c)]
               m2 == [m1 EXCEPT !.rr[h].free = Tail(@)]
    <3>1. r = Handoff(m2, h, w)
        BY <1>3 DEF Distribute
    <3>2. m2 = n
      <4> DEFINE R1 == [m.rr EXCEPT ![h].handles = Append(@, c)]
                 R2 == [R1 EXCEPT ![h].free = Tail(@)]
                 R3 == [m.rr EXCEPT ![h] = x]
      <4>1. m.rr[h] = [state |-> m.rr[h].state, all |-> m.rr[h].all, free |-> m.rr[h].free,
                       handles |-> m.rr[h].handles, waiting |-> m.rr[h].waiting]
          BY <1>1 DEF Robin
      <4>2. R2 = R3
          BY <1>1, <4>1 DEF Machine
      <4>3. m1 = [m EXCEPT !.rr = R1]
          BY <1>1 DEF Machine
      <4>4. m1.rr = R1
          BY <1>1 DEF Machine
      <4>5. m2 = [m1 EXCEPT !.rr = R2]
          BY <1>1, <4>4 DEF Machine
      <4>6. n = [m EXCEPT !.rr = R3]
          BY <1>1 DEF Machine
      <4> HIDE DEF m2, n, x, R1, R2, R3
      <4>7. m2 = [m EXCEPT !.rr = R2]
          BY <1>1, <4>3, <4>5 DEF Machine
      <4> QED
          BY <4>2, <4>6, <4>7
    <3> QED
        BY <3>1, <3>2
  <2>2. f \in Seq(Workers) /\ w \in Workers
      BY <1>1, <1>3
  <2>3. f = Tail(m.rr[h].free) /\ w = Head(m.rr[h].free)
      OBVIOUS
  <2> HIDE DEF f, w
  <2>4. Sound(n, tm, sg) /\ QueuedAs(n, m, h, f, c)
      BY <2>2, QueueSound
  <2> HIDE DEF n
  <2>5. Sound(r, tm, sg) /\ HandedOver(r, n, h, w)
      BY <2>1, <2>2, <2>4, HandoffSound
  <2>6. SameLinks(r, m)
      BY <2>4, <2>5, SameLinksTransitive DEF QueuedAs, HandedOver
  <2> QED
      BY <1>3, <2>3, <2>4, <2>5, <2>6 DEF Distributed, Sound
<1> QED
    BY <1>2, <1>3

(* What the reply takes away, and what it makes of the connection.         *)
Read(tm, w) == [tm EXCEPT ![w] = Tail(@)]
Answered(m, w, h, c, a) ==
    [m EXCEPT !.callbacks = @ \ {CallTo(w, h, c)}, !.closed = IF a = TRUE THEN @ \cup {c} ELSE @]
AnswerGone(n, m, sg, w, h, c, a) ==
    /\ SameLinks(n, m) /\ n.rr = m.rr /\ n.thrown = m.thrown
    /\ CallTo(w, h, c) \in m.callbacks /\ n.callbacks = m.callbacks \ {CallTo(w, h, c)}
    /\ a = FALSE => Fresh(n, sg, c)
LEMMA AnswerTaken ==
    ASSUME NEW m, NEW tm, NEW sg, Sound(m, tm, sg), sg \in [Workers -> SUBSET Conns],
           tm \in [Workers -> Seq(ToMaster)],
           NEW w \in Workers, NEW h \in Objects, NEW c \in Conns, NEW a \in BOOLEAN,
           tm[w] # <<>>, Head(tm[w]) = Ack(h, c, a), NEW n, n = Answered(m, w, h, c, a)
    PROVE  Sound(n, Read(tm, w), sg) /\ AnswerGone(n, m, sg, w, h, c, a)
<1> DEFINE tn == Read(tm, w)
           C  == IF a = TRUE THEN m.closed \cup {c} ELSE m.closed
<1>0. tn = [tm EXCEPT ![w] = Tail(@)]
    BY DEF Read
<1> DEFINE k == CallTo(w, h, c)
<1>1. m \in Machine /\ tm[w] \in Seq(ToMaster) /\ Once(tm[w], "ack")
    BY DEF Sound, Answers
<1>2. /\ Ack(h, c, a) \in ToSet(tm[w]) /\ Ack(h, c, a) \notin ToSet(Tail(tm[w]))
      /\ ToSet(Tail(tm[w])) \subseteq ToSet(tm[w]) /\ Once(Tail(tm[w]), "ack")
  <2>1. Ack(h, c, a).type = "ack"
      BY DEF Ack
  <2> QED
      BY <1>1, <2>1, Tailed
<1>3. /\ tn[w] = Tail(tm[w]) /\ \A v \in Workers \ {w} : tn[v] = tm[v]
    BY <1>0
<1> HIDE DEF tn
<1>4. Asked(m, tm, w, h, c)
    BY DEF Sound, Answers
<1>5. k \in m.callbacks /\ NewConn(h, c) \notin Told(m, w) /\ \A b \in BOOLEAN : Ack(h, c, b) \notin ToSet(tn[w])
    BY <1>2, <1>3, <1>4 DEF Asked
<1>6. k \in Callback /\ k.worker = w /\ k.conn = c
    BY DEF CallTo, Callback
<1>7. /\ c \notin m.closed /\ (\A g \in Objects : c \notin Queued(m, g))
      /\ \A l \in m.callbacks : l.conn = c => l = k
    BY <1>5, <1>6 DEF Sound, Placed
<1> HIDE DEF k
<1>8. /\ n.callbacks = m.callbacks \ {k} /\ n.closed = C /\ n.rr = m.rr
      /\ n.toWorker = m.toWorker /\ n.workers = m.workers /\ n.handle = m.handle
      /\ n.whenGone = m.whenGone /\ n.chan = m.chan /\ n.thrown = m.thrown
    BY <1>1 DEF Machine, k, Answered
<1>9. n \in Machine
  <2>1. m.callbacks \ {k} \in SUBSET Callback /\ C \in SUBSET Conns
      BY <1>1 DEF Machine
  <2> QED
      BY <1>1, <2>1 DEF Machine, k, Answered
<1>10. Placed(n)
  <2>1. \A g \in Objects : n.rr[g] = m.rr[g] /\ Queued(n, g) = Queued(m, g)
      BY <1>8 DEF Queued
  <2>2. \A l, j \in n.callbacks : l.conn = j.conn => l = j
      BY <1>8 DEF Sound, Placed
  <2>3. \A l \in n.callbacks : l \in m.callbacks /\ l.conn # c
      BY <1>7, <1>8
  <2>4. \A l \in n.callbacks : l.conn \notin n.closed /\ \A g \in Objects : l.conn \notin Queued(n, g)
      BY <1>8, <2>1, <2>3 DEF Sound, Placed
  <2>5. \A g \in Objects : \A d \in Queued(n, g) : d \notin n.closed
      BY <1>7, <1>8, <2>1 DEF Sound, Placed
  <2>6. \A g \in Objects : Distinct(n.rr[g].handles)
      BY <2>1 DEF Sound, Placed
  <2>7. \A g, e \in Objects : \A d \in Conns : d \in Queued(n, g) /\ d \in Queued(n, e) => g = e
      BY <2>1 DEF Sound, Placed
  <2> QED
      BY <2>2, <2>4, <2>5, <2>6, <2>7 DEF Placed
<1>11. ASSUME NEW v \in Workers, NEW g \in Objects, NEW d \in Conns PROVE Asked(n, tn, v, g, d)
  <2>1. Asked(m, tm, v, g, d) /\ Told(n, v) = Told(m, v) /\ ToSet(tn[v]) \subseteq ToSet(tm[v])
      BY <1>2, <1>3, <1>8 DEF Sound, Answers, Told
  <2>2. CASE v = w /\ g = h /\ d = c
      BY <1>5, <2>1, <2>2 DEF Asked
  <2>3. CASE ~(v = w /\ g = h /\ d = c)
    <3>1. CallTo(v, g, d) # k
        BY <2>3 DEF CallTo, k
    <3> QED
        BY <1>8, <2>1, <3>1 DEF Asked
  <2> QED
      BY <2>2, <2>3
<1>12. Answers(n, tn)
  <2>1. \A v \in Workers : Once(n.toWorker[v], "newconn") /\ Once(tn[v], "ack")
      BY <1>2, <1>3, <1>8 DEF Sound, Answers
  <2> QED
      BY <1>11, <2>1 DEF Answers
<1>13. ASSUME NEW v \in Workers, NEW d \in sg[v] PROVE d \in Conns /\ Taken(m, tm, sg, v, d)
    BY DEF Sound, Served
<1>14. ASSUME a = FALSE, NEW v \in Workers PROVE c \notin sg[v]
  <2> SUFFICES ASSUME c \in sg[v] PROVE FALSE
      OBVIOUS
  <2>1. Taken(m, tm, sg, v, c)
      BY <1>13
  <2>2. PICK l \in m.callbacks : l.worker = v /\ l.conn = c
      BY <1>7, <2>1 DEF Taken
  <2>3. v = w
      BY <1>6, <1>7, <2>2
  <2>4. Ack(h, c, FALSE) \in ToSet(tm[w])
      BY <1>2, <1>14
  <2> QED
      BY <2>1, <2>3, <2>4 DEF Taken
<1>15. ASSUME NEW v \in Workers, NEW d \in sg[v] PROVE Taken(n, tn, sg, v, d)
  <2>1. Taken(m, tm, sg, v, d) /\ Told(n, v) = Told(m, v) /\ ToSet(tn[v]) \subseteq ToSet(tm[v])
      BY <1>2, <1>3, <1>8, <1>13 DEF Told
  <2>2. d \in n.closed \/ \E l \in n.callbacks : l.worker = v /\ l.conn = d
    <3>1. CASE d \in m.closed
        BY <1>8, <3>1
    <3>2. CASE d # c
      <4>1. \A l \in m.callbacks : l.conn = d => l \in n.callbacks
          BY <1>6, <1>8, <3>2
      <4> QED
          BY <2>1, <3>1, <4>1 DEF Taken
    <3>3. CASE d = c
        BY <1>8, <1>14, <3>3
    <3> QED
        BY <3>2, <3>3
  <2> QED
      BY <2>1, <2>2 DEF Taken
<1>16. Served(n, tn, sg)
    BY <1>15 DEF Served
<1>17. a = FALSE => Fresh(n, sg, c)
    BY <1>7, <1>8, <1>14 DEF Fresh, Queued
<1>18. SameLinks(n, m)
    BY <1>8 DEF SameLinks
<1> QED
    BY <1>5, <1>8, <1>9, <1>10, <1>12, <1>16, <1>17, <1>18 DEF Sound, AnswerGone, k, tn

(* What the reply does in the end: n is the machine without the call, o    *)
(* that with the connection back in the queue if it was not accepted.      *)
Returned(r, m, sg, w, h, c, a) ==
    \E n, o : /\ AnswerGone(n, m, sg, w, h, c, a)
              /\ IF a = TRUE THEN o = n ELSE Distributed(o, n, h, c)
              /\ n \in Machine /\ o \in Machine /\ HandedOver(r, o, h, w)

LEMMA ReplySound ==
    ASSUME up \in [Workers -> BOOLEAN],
           NEW m, NEW tm, NEW sg, Sound(m, tm, sg), sg \in [Workers -> SUBSET Conns],
           tm \in [Workers -> Seq(ToMaster)],
           NEW w \in Workers, NEW h \in Objects, NEW c \in Conns, NEW a \in BOOLEAN,
           tm[w] # <<>>, Head(tm[w]) = Ack(h, c, a),
           NEW r, r = OnReply(m, w, h, c, a)
    PROVE  Sound(r, Read(tm, w), sg) /\ SameLinks(r, m) /\ Returned(r, m, sg, w, h, c, a)
<1> DEFINE tn == Read(tm, w)
           n == Answered(m, w, h, c, a)
           o == IF a = TRUE THEN n ELSE Distribute(n, h, c)
<1>1. m \in Machine
    BY DEF Sound
<1>2. r = Handoff(o, h, w)
  <2> DEFINE m1 == [m EXCEPT !.callbacks = @ \ {CallTo(w, h, c)}]
  <2>1. r = Handoff(IF a = TRUE THEN [m1 EXCEPT !.closed = @ \cup {c}] ELSE Distribute(m1, h, c), h, w)
      BY DEF OnReply, CallTo
  <2>2. a = TRUE => n = [m1 EXCEPT !.closed = @ \cup {c}]
      BY <1>1 DEF Machine, Answered
  <2>3. a = FALSE => n = m1
      BY <1>1 DEF Machine, Answered
  <2> HIDE DEF n, m1
  <2> QED
      BY <2>1, <2>2, <2>3
<1>3. Sound(n, tn, sg) /\ AnswerGone(n, m, sg, w, h, c, a)
    BY AnswerTaken
<1> HIDE DEF n, tn
<1>4. /\ Sound(o, tn, sg) /\ SameLinks(o, n)
      /\ IF a = TRUE THEN o = n ELSE Distributed(o, n, h, c)
  <2>1. CASE a = TRUE
      BY <1>3, <2>1 DEF SameLinks
  <2>2. CASE a = FALSE
    <3>1. o = Distribute(n, h, c)
        BY <2>2
    <3> HIDE DEF o
    <3> QED
        BY <1>3, <2>2, <3>1, DistributeSound DEF AnswerGone
  <2> QED
      BY <2>1, <2>2
<1> HIDE DEF o
<1>5. Sound(r, tn, sg) /\ HandedOver(r, o, h, w)
    BY <1>2, <1>4, HandoffSound
<1>6. SameLinks(r, m)
  <2>1. SameLinks(r, o)
      BY <1>5 DEF HandedOver
  <2>2. SameLinks(o, m)
      BY <1>3, <1>4, SameLinksTransitive DEF AnswerGone
  <2> QED
      BY <2>1, <2>2, SameLinksTransitive
<1>7. Returned(r, m, sg, w, h, c, a)
  <2>1. n \in Machine /\ o \in Machine
      BY <1>3, <1>4 DEF Sound
  <2> QED
      BY <1>3, <1>4, <1>5, <2>1 DEF Returned
<1> QED
    BY <1>5, <1>6, <1>7 DEF tn

(* A message is read.                                                      *)
LEMMA ReadSound ==
    ASSUME NEW m, NEW tm, NEW sg, Sound(m, tm, sg), sg \in [Workers -> SUBSET Conns],
           tm \in [Workers -> Seq(ToMaster)], NEW w \in Workers, tm[w] # <<>>
    PROVE  Sound(m, Read(tm, w), sg)
<1> DEFINE tn == Read(tm, w)
<1>1. /\ ToSet(Tail(tm[w])) \subseteq ToSet(tm[w]) /\ Once(Tail(tm[w]), "ack")
  <2>1. tm[w] \in Seq(ToMaster) /\ Once(tm[w], "ack")
      BY DEF Sound, Answers
  <2> QED
      BY <2>1, Tailed
<1>2. NoMore(tn, sg, tm, sg)
    BY <1>1 DEF NoMore, Read, Sound, Answers
<1> HIDE DEF tn
<1>3. Sound(m, tn, sg)
    BY <1>2, SettledSelf, QuietSound
<1> QED
    BY <1>3 DEF tn

(* The worker is told that the port is bound, and is free or busy.         *)
Welcomed(r, m, h, w) ==
    \E n \in Machine : /\ SameLinks(n, m) /\ n.rr = m.rr /\ n.callbacks = m.callbacks
                       /\ HandedOver(r, n, h, w)

LEMMA DoneSound ==
    ASSUME up \in [Workers -> BOOLEAN],
           NEW m, NEW tm, NEW sg, Sound(m, tm, sg), sg \in [Workers -> SUBSET Conns],
           NEW h \in Objects, NEW w \in Workers, NEW r, r = Done(m, h, w)
    PROVE  Sound(r, tm, sg) /\ SameLinks(r, m) /\ Welcomed(r, m, h, w)
<1> DEFINE x == Reply(TRUE)
           n == Send(m, w, x)
<1>1. x \in ToWorker /\ x.type # "newconn"
    BY DEF Reply, ToWorker
<1>2. r = Handoff(n, h, w)
    BY DEF Done
<1>3. m \in Machine /\ \A v \in Workers : Once(m.toWorker[v], "newconn")
    BY DEF Sound, Answers
<1> HIDE DEF x
<1>4. Settled(n, m) /\ SameLinks(n, m) /\ n.rr = m.rr
    BY <1>1, <1>3, SendQuiet
<1> HIDE DEF n
<1>5. Sound(n, tm, sg)
    BY <1>4, SettledSound
<1>6. Sound(r, tm, sg) /\ HandedOver(r, n, h, w)
    BY <1>2, <1>5, HandoffSound
<1>7. SameLinks(r, m)
    BY <1>4, <1>6, SameLinksTransitive DEF HandedOver
<1>8. n \in Machine /\ n.callbacks = m.callbacks
    BY <1>4 DEF Settled
<1> QED
    BY <1>4, <1>6, <1>7, <1>8 DEF Welcomed

(* A worker joins the ones that share a handle, in state s.                *)
Joined(n, m, h, w, s, W) ==
    /\ n \in Machine /\ n.handle = h /\ n.workers = m.workers /\ n.chan = m.chan
    /\ n.whenGone = m.whenGone /\ n.thrown = m.thrown /\ n.callbacks = m.callbacks
    /\ n.rr[h].state = s /\ n.rr[h].all = m.rr[h].all \cup {w} /\ n.rr[h].waiting = W
    /\ n.rr[h].free = m.rr[h].free /\ n.rr[h].handles = m.rr[h].handles
    /\ \A g \in Objects \ {h} : n.rr[g] = m.rr[g]

(* What a query does: an exception, or the worker waits for its new handle *)
(* to be bound, or it joins the others.                                    *)
Queried(r, m, w) ==
    \/ /\ SameLinks(r, m) /\ r.thrown /\ r.rr = m.rr /\ r.callbacks = m.callbacks
    \/ /\ m.handle = NoObject
       /\ \E h \in Objects : m.rr[h].state = "unused" /\ Joined(r, m, h, w, "binding", <<w>>)
    \/ /\ m.handle # NoObject /\ m.rr[m.handle].state = "bound" /\ w \notin m.rr[m.handle].all
       /\ \E n : /\ Joined(n, m, m.handle, w, "bound", m.rr[m.handle].waiting)
                 /\ SameLinks(r, n) /\ Welcomed(r, n, m.handle, w)

JoinAs(m, h, w, s, W) ==
    [m EXCEPT !.rr[h] = [m.rr[h] EXCEPT !.state = s, !.all = m.rr[h].all \cup {w}, !.waiting = W],
              !.handle = h]
LEMMA JoinedSound ==
    ASSUME NEW m, NEW tm, NEW sg, Sound(m, tm, sg), sg \in [Workers -> SUBSET Conns],
           NEW h \in Objects, NEW w \in Workers, NEW s \in {"binding", "bound"}, NEW W \in Seq(Workers),
           NEW n, n = JoinAs(m, h, w, s, W)
    PROVE  Sound(n, tm, sg) /\ Joined(n, m, h, w, s, W)
<1> DEFINE x == [m.rr[h] EXCEPT !.state = s, !.all = m.rr[h].all \cup {w}, !.waiting = W]
<1>0. n = [m EXCEPT !.rr[h] = x, !.handle = h]
    BY DEF JoinAs
<1>1. m \in Machine /\ m.rr[h] \in Robin
    BY DEF Sound, Machine
<1>2. /\ x \in Robin /\ x.handles = m.rr[h].handles /\ x.free = m.rr[h].free /\ x.state = s
      /\ x.all = m.rr[h].all \cup {w} /\ x.waiting = W
    BY <1>1 DEF Robin
<1> HIDE DEF x
<1>3. /\ n \in Machine /\ n.rr[h] = x /\ (\A g \in Objects \ {h} : n.rr[g] = m.rr[g])
      /\ n.workers = m.workers /\ n.handle = h /\ n.closed = m.closed /\ n.callbacks = m.callbacks
      /\ n.whenGone = m.whenGone /\ n.thrown = m.thrown /\ n.chan = m.chan /\ n.toWorker = m.toWorker
  <2> DEFINE R == [m.rr EXCEPT ![h] = x]
  <2>1. R \in [Objects -> Robin] /\ R[h] = x /\ \A g \in Objects \ {h} : R[g] = m.rr[g]
      BY <1>1, <1>2 DEF Machine
  <2>2. n = [m EXCEPT !.rr = R, !.handle = h]
      BY <1>0, <1>1 DEF Machine
  <2> HIDE DEF R
  <2>3. n \in Machine /\ n.rr = R
      BY <1>1, <2>1, <2>2 DEF Machine
  <2> QED
      BY <1>1, <2>1, <2>2, <2>3 DEF Machine
<1>4. Settled(n, m)
    BY <1>2, <1>3 DEF Settled, Told, Sound, Answers
<1>5. Sound(n, tm, sg)
    BY <1>4, SettledSound
<1> QED
    BY <1>2, <1>3, <1>5 DEF Joined

(* An exception.                                                           *)
LEMMA ThrownSound ==
    ASSUME NEW m, NEW tm, NEW sg, Sound(m, tm, sg), sg \in [Workers -> SUBSET Conns],
           NEW r, r = [m EXCEPT !.thrown = TRUE]
    PROVE  /\ Sound(r, tm, sg) /\ SameLinks(r, m) /\ r.thrown
           /\ r.rr = m.rr /\ r.callbacks = m.callbacks
<1>1. m \in Machine
    BY DEF Sound
<1>2. /\ r \in Machine /\ r.closed = m.closed /\ r.callbacks = m.callbacks /\ r.rr = m.rr
      /\ r.toWorker = m.toWorker /\ r.workers = m.workers /\ r.handle = m.handle
      /\ r.whenGone = m.whenGone /\ r.chan = m.chan /\ r.thrown
    BY <1>1 DEF Machine
<1>3. Settled(r, m)
    BY <1>2 DEF Settled, Told, Sound, Answers
<1>4. Sound(r, tm, sg)
    BY <1>3, SettledSound
<1> QED
    BY <1>2, <1>4 DEF SameLinks

LEMMA QuerySound ==
    ASSUME up \in [Workers -> BOOLEAN],
           NEW m, m = Here, NEW tm, NEW sg, Sound(m, tm, sg), sg \in [Workers -> SUBSET Conns],
           Linked(m), ~m.thrown, NEW w \in Workers, m.chan[w] = "open", SameChunk(w),
           m.handle # NoObject \/ Unused # {}, NEW r, r = QueryServer(m, w)
    PROVE  Sound(r, tm, sg) /\ Queried(r, m, w)
<1>1. m \in Machine /\ m.rr = rr
    BY DEF Sound, Here
<1>2. CASE m.handle # NoObject
  <2> DEFINE h == m.handle
  <2>1. h \in Objects /\ r = Add(m, h, w) /\ m.rr[h] \in Robin
      BY <1>1, <1>2 DEF Machine, QueryServer
  <2>2. h = m.handle
      OBVIOUS
  <2>3. m.rr[h].state \in {"binding", "bound"}
      BY <1>2 DEF Linked
  <2> HIDE DEF h
  <2>4. CASE w \in m.rr[h].all
    <3>1. r = [m EXCEPT !.thrown = TRUE]
        BY <2>1, <2>4 DEF Add
    <3> QED
        BY <3>1, ThrownSound DEF Queried
  <2>5. CASE w \notin m.rr[h].all /\ m.rr[h].state = "bound"
    <3> DEFINE W == m.rr[h].waiting
               x == [m.rr[h] EXCEPT !.state = "bound", !.all = m.rr[h].all \cup {w}, !.waiting = W]
               n == JoinAs(m, h, w, "bound", W)
    <3>1. r = Done(n, h, w)
      <4> DEFINE R1 == [m.rr EXCEPT ![h].all = @ \cup {w}]
                 R2 == [m.rr EXCEPT ![h] = x]
                 m1 == [m EXCEPT !.rr[h].all = @ \cup {w}]
      <4>1. m.rr[h] = [state |-> "bound", all |-> m.rr[h].all, free |-> m.rr[h].free,
                       handles |-> m.rr[h].handles, waiting |-> m.rr[h].waiting]
          BY <2>1, <2>5 DEF Robin
      <4>2. R1 = R2
        <5>1. x = [m.rr[h] EXCEPT !.all = @ \cup {w}]
          <6> DEFINE y == m.rr[h]
          <6>1. y.state = "bound" /\ y.waiting = W /\ y \in Robin
              BY <2>1, <2>5
          <6>2. x = [y EXCEPT !.state = "bound", !.all = y.all \cup {w}, !.waiting = W]
              OBVIOUS
          <6> HIDE DEF y, W
          <6>3. x = [y EXCEPT !.all = @ \cup {w}]
              BY <6>1, <6>2 DEF Robin
          <6> QED
              BY <6>3 DEF y
        <5> QED
            BY <1>1, <2>1, <5>1 DEF Machine
      <4>3. m1 = [m EXCEPT !.rr = R1, !.handle = h]
          BY <1>1, <2>2 DEF Machine
      <4>4. n = [m EXCEPT !.rr = R2, !.handle = h]
          BY <1>1 DEF Machine, JoinAs
      <4>5. r = Done(m1, h, w)
          BY <2>1, <2>5 DEF Add
      <4> HIDE DEF m1, n, R1, R2
      <4> QED
          BY <4>2, <4>3, <4>4, <4>5
    <3>2. W \in Seq(Workers) /\ W = m.rr[h].waiting
        BY <2>1 DEF Robin
    <3> HIDE DEF W
    <3>3. Sound(n, tm, sg) /\ Joined(n, m, h, w, "bound", W)
        BY <2>1, <3>2, JoinedSound
    <3> HIDE DEF n
    <3>4. Sound(r, tm, sg) /\ SameLinks(r, n) /\ Welcomed(r, n, h, w)
        BY <2>1, <3>1, <3>3, DoneSound
    <3> QED
        BY <1>2, <2>2, <2>5, <3>2, <3>3, <3>4 DEF Queried
  <2>6. CASE m.rr[h].state = "binding"
    <3>1. PICK v \in Workers : m.rr[h].waiting = <<v>> /\ m.rr[h].all = {v}
        BY <2>1, <2>6 DEF Linked
    <3>2. h \in Binding
        BY <1>1, <2>1, <2>6 DEF Binding
    <3>3. Head(m.rr[h].waiting) = w
        BY <1>1, <3>2 DEF SameChunk
    <3>4. w \in m.rr[h].all
        BY <3>1, <3>3
    <3> QED
        BY <2>4, <3>4
  <2> QED
      BY <2>3, <2>4, <2>5, <2>6
<1>3. CASE m.handle = NoObject
  <2> DEFINE h == CHOOSE h \in Unused : \A k \in Unused : h <= k
  <2>1. h \in Unused
    <3>1. Unused \in SUBSET Nat /\ Unused # {}
        BY <1>3, ClusterAssumption DEF Unused
    <3>2. \E g \in Unused : \A k \in Unused : g <= k
        BY <3>1, LeastOf
    <3> QED
        BY <3>2
  <2>2. r = Add([m EXCEPT !.handle = h, !.rr[h].state = "binding"], h, w)
      BY <1>3 DEF QueryServer
  <2> HIDE DEF h
  <2>3. h \in Objects /\ m.rr[h].state = "unused" /\ m.rr[h] \in Robin
      BY <1>1, <2>1 DEF Unused, Machine
  <2>4. m.rr[h].all = {} /\ m.rr[h].waiting = <<>>
      BY <2>3 DEF Linked
  <2> DEFINE x == [m.rr[h] EXCEPT !.state = "binding", !.all = m.rr[h].all \cup {w}, !.waiting = <<w>>]
             n == JoinAs(m, h, w, "binding", <<w>>)
             m0 == [m EXCEPT !.handle = h, !.rr[h].state = "binding"]
             m1 == [m0 EXCEPT !.rr[h].all = @ \cup {w}]
             m2 == [m1 EXCEPT !.rr[h].waiting = Append(@, w)]
  <2>5. m0.rr[h].all = {} /\ m0.rr[h].state = "binding"
      BY <1>1, <2>3, <2>4 DEF Machine, Robin
  <2>6. r = m2
    <3>1. r = Add(m0, h, w)
        BY <2>2
    <3> HIDE DEF m0
    <3> QED
        BY <2>5, <3>1 DEF Add
  <2>7. m2 = n
    <3> DEFINE R0 == [m.rr EXCEPT ![h].state = "binding"]
               R1 == [R0 EXCEPT ![h].all = @ \cup {w}]
               R2 == [R1 EXCEPT ![h].waiting = Append(@, w)]
               R3 == [m.rr EXCEPT ![h] = x]
    <3>1. m.rr[h] = [state |-> m.rr[h].state, all |-> m.rr[h].all, free |-> m.rr[h].free,
                     handles |-> m.rr[h].handles, waiting |-> <<>>]
        BY <2>3, <2>4 DEF Robin
    <3>2. R2 = R3
        BY <1>1, <2>3, <3>1 DEF Machine
    <3>3. m0 = [m EXCEPT !.handle = h, !.rr = R0] /\ m0.rr = R0
        BY <1>1 DEF Machine
    <3> HIDE DEF R0, m0
    <3>4. m1 = [m EXCEPT !.handle = h, !.rr = R1] /\ m1.rr = R1
        BY <1>1, <3>3 DEF Machine
    <3> HIDE DEF R1, m1
    <3>5. m2 = [m EXCEPT !.handle = h, !.rr = R2]
        BY <1>1, <3>4 DEF Machine
    <3>6. n = [m EXCEPT !.handle = h, !.rr = R3]
        BY <1>1 DEF Machine, JoinAs
    <3> HIDE DEF m2, n, R2, R3
    <3> QED
        BY <3>2, <3>5, <3>6
  <2>8. <<w>> \in Seq(Workers)
      OBVIOUS
  <2>9. Sound(n, tm, sg) /\ Joined(n, m, h, w, "binding", <<w>>)
      BY <2>3, <2>8, JoinedSound
  <2> HIDE DEF n, m2
  <2> QED
      BY <1>3, <2>3, <2>6, <2>7, <2>9 DEF Queried
<1> QED
    BY <1>2, <1>3

(* The table after a query.                                                *)
LEMMA QueryLinked ==
    ASSUME NEW m \in Machine, Linked(m), ~m.thrown, NEW w \in Workers, m.chan[w] = "open",
           NEW r, Queried(r, m, w)
    PROVE  Linked(r)
<1>0. \A h \in Objects : h # NoObject
    BY ClusterAssumption DEF NoObject
<1>1. CASE r.thrown
    BY <1>1 DEF Linked
<1>2. CASE /\ m.handle = NoObject
           /\ \E h \in Objects : m.rr[h].state = "unused" /\ Joined(r, m, h, w, "binding", <<w>>)
  <2>1. PICK h \in Objects : m.rr[h].state = "unused" /\ Joined(r, m, h, w, "binding", <<w>>)
      BY <1>2
  <2>2. m.rr[h].all = {}
      BY <2>1 DEF Linked
  <2>3. /\ r.workers = m.workers /\ r.handle = h /\ r.whenGone = m.whenGone /\ r.chan = m.chan
        /\ r.rr[h].state = "binding" /\ r.rr[h].all = {w} /\ r.rr[h].waiting = <<w>>
        /\ \A g \in Objects \ {h} : r.rr[g] = m.rr[g]
      BY <2>1, <2>2 DEF Joined
  <2>4. \A g \in Objects \ {h} : m.rr[g].state # "binding"
      BY <1>0, <1>2 DEF Linked
  <2> QED
      BY <2>3, <2>4 DEF Linked
<1>3. CASE /\ m.handle # NoObject /\ m.rr[m.handle].state = "bound"
           /\ \E n : /\ Joined(n, m, m.handle, w, "bound", m.rr[m.handle].waiting)
                     /\ SameLinks(r, n) /\ Welcomed(r, n, m.handle, w)
  <2>1. PICK n : Joined(n, m, m.handle, w, "bound", m.rr[m.handle].waiting) /\ SameLinks(r, n)
      BY <1>3
  <2> DEFINE h == m.handle
  <2>2. h \in Objects /\ h = m.handle
      BY <1>3 DEF Machine
  <2> HIDE DEF h
  <2>3. /\ n \in Machine /\ n.workers = m.workers /\ n.handle = h /\ n.whenGone = m.whenGone /\ n.chan = m.chan
        /\ n.rr[h].state = "bound" /\ n.rr[h].all = m.rr[h].all \cup {w} /\ n.rr[h].waiting = m.rr[h].waiting
        /\ \A g \in Objects \ {h} : n.rr[g] = m.rr[g]
      BY <2>1, <2>2 DEF Joined
  <2>4. \A v \in m.rr[h].all : m.chan[v] = "open"
      BY <1>3, <2>2 DEF Linked
  <2>5. m.rr[h].waiting = <<>>
      BY <1>3, <2>2 DEF Linked
  <2>6. Linked(n)
      BY <1>3, <2>2, <2>3, <2>4, <2>5 DEF Linked
  <2> QED
      BY <2>1, <2>3, <2>6, StillLinked
<1> QED
    BY <1>1, <1>2, <1>3 DEF Queried

(* What remove() does to a handle and to the table.                        *)
RemovedFrom(r, m, h, w) ==
    /\ \A g \in Objects \ {h} : r.rr[g] = m.rr[g]
    /\ r.rr[h].all = m.rr[h].all \ {w} /\ r.rr[h].free = RemoveFirst(m.rr[h].free, w)
    /\ r.rr[h].waiting = m.rr[h].waiting
    /\ \/ /\ r.rr[h].all # {} /\ r.handle = h /\ r.thrown = m.thrown
          /\ r.rr[h].state = m.rr[h].state /\ r.rr[h].handles = m.rr[h].handles
       \/ /\ r.thrown /\ r.rr[h].handles = m.rr[h].handles
       \/ /\ m.rr[h].state # "binding" /\ r.handle = NoObject /\ r.thrown = m.thrown
          /\ r.rr[h].state = "closed" /\ r.rr[h].handles = <<>>
Removed(r, m, w) ==
    /\ r.workers = m.workers /\ r.chan = m.chan /\ r.whenGone = m.whenGone /\ r.callbacks = m.callbacks
    /\ \/ (m.handle = NoObject \/ w \notin m.rr[m.handle].all) /\ r.rr = m.rr /\ r.handle = m.handle /\ r.thrown = m.thrown
       \/ m.handle # NoObject /\ w \in m.rr[m.handle].all /\ RemovedFrom(r, m, m.handle, w)

(* The handle is closed, and the connections that it has queued.           *)
CloseAll(m, h, x) ==
    [m EXCEPT !.rr[h] = x, !.closed = m.closed \cup ToSet(m.rr[h].handles), !.handle = NoObject]
LEMMA CloseSound ==
    ASSUME NEW m, NEW tm, NEW sg, Sound(m, tm, sg), sg \in [Workers -> SUBSET Conns],
           NEW h \in Objects, NEW x \in Robin, x.handles = <<>>, NEW r, r = CloseAll(m, h, x)
    PROVE  /\ Sound(r, tm, sg) /\ r.rr[h] = x /\ (\A g \in Objects \ {h} : r.rr[g] = m.rr[g])
           /\ r.workers = m.workers /\ r.handle = NoObject /\ r.callbacks = m.callbacks
           /\ r.whenGone = m.whenGone /\ r.thrown = m.thrown /\ r.chan = m.chan
<1> DEFINE R == [m.rr EXCEPT ![h] = x]
           C == m.closed \cup ToSet(m.rr[h].handles)
<1>1. m \in Machine /\ m.rr[h].handles \in Seq(Conns)
    BY DEF Sound, Machine, Robin
<1>2. R \in [Objects -> Robin] /\ R[h] = x /\ \A g \in Objects \ {h} : R[g] = m.rr[g]
    BY <1>1 DEF Machine
<1>3. C \in SUBSET Conns /\ C = m.closed \cup Queued(m, h)
    BY <1>1 DEF Machine, ToSet, Queued
<1>4. r = [m EXCEPT !.rr = R, !.closed = C, !.handle = NoObject]
    BY <1>1 DEF CloseAll, Machine
<1> HIDE DEF R, C
<1>5. r \in Machine /\ r.rr = R /\ r.closed = C /\ r.handle = NoObject
    BY <1>1, <1>2, <1>3, <1>4 DEF Machine
<1>6. /\ r.workers = m.workers /\ r.callbacks = m.callbacks /\ r.toWorker = m.toWorker
      /\ r.whenGone = m.whenGone /\ r.thrown = m.thrown /\ r.chan = m.chan
    BY <1>1, <1>4 DEF Machine
<1>7. Queued(r, h) = {} /\ \A g \in Objects \ {h} : Queued(r, g) = Queued(m, g)
    BY <1>2, <1>5 DEF Queued, ToSet
<1>8. Placed(r)
  <2>1. ASSUME NEW g \in Objects PROVE Distinct(r.rr[g].handles)
    <3>1. Distinct(<<>>)
        BY DEF Distinct
    <3> QED
        BY <1>2, <1>5, <3>1 DEF Sound, Placed
  <2>2. \A g, e \in Objects : \A d \in Conns : d \in Queued(r, g) /\ d \in Queued(r, e) => g = e
      BY <1>7 DEF Sound, Placed
  <2>3. \A l, j \in r.callbacks : l.conn = j.conn => l = j
      BY <1>6 DEF Sound, Placed
  <2>4. \A l \in r.callbacks : l.conn \notin r.closed /\ \A g \in Objects : l.conn \notin Queued(r, g)
      BY <1>3, <1>5, <1>6, <1>7 DEF Sound, Placed
  <2>5. ASSUME NEW g \in Objects, NEW d \in Queued(r, g) PROVE d \notin r.closed
    <3>1. g # h /\ d \in Queued(m, g)
        BY <1>7
    <3>2. d \in Conns
      <4>1. m.rr[g].handles \in Seq(Conns)
          BY <1>1 DEF Machine, Robin
      <4> QED
          BY <3>1, <4>1 DEF Queued, ToSet
    <3>3. d \notin m.closed /\ d \notin Queued(m, h)
        BY <3>1, <3>2 DEF Sound, Placed
    <3> QED
        BY <1>3, <1>5, <3>3
  <2> QED
      BY <2>1, <2>2, <2>3, <2>4, <2>5 DEF Placed
<1>9. Answers(r, tm)
    BY <1>6 DEF Sound, Answers, Asked, Told
<1>10. ASSUME NEW v \in Workers, NEW d \in sg[v] PROVE Taken(r, tm, sg, v, d)
  <2>1. Taken(m, tm, sg, v, d)
      BY DEF Sound, Served
  <2> QED
      BY <1>3, <1>5, <1>6, <2>1 DEF Taken, Told
<1>11. Served(r, tm, sg)
    BY <1>10 DEF Served
<1> QED
    BY <1>2, <1>5, <1>6, <1>8, <1>9, <1>11 DEF Sound

LEMMA RemoveSound ==
    ASSUME NEW m, NEW tm, NEW sg, Sound(m, tm, sg), sg \in [Workers -> SUBSET Conns],
           NEW w \in Workers, NEW r, r = RemoveWorker(m, w)
    PROVE  Sound(r, tm, sg) /\ Removed(r, m, w)
<1> DEFINE h == m.handle
<1>1. m \in Machine /\ h \in Objects \cup {NoObject}
    BY DEF Sound, Machine
<1>2. CASE h = NoObject \/ w \notin m.rr[h].all
  <2>1. r = m
      BY <1>2 DEF RemoveWorker
  <2> QED
      BY <1>2, <2>1 DEF Removed
<1>3. CASE ~(h = NoObject \/ w \notin m.rr[h].all)
  <2> DEFINE A == m.rr[h].all \ {w}
             F == RemoveFirst(m.rr[h].free, w)
             x == [m.rr[h] EXCEPT !.all = A, !.free = F]
             y == [m.rr[h] EXCEPT !.all = A, !.free = F, !.handles = <<>>, !.state = "closed"]
             m1 == [m EXCEPT !.rr[h].all = @ \ {w}, !.rr[h].free = RemoveFirst(@, w)]
             n == [m EXCEPT !.rr[h] = x]
             o == [m1 EXCEPT !.closed = @ \cup ToSet(m.rr[h].handles), !.rr[h].handles = <<>>,
                             !.rr[h].state = "closed", !.handle = NoObject]
  <2>1. h \in Objects /\ m.rr[h] \in Robin
      BY <1>1, <1>3 DEF Machine
  <2>2. h = m.handle /\ h # NoObject /\ w \in m.rr[h].all
      BY <1>3
  <2>3. r = IF m1.rr[h].all # {} THEN m1 ELSE IF m.rr[h].state = "binding" THEN [m1 EXCEPT !.thrown = TRUE] ELSE o
      BY <1>3 DEF RemoveWorker
  <2> HIDE DEF h
  <2>4. A \in SUBSET Workers /\ F \in Seq(Workers) /\ A = m.rr[h].all \ {w} /\ F = RemoveFirst(m.rr[h].free, w)
    <3>1. m.rr[h].free \in Seq(Workers) /\ m.rr[h].all \in SUBSET Workers
        BY <2>1 DEF Robin
    <3> QED
        BY <3>1, FirstRemoved
  <2> DEFINE R1 == [m.rr EXCEPT ![h].all = @ \ {w}, ![h].free = RemoveFirst(@, w)]
             R2 == [R1 EXCEPT ![h].handles = <<>>, ![h].state = "closed"]
  <2>5. m1 = [m EXCEPT !.rr = R1] /\ m1.rr = R1 /\ m1.closed = m.closed
      BY <1>1 DEF Machine
  <2>6. R1 = [m.rr EXCEPT ![h] = x]
    <3>1. [[m.rr[h] EXCEPT !.all = @ \ {w}] EXCEPT !.free = RemoveFirst(@, w)] = x
        BY <2>1 DEF Robin
    <3> QED
        BY <1>1, <2>1, <3>1 DEF Machine
  <2>7. [[x EXCEPT !.handles = <<>>] EXCEPT !.state = "closed"] = y
      BY <2>1 DEF Robin
  <2>8. /\ x \in Robin /\ x.all = A /\ x.free = F /\ x.waiting = m.rr[h].waiting
        /\ x.state = m.rr[h].state /\ x.handles = m.rr[h].handles
    <3> HIDE DEF A, F
    <3> QED
        BY <2>1, <2>4 DEF Robin
  <2>9. /\ y \in Robin /\ y.all = A /\ y.free = F /\ y.waiting = m.rr[h].waiting
        /\ y.state = "closed" /\ y.handles = <<>>
    <3> DEFINE z == m.rr[h]
    <3>1. y = [z EXCEPT !.all = A, !.free = F, !.handles = <<>>, !.state = "closed"] /\ z \in Robin
        BY <2>1
    <3>2. <<>> \in Seq(Conns)
        OBVIOUS
    <3> HIDE DEF A, F, y, z
    <3>3. /\ y.all = A /\ y.free = F /\ y.waiting = z.waiting
          /\ y.state = "closed" /\ y.handles = <<>>
        BY <3>1 DEF Robin
    <3>4. y \in Robin
        BY <2>4, <3>1, <3>2 DEF Robin
    <3> QED
        BY <3>3, <3>4 DEF z
  <2> HIDE DEF A, F, x, y
  <2>10. R2 = [m.rr EXCEPT ![h] = y]
    <3> HIDE DEF R1
    <3> QED
        BY <1>1, <2>1, <2>6, <2>7 DEF Machine
  <2>11. o = [m EXCEPT !.rr = R2, !.closed = m.closed \cup ToSet(m.rr[h].handles), !.handle = NoObject]
    <3> DEFINE C == m.closed \cup ToSet(m.rr[h].handles)
    <3>1. m1.closed \cup ToSet(m.rr[h].handles) = C
        BY <2>5
    <3>2. R2 = [R1 EXCEPT ![h].handles = <<>>, ![h].state = "closed"]
        OBVIOUS
    <3> DEFINE R3 == [R1 EXCEPT ![h].handles = <<>>]
    <3>5. R2 = [R3 EXCEPT ![h].state = "closed"]
        OBVIOUS
    <3> DEFINE o1 == [m1 EXCEPT !.closed = @ \cup ToSet(m.rr[h].handles)]
               o2 == [o1 EXCEPT !.rr[h].handles = <<>>]
               o3 == [o2 EXCEPT !.rr[h].state = "closed"]
    <3>6. o = [o3 EXCEPT !.handle = NoObject]
        OBVIOUS
    <3>7. R3 = [R1 EXCEPT ![h].handles = <<>>]
        OBVIOUS
    <3> HIDE DEF m1, R1, R2, R3, C, o
    <3>8. o1 = [m EXCEPT !.rr = R1, !.closed = C]
        BY <1>1, <2>5, <3>1 DEF Machine
    <3> HIDE DEF o1
    <3>9. o2 = [m EXCEPT !.rr = R3, !.closed = C]
        BY <1>1, <3>7, <3>8 DEF Machine
    <3> HIDE DEF o2
    <3>10. o3 = [m EXCEPT !.rr = R2, !.closed = C]
        BY <1>1, <3>5, <3>9 DEF Machine
    <3> HIDE DEF o3
    <3>11. o = [m EXCEPT !.rr = R2, !.closed = C, !.handle = NoObject]
        BY <1>1, <3>6, <3>10 DEF Machine
    <3> QED
        BY <3>11 DEF C
  <2>12. o = CloseAll(m, h, y)
    <3> HIDE DEF o, R2
    <3> QED
        BY <1>1, <2>10, <2>11 DEF Machine, CloseAll
  <2>13. m1 = n
    <3> HIDE DEF m1, R1
    <3> QED
        BY <1>1, <2>5, <2>6 DEF Machine
  <2> HIDE DEF o, m1
  <2>14. /\ n \in Machine /\ n.rr[h] = x /\ \A g \in Objects \ {h} : n.rr[g] = m.rr[g]
         /\ n.workers = m.workers /\ n.handle = m.handle /\ n.closed = m.closed /\ n.callbacks = m.callbacks
         /\ n.whenGone = m.whenGone /\ n.thrown = m.thrown /\ n.chan = m.chan /\ n.toWorker = m.toWorker
      BY <1>1, <2>1, <2>8, Updated
  <2> HIDE DEF n
  <2>15. Sound(n, tm, sg)
    <3>1. Settled(n, m)
        BY <2>8, <2>14 DEF Settled, Told, Sound, Answers
    <3> QED
        BY <3>1, SettledSound
  <2>16. CASE r = n /\ n.rr[h].all # {}
    <3>1. RemovedFrom(r, m, h, w)
        BY <2>2, <2>4, <2>8, <2>14, <2>16 DEF RemovedFrom
    <3> QED
        BY <2>2, <2>14, <2>15, <2>16, <3>1 DEF Removed
  <2>17. CASE r = [n EXCEPT !.thrown = TRUE]
    <3>1. Sound(r, tm, sg) /\ SameLinks(r, n) /\ r.thrown /\ r.rr = n.rr /\ r.callbacks = n.callbacks
        BY <2>15, <2>17, ThrownSound
    <3>2. RemovedFrom(r, m, h, w)
        BY <2>4, <2>8, <2>14, <3>1 DEF RemovedFrom
    <3> QED
        BY <2>2, <2>14, <3>1, <3>2 DEF Removed, SameLinks
  <2>18. CASE r = o /\ m.rr[h].state # "binding"
    <3>1. /\ Sound(r, tm, sg) /\ r.rr[h] = y /\ (\A g \in Objects \ {h} : r.rr[g] = m.rr[g])
          /\ r.workers = m.workers /\ r.handle = NoObject /\ r.callbacks = m.callbacks
          /\ r.whenGone = m.whenGone /\ r.thrown = m.thrown /\ r.chan = m.chan
        BY <2>1, <2>9, <2>12, <2>18, CloseSound
    <3>2. RemovedFrom(r, m, h, w)
        BY <2>4, <2>9, <2>18, <3>1 DEF RemovedFrom
    <3> QED
        BY <2>2, <3>1, <3>2 DEF Removed
  <2> QED
      BY <2>3, <2>13, <2>16, <2>17, <2>18
<1> QED
    BY <1>2, <1>3

(* The table, but for the workers that are about to be removed.            *)
Tabled(m, W) ==
    /\ \A w \in m.workers : m.chan[w] = "open"
    /\ m.handle # NoObject =>
         /\ m.rr[m.handle].state \in {"binding", "bound"} /\ m.rr[m.handle].all # {}
         /\ \A w \in m.rr[m.handle].all \ W : m.chan[w] = "open"
    /\ \A h \in Objects :
         /\ m.rr[h].state = "binding" => h = m.handle /\ \E w \in Workers : m.rr[h].waiting = <<w>> /\ m.rr[h].all = {w}
         /\ m.rr[h].state # "binding" => m.rr[h].waiting = <<>>
         /\ m.rr[h].state = "unused" => m.rr[h].all = {}

LEMMA LinkedTabled ==
    ASSUME NEW m, ~m.thrown
    PROVE  Linked(m) <=> Tabled(m, {}) /\ (m.whenGone = "waits" => \E w \in Workers : m.chan[w] = "open")
BY DEF Linked, Tabled

LEMMA RemovedTabled ==
    ASSUME NEW m \in Machine, NEW w \in Workers, Tabled(m, {w}), NEW r, Removed(r, m, w), ~r.thrown
    PROVE  Tabled(r, {})
<1>0. \A h \in Objects : h # NoObject
    BY ClusterAssumption DEF NoObject
<1>1. CASE (m.handle = NoObject \/ w \notin m.rr[m.handle].all) /\ r.rr = m.rr /\ r.handle = m.handle
    BY <1>1 DEF Removed, Tabled
<1>2. CASE m.handle # NoObject /\ w \in m.rr[m.handle].all /\ RemovedFrom(r, m, m.handle, w)
  <2> DEFINE h == m.handle
  <2>1. h \in Objects /\ h = m.handle /\ RemovedFrom(r, m, h, w)
      BY <1>2 DEF Machine
  <2> HIDE DEF h
  <2>2. /\ m.rr[h].state \in {"binding", "bound"} /\ m.rr[h].all # {}
        /\ \A v \in m.rr[h].all \ {w} : m.chan[v] = "open"
      BY <1>2, <2>1 DEF Tabled
  <2>3. \A v \in r.workers : r.chan[v] = "open"
      BY DEF Removed, Tabled
  <2>4. /\ r.chan = m.chan /\ (\A g \in Objects \ {h} : r.rr[g] = m.rr[g])
        /\ r.rr[h].all = m.rr[h].all \ {w} /\ r.rr[h].waiting = m.rr[h].waiting
      BY <2>1 DEF Removed, RemovedFrom
  <2>5. CASE r.rr[h].all # {} /\ r.handle = h /\ r.rr[h].state = m.rr[h].state
    <3>1. m.rr[h].state = "bound"
      <4>1. CASE m.rr[h].state = "binding"
        <5>1. PICK v \in Workers : m.rr[h].all = {v}
            BY <2>1, <4>1 DEF Tabled
        <5>2. w = v
            BY <1>2, <2>1, <5>1
        <5> QED
            BY <2>4, <2>5, <5>1, <5>2
      <4> QED
          BY <2>2, <4>1
    <3> QED
        BY <2>1, <2>2, <2>3, <2>4, <2>5, <3>1 DEF Tabled
  <2>6. CASE m.rr[h].state # "binding" /\ r.handle = NoObject /\ r.rr[h].state = "closed"
    <3>1. \A g \in Objects : r.rr[g].state # "binding"
        BY <2>1, <2>4, <2>6 DEF Tabled
    <3> QED
        BY <2>1, <2>3, <2>4, <2>6, <3>1 DEF Tabled
  <2> QED
      BY <2>1, <2>5, <2>6 DEF RemovedFrom
<1> QED
    BY <1>1, <1>2 DEF Removed

(* A worker has closed its server.                                         *)
LEMMA OnCloseSound ==
    ASSUME NEW m, NEW tm, NEW sg, Sound(m, tm, sg), sg \in [Workers -> SUBSET Conns], Linked(m), ~m.thrown,
           NEW w \in Workers, NEW r, r = OnClose(m, w)
    PROVE  /\ Sound(r, tm, sg) /\ Linked(r)
           /\ \/ r.rr = m.rr /\ r.callbacks = m.callbacks /\ r.chan = m.chan
              \/ Removed(r, m, w)
<1>1. CASE m.handle = NoObject
  <2>1. r = [m EXCEPT !.thrown = TRUE]
      BY <1>1 DEF OnClose
  <2> QED
      BY <2>1, ThrownSound DEF Linked, SameLinks
<1>2. CASE m.handle # NoObject
  <2>1. r = RemoveWorker(m, w)
      BY <1>2 DEF OnClose
  <2>2. Sound(r, tm, sg) /\ Removed(r, m, w) /\ m \in Machine
      BY <2>1, RemoveSound DEF Sound
  <2>3. CASE ~r.thrown
    <3>1. Tabled(m, {w})
        BY LinkedTabled DEF Tabled
    <3>2. Tabled(r, {})
        BY <2>2, <2>3, <3>1, RemovedTabled
    <3>3. r.whenGone = m.whenGone /\ r.chan = m.chan
        BY <2>2 DEF Removed
    <3> QED
        BY <2>2, <2>3, <3>2, <3>3, LinkedTabled
  <2>4. CASE r.thrown
      BY <2>2, <2>4 DEF Linked
  <2> QED
      BY <2>3, <2>4
<1> QED
    BY <1>1, <1>2

(* A worker's channel is closed.                                           *)
Parted(r, m, w) ==
    \E n, o : /\ n.rr = m.rr /\ n.callbacks = m.callbacks /\ n.chan = [m.chan EXCEPT ![w] = "closed"]
              /\ n \in Machine /\ Removed(o, n, w)
              /\ r.rr = o.rr /\ r.callbacks = o.callbacks /\ r.chan = o.chan

LEMMA OnDisconnectSound ==
    ASSUME NEW m, NEW tm, NEW sg, Sound(m, tm, sg), sg \in [Workers -> SUBSET Conns], Linked(m), ~m.thrown,
           NEW w \in Workers, NEW r, r = OnDisconnect(m, w)
    PROVE  Sound(r, tm, sg) /\ Linked(r) /\ Parted(r, m, w)
<1> DEFINE n == [m EXCEPT !.chan[w] = "closed", !.workers = @ \ {w}]
           o == RemoveWorker(n, w)
<1>1. m \in Machine
    BY DEF Sound
<1>2. /\ n \in Machine /\ n.chan = [m.chan EXCEPT ![w] = "closed"] /\ n.workers = m.workers \ {w}
      /\ n.rr = m.rr /\ n.handle = m.handle /\ n.callbacks = m.callbacks /\ n.closed = m.closed
      /\ n.thrown = m.thrown /\ n.whenGone = m.whenGone /\ n.toWorker = m.toWorker
  <2> DEFINE x == [m.chan EXCEPT ![w] = "closed"]
             W == m.workers \ {w}
  <2>1. x \in [Workers -> {"none", "open", "closed"}] /\ W \in SUBSET Workers
      BY <1>1 DEF Machine
  <2>2. n = [m EXCEPT !.chan = x, !.workers = W]
      BY <1>1 DEF Machine
  <2> HIDE DEF x, W, n
  <2>3. n \in Machine /\ n.chan = x /\ n.workers = W
      BY <1>1, <2>1, <2>2 DEF Machine
  <2>4. /\ n.rr = m.rr /\ n.handle = m.handle /\ n.callbacks = m.callbacks /\ n.closed = m.closed
        /\ n.thrown = m.thrown /\ n.whenGone = m.whenGone /\ n.toWorker = m.toWorker
      BY <1>1, <2>2 DEF Machine
  <2> QED
      BY <2>3, <2>4 DEF x, W
<1>3. r = IF o.thrown \/ o.handle # NoObject \/ o.whenGone \notin {"waits", "alone"} THEN o ELSE [o EXCEPT !.whenGone = "called"]
    BY DEF OnDisconnect
<1> HIDE DEF n
<1>4. Sound(n, tm, sg)
  <2>1. Settled(n, m)
      BY <1>2 DEF Settled, Told, Sound, Answers
  <2> QED
      BY <2>1, SettledSound
<1>5. Sound(o, tm, sg) /\ Removed(o, n, w) /\ o \in Machine
    BY <1>4, RemoveSound DEF Sound
<1> HIDE DEF o
<1>6. Tabled(n, {w})
  <2>1. Tabled(m, {})
      BY LinkedTabled
  <2>2. \A v \in Workers \ {w} : n.chan[v] = m.chan[v]
      BY <1>1, <1>2 DEF Machine
  <2>3. m.workers \in SUBSET Workers /\ (m.handle # NoObject => m.handle \in Objects)
      BY <1>1 DEF Machine
  <2>4. \A h \in Objects : m.rr[h].all \in SUBSET Workers
      BY <1>1 DEF Machine, Robin
  <2> QED
      BY <1>2, <2>1, <2>2, <2>3, <2>4 DEF Tabled
<1>7. ~o.thrown => Tabled(o, {})
    BY <1>2, <1>5, <1>6, RemovedTabled
<1>8. ASSUME ~o.thrown, o.handle # NoObject PROVE \E v \in Workers : o.chan[v] = "open"
  <2>1. o.handle \in Objects /\ o.rr[o.handle].all \in SUBSET Workers
      BY <1>5, <1>8 DEF Machine, Robin
  <2> QED
      BY <1>7, <1>8, <2>1 DEF Tabled
<1>9. CASE r = o /\ (o.thrown \/ o.handle # NoObject \/ o.whenGone \notin {"waits", "alone"})
  <2>1. Linked(o)
    <3>1. CASE o.thrown
        BY <3>1 DEF Linked
    <3>2. CASE ~o.thrown
        BY <1>7, <1>8, <1>9, <3>2, LinkedTabled
    <3> QED
        BY <3>1, <3>2
  <2>2. Parted(r, m, w)
      BY <1>2, <1>5, <1>9 DEF Parted
  <2> QED
      BY <1>5, <1>9, <2>1, <2>2
<1>10. CASE r = [o EXCEPT !.whenGone = "called"] /\ ~o.thrown
  <2>1. /\ r \in Machine /\ r.whenGone = "called" /\ r.rr = o.rr /\ r.handle = o.handle /\ r.chan = o.chan
        /\ r.workers = o.workers /\ r.callbacks = o.callbacks /\ r.closed = o.closed /\ r.thrown = o.thrown
        /\ r.toWorker = o.toWorker
      BY <1>5, <1>10 DEF Machine
  <2>2. Settled(r, o)
      BY <1>5, <2>1 DEF Settled, Told, Sound, Answers
  <2>3. Sound(r, tm, sg)
      BY <1>5, <2>2, SettledSound
  <2>4. Tabled(r, {})
      BY <1>7, <1>10, <2>1 DEF Tabled
  <2>5. Linked(r)
      BY <1>10, <2>1, <2>4, LinkedTabled
  <2>6. Parted(r, m, w)
      BY <1>2, <1>5, <2>1 DEF Parted
  <2> QED
      BY <2>3, <2>5, <2>6
<1> QED
    BY <1>3, <1>9, <1>10

-----------------------------------------------------------------------------
(* The steps of the master.                                                *)

LEMMA Became ==
    ASSUME NEW r \in Machine, Become(r) PROVE Here' = r
<1>1. r = [workers |-> r.workers, handle |-> r.handle, rr |-> r.rr, closed |-> r.closed,
           callbacks |-> r.callbacks, whenGone |-> r.whenGone, thrown |-> r.thrown,
           chan |-> r.chan, toWorker |-> r.toWorker]
    BY DEF Machine
<1> QED
    BY <1>1 DEF Become, Here

LEMMA KeepsMaster ==
    ASSUME NEW r, Become(r), Sound(r, toMaster', serving'), Linked(r), Sides' PROVE MasterInv'
<1>1. Here' = r
    BY Became DEF Sound
<1>2. Sound(Here', toMaster', serving') /\ Linked(Here')
    BY <1>1
<1>3. (Sound(Here, toMaster, serving))' /\ Linked(Here)'
    BY <1>2
<1> QED
    BY <1>3 DEF MasterInv

(* The members of Here.                                                    *)
LEMMA HereIs ==
    /\ Here.workers = workers /\ Here.handle = handle /\ Here.rr = rr /\ Here.closed = closed
    /\ Here.callbacks = callbacks /\ Here.whenGone = whenGone /\ Here.thrown = thrown
    /\ Here.chan = chan /\ Here.toWorker = toWorker
BY DEF Here

LEMMA ForkKeeps ==
    ASSUME MasterInv, ~thrown, NEW w \in Workers, Fork(w) PROVE MasterInv'
<1> DEFINE m == Here
           W == m.workers \cup {w}
           a == [m.chan EXCEPT ![w] = "open"]
           g == IF m.whenGone = "alone" THEN "waits" ELSE m.whenGone
           r == [m EXCEPT !.workers = W, !.chan = a, !.whenGone = g]
<1>1. m \in Machine /\ Sound(m, toMaster, serving) /\ Linked(m) /\ ~m.thrown /\ m.chan[w] = "none" /\ Sides
    BY HereIs DEF MasterInv, Sound, Fork
<1> HIDE DEF m
<1>2. Become([m EXCEPT !.workers = @ \cup {w}, !.chan[w] = "open",
                       !.whenGone = IF @ = "alone" THEN "waits" ELSE @])
    BY DEF Fork, m
<1>3. [m EXCEPT !.workers = @ \cup {w}, !.chan[w] = "open",
                !.whenGone = IF @ = "alone" THEN "waits" ELSE @] = r
    BY <1>1 DEF Machine
<1>4. W \in SUBSET Workers /\ a \in [Workers -> {"none", "open", "closed"}] /\ a[w] = "open"
      /\ \A v \in Workers \ {w} : a[v] = m.chan[v]
    BY <1>1 DEF Machine
<1>5. W = m.workers \cup {w} /\ g \in {"none", "waits", "alone", "called"}
    BY <1>1 DEF Machine
<1> HIDE DEF W, a, g
<1>6. r \in Machine /\ r.chan = a /\ r.workers = W
    BY <1>1, <1>4, <1>5 DEF Machine
<1>7. /\ r.rr = m.rr /\ r.handle = m.handle /\ r.callbacks = m.callbacks /\ r.closed = m.closed
      /\ r.thrown = m.thrown /\ r.toWorker = m.toWorker
    BY <1>1 DEF Machine
<1> HIDE DEF r
<1>8. Sound(r, toMaster, serving)
  <2>1. Settled(r, m)
      BY <1>1, <1>6, <1>7 DEF Settled, Told, Sound, Answers
  <2> QED
      BY <1>1, <2>1, SettledSound DEF Sides
<1>9. Linked(r)
  <2>1. \A v \in Workers : m.chan[v] = "open" => r.chan[v] = "open"
      BY <1>4, <1>6
  <2>2. \A h \in Objects : m.rr[h].all \in SUBSET Workers
      BY <1>1 DEF Machine, Robin
  <2>3. m.workers \in SUBSET Workers /\ (m.handle # NoObject => m.handle \in Objects)
      BY <1>1 DEF Machine
  <2>4. \A v \in r.workers : r.chan[v] = "open"
      BY <1>1, <1>4, <1>5, <1>6, <2>1, <2>3 DEF Linked
  <2>5. r.whenGone = "waits" => \E v \in Workers : r.chan[v] = "open"
      BY <1>4, <1>6
  <2> QED
      BY <1>1, <1>6, <1>7, <2>1, <2>2, <2>3, <2>4, <2>5 DEF Linked
<1>10. Sides' /\ toMaster' = toMaster /\ serving' = serving
    BY <1>1 DEF Sides, Fork
<1> QED
    BY <1>2, <1>3, <1>8, <1>9, <1>10, KeepsMaster

(* The type of a message that the master reads.                            *)
LEMMA MessageTypes ==
    ASSUME Sides, NEW w \in Workers, toMaster[w] # <<>>
    PROVE  LET x == Head(toMaster[w])
           IN  \/ x.type = "query" /\ x = Query
               \/ x.type = "close"
               \/ x.type = "ack" /\ \E h \in Objects, c \in Conns, a \in BOOLEAN :
                    x = Ack(h, c, a) /\ x.object = h /\ x.conn = c /\ x.accepted = a
<1> DEFINE x == Head(toMaster[w])
<1>1. x \in ToMaster
    BY DEF Sides
<1> HIDE DEF x
<1>2. CASE x \in [type : {"query", "close"}]
  <2>1. x.type = "query" => x = Query
      BY <1>2 DEF Query
  <2>2. x.type \in {"query", "close"}
      BY <1>2
  <2> QED
      BY <2>1, <2>2 DEF x
<1>3. CASE x \in [type : {"ack"}, object : Objects, conn : Conns, accepted : BOOLEAN]
  <2>1. x.type = "ack" /\ x.object \in Objects /\ x.conn \in Conns /\ x.accepted \in BOOLEAN
      BY <1>3
  <2>2. x = Ack(x.object, x.conn, x.accepted)
      BY <1>3, <2>1 DEF Ack
  <2> QED
      BY <2>1, <2>2 DEF x
<1> QED
    BY <1>1, <1>2, <1>3 DEF ToMaster

LEMMA ReceivesKeeps ==
    ASSUME MasterInv, ~thrown, NEW w \in Workers, MasterReceives(w) PROVE MasterInv'
<1> DEFINE m == Here
           x == Head(toMaster[w])
<1>1. m \in Machine /\ Sound(m, toMaster, serving) /\ Linked(m) /\ ~m.thrown /\ m.chan[w] = "open" /\ Sides
    BY HereIs DEF MasterInv, Sound, MasterReceives
<1>2. /\ toMaster[w] # <<>> /\ SameChunk(w)
      /\ toMaster' = Read(toMaster, w) /\ serving' = serving /\ up' = up /\ server' = server
    BY DEF MasterReceives, Read
<1>3. Sides'
  <2>1. toMaster[w] \in Seq(ToMaster)
      BY <1>1 DEF Sides
  <2>2. Tail(toMaster[w]) \in Seq(ToMaster)
      BY <1>2, <2>1
  <2> QED
      BY <1>1, <1>2, <2>2 DEF Sides, Read
<1>4. /\ up \in [Workers -> BOOLEAN] /\ serving \in [Workers -> SUBSET Conns]
      /\ toMaster \in [Workers -> Seq(ToMaster)]
    BY <1>1 DEF Sides
<1>5. m = Here
    OBVIOUS
<1> HIDE DEF m
<1>6. Sound(m, Read(toMaster, w), serving)
    BY <1>1, <1>2, <1>4, ReadSound
<1>7. CASE x.type = "query"
  <2> DEFINE r == QueryServer(m, w)
  <2>1. Become(r)
      BY <1>5, <1>7 DEF MasterReceives
  <2>2. m.handle # NoObject \/ Unused # {}
      BY <1>5, <1>7, HereIs DEF MasterReceives
  <2>3. Sound(r, Read(toMaster, w), serving) /\ Queried(r, m, w)
      BY <1>1, <1>2, <1>4, <1>5, <1>6, <2>2, QuerySound
  <2> HIDE DEF r
  <2>4. Linked(r)
      BY <1>1, <2>3, QueryLinked
  <2> QED
      BY <1>2, <1>3, <2>1, <2>3, <2>4, KeepsMaster
<1>8. CASE x.type = "close"
  <2> DEFINE r == OnClose(m, w)
  <2>1. Become(r)
      BY <1>5, <1>8 DEF MasterReceives
  <2>2. Sound(r, Read(toMaster, w), serving) /\ Linked(r)
      BY <1>1, <1>4, <1>6, OnCloseSound
  <2> HIDE DEF r
  <2> QED
      BY <1>2, <1>3, <2>1, <2>2, KeepsMaster
<1>9. CASE x.type = "ack" /\ \E h \in Objects, c \in Conns, a \in BOOLEAN :
             x = Ack(h, c, a) /\ x.object = h /\ x.conn = c /\ x.accepted = a
  <2>1. PICK h \in Objects, c \in Conns, a \in BOOLEAN :
          x = Ack(h, c, a) /\ x.object = h /\ x.conn = c /\ x.accepted = a
      BY <1>9
  <2> DEFINE r == OnReply(m, w, h, c, a)
  <2>2. Become(OnReply(m, w, x.object, x.conn, x.accepted))
      BY <1>5, <1>9 DEF MasterReceives
  <2>3. Become(r)
      BY <2>1, <2>2
  <2>4. Head(toMaster[w]) = Ack(h, c, a)
      BY <2>1
  <2>5. Sound(r, Read(toMaster, w), serving) /\ SameLinks(r, m)
      BY <1>1, <1>2, <1>4, <2>4, ReplySound
  <2> HIDE DEF r
  <2>6. Linked(r)
      BY <1>1, <2>5, StillLinked
  <2> QED
      BY <1>2, <1>3, <2>3, <2>5, <2>6, KeepsMaster
<1>10. x.type = "query" \/ x.type = "close" \/ (x.type = "ack" /\ \E h \in Objects, c \in Conns, a \in BOOLEAN :
             x = Ack(h, c, a) /\ x.object = h /\ x.conn = c /\ x.accepted = a)
    BY <1>1, <1>2, MessageTypes
<1> QED
    BY <1>7, <1>8, <1>9, <1>10

(* One worker waits, so the fold of Listening is one call of Done.         *)
LEMMA FoldOne ==
    ASSUME NEW m, NEW h, NEW w
    PROVE  FoldLeft(LAMBDA x, y : Done(x, h, y), m, <<w>>) = Done(m, h, w)
<1> DEFINE q == <<w>>
           iter[s \in SUBSET DOMAIN q] == IF s = {} THEN m ELSE Done(iter[s \ {Max(s)}], h, q[Max(s)])
           g == [s \in SUBSET DOMAIN q |-> IF s = {} THEN m ELSE Done(m, h, w)]
<1>1. FoldLeft(LAMBDA x, y : Done(x, h, y), m, q) = iter[DOMAIN q]
    BY DEF FoldLeft, MapThenFoldSet
<1>2. DOMAIN q = {1} /\ q[1] = w
    OBVIOUS
<1> HIDE DEF q
<1>3. ASSUME NEW s \in SUBSET DOMAIN q, s # {} PROVE Max(s) = 1 /\ s \ {Max(s)} = {}
  <2>1. s = {1}
      BY <1>2, <1>3
  <2>2. Max({1}) = 1
      BY DEF Max
  <2> QED
      BY <2>1, <2>2
<1>4. g = [s \in SUBSET DOMAIN q |-> IF s = {} THEN m ELSE Done(g[s \ {Max(s)}], h, q[Max(s)])]
  <2> SUFFICES ASSUME NEW s \in SUBSET DOMAIN q
               PROVE  (IF s = {} THEN m ELSE Done(m, h, w))
                      = (IF s = {} THEN m ELSE Done(g[s \ {Max(s)}], h, q[Max(s)]))
      OBVIOUS
  <2>1. CASE s = {}
      BY <2>1
  <2>2. CASE s # {}
    <3>1. s \ {Max(s)} = {} /\ Max(s) = 1
        BY <1>3, <2>2
    <3>2. g[{}] = m
        OBVIOUS
    <3> QED
        BY <1>2, <2>2, <3>1, <3>2
  <2> QED
      BY <2>1, <2>2
<1>5. iter = [s \in SUBSET DOMAIN q |-> IF s = {} THEN m ELSE Done(iter[s \ {Max(s)}], h, q[Max(s)])]
  <2> HIDE DEF g
  <2> QED
      BY <1>4
<1> HIDE DEF iter
<1>6. iter[{}] = m
    BY <1>5
<1>7. iter[DOMAIN q] = Done(iter[DOMAIN q \ {Max(DOMAIN q)}], h, q[Max(DOMAIN q)])
    BY <1>2, <1>5
<1>8. Max(DOMAIN q) = 1 /\ DOMAIN q \ {Max(DOMAIN q)} = {}
    BY <1>2, <1>3
<1> QED
    BY <1>1, <1>2, <1>6, <1>7, <1>8 DEF q

(* A handle is bound, or cannot be.                                        *)
Bound(m, h, s, k) == [m EXCEPT !.rr[h].state = s, !.rr[h].waiting = <<>>, !.handle = k]
LEMMA BoundIs ==
    ASSUME NEW m \in Machine, NEW h \in Objects, NEW s \in {"bound", "failed"}, NEW k \in Objects \cup {NoObject},
           NEW n, n = Bound(m, h, s, k)
    PROVE  /\ n \in Machine /\ n.handle = k /\ n.rr[h].state = s /\ n.rr[h].waiting = <<>>
           /\ n.rr[h].all = m.rr[h].all /\ n.rr[h].free = m.rr[h].free /\ n.rr[h].handles = m.rr[h].handles
           /\ (\A g \in Objects \ {h} : n.rr[g] = m.rr[g])
           /\ n.workers = m.workers /\ n.closed = m.closed /\ n.callbacks = m.callbacks
           /\ n.whenGone = m.whenGone /\ n.thrown = m.thrown /\ n.chan = m.chan /\ n.toWorker = m.toWorker
<1> DEFINE x == [m.rr[h] EXCEPT !.state = s, !.waiting = <<>>]
           R == [m.rr EXCEPT ![h].state = s, ![h].waiting = <<>>]
<1>1. m.rr[h] \in Robin /\ <<>> \in Seq(Workers)
    BY DEF Machine
<1>2. /\ x \in Robin /\ x.state = s /\ x.waiting = <<>> /\ x.all = m.rr[h].all /\ x.free = m.rr[h].free
      /\ x.handles = m.rr[h].handles
    BY <1>1 DEF Robin
<1>3. R = [m.rr EXCEPT ![h] = x]
    BY <1>1 DEF Machine, Robin
<1> HIDE DEF x
<1>4. n = [m EXCEPT !.rr = R, !.handle = k]
    BY DEF Machine, Bound
<1> HIDE DEF R
<1>5. R \in [Objects -> Robin] /\ R[h] = x /\ \A g \in Objects \ {h} : R[g] = m.rr[g]
    BY <1>2, <1>3 DEF Machine
<1>6. n \in Machine /\ n.rr = R /\ n.handle = k
    BY <1>4, <1>5 DEF Machine
<1>7. /\ n.workers = m.workers /\ n.closed = m.closed /\ n.callbacks = m.callbacks
      /\ n.whenGone = m.whenGone /\ n.thrown = m.thrown /\ n.chan = m.chan /\ n.toWorker = m.toWorker
    BY <1>4 DEF Machine
<1> QED
    BY <1>2, <1>5, <1>6, <1>7

(* The facts that the steps of the master start from.                      *)
LEMMA HereSound ==
    ASSUME MasterInv
    PROVE  /\ Here \in Machine /\ Sound(Here, toMaster, serving) /\ Linked(Here)
           /\ up \in [Workers -> BOOLEAN] /\ serving \in [Workers -> SUBSET Conns]
           /\ toMaster \in [Workers -> Seq(ToMaster)]
           /\ WorkersUnchanged => Sides' /\ toMaster' = toMaster /\ serving' = serving
           /\ \A v \in Workers : Once(Here.toWorker[v], "newconn")
BY DEF MasterInv, Sound, Sides, WorkersUnchanged, Answers

LEMMA ListeningKeeps ==
    ASSUME MasterInv, ~thrown, NEW h \in Objects, Listening(h) PROVE MasterInv'
<1> DEFINE m == Here
           n == Bound(m, h, "bound", h)
<1>1. m \in Machine /\ Sound(m, toMaster, serving) /\ Linked(m) /\ ~m.thrown /\ m.rr[h].state = "binding"
    BY HereSound, HereIs DEF Listening, Binding
<1>2. m = Here
    OBVIOUS
<1> HIDE DEF m
<1>3. PICK w \in Workers : m.rr[h].waiting = <<w>> /\ m.rr[h].all = {w}
    BY <1>1 DEF Linked
<1>4. m.handle = h /\ m.chan[w] = "open" /\ h # NoObject
    BY <1>1, <1>3, ClusterAssumption DEF Linked, NoObject
<1>5. [m EXCEPT !.rr[h].state = "bound", !.rr[h].waiting = <<>>] = n
    BY <1>1, <1>4 DEF Machine, Bound
<1>6. Become(FoldLeft(LAMBDA x, y : Done(x, h, y), n, <<w>>))
    BY <1>2, <1>3, <1>5, HereIs DEF Listening
<1> DEFINE r == Done(n, h, w)
<1>7. Become(r)
    BY <1>6, FoldOne
<1>8. /\ n \in Machine /\ n.handle = h /\ n.rr[h].state = "bound" /\ n.rr[h].waiting = <<>>
      /\ n.rr[h].all = m.rr[h].all /\ n.rr[h].free = m.rr[h].free /\ n.rr[h].handles = m.rr[h].handles
      /\ (\A g \in Objects \ {h} : n.rr[g] = m.rr[g])
      /\ n.workers = m.workers /\ n.closed = m.closed /\ n.callbacks = m.callbacks
      /\ n.whenGone = m.whenGone /\ n.thrown = m.thrown /\ n.chan = m.chan /\ n.toWorker = m.toWorker
    BY <1>1, BoundIs
<1> HIDE DEF n
<1>9. Sound(n, toMaster, serving)
  <2>1. Settled(n, m)
      BY <1>1, <1>8 DEF Settled, Told, Sound, Answers
  <2> QED
      BY <1>1, <2>1, SettledSound, HereSound
<1>10. Linked(n)
    BY <1>1, <1>3, <1>4, <1>8 DEF Linked
<1>11. Sound(r, toMaster, serving) /\ SameLinks(r, n)
    BY <1>9, DoneSound, HereSound
<1> HIDE DEF r
<1>12. Linked(r)
    BY <1>8, <1>10, <1>11, StillLinked
<1>13. Sides' /\ toMaster' = toMaster /\ serving' = serving
    BY HereSound DEF Listening
<1> QED
    BY <1>7, <1>11, <1>12, <1>13, KeepsMaster

LEMMA ListenFailsKeeps ==
    ASSUME MasterInv, ~thrown, NEW h \in Objects, ListenFails(h) PROVE MasterInv'
<1> DEFINE m == Here
           n == Bound(m, h, "failed", NoObject)
           x == Reply(FALSE)
           W == ToSet(m.rr[h].waiting)
           r == SendAll(n, W, x)
<1>1. m \in Machine /\ Sound(m, toMaster, serving) /\ Linked(m) /\ ~m.thrown /\ m.rr[h].state = "binding"
    BY HereSound, HereIs DEF ListenFails, Binding
<1>2. Become(r)
    BY HereIs DEF ListenFails, Bound
<1>3. m = Here
    OBVIOUS
<1> HIDE DEF m
<1>4. m.handle = h /\ \A g \in Objects \ {h} : m.rr[g].state # "binding"
    BY <1>1 DEF Linked
<1>5. /\ n \in Machine /\ n.handle = NoObject /\ n.rr[h].state = "failed" /\ n.rr[h].waiting = <<>>
      /\ n.rr[h].all = m.rr[h].all /\ n.rr[h].free = m.rr[h].free /\ n.rr[h].handles = m.rr[h].handles
      /\ (\A g \in Objects \ {h} : n.rr[g] = m.rr[g])
      /\ n.workers = m.workers /\ n.closed = m.closed /\ n.callbacks = m.callbacks
      /\ n.whenGone = m.whenGone /\ n.thrown = m.thrown /\ n.chan = m.chan /\ n.toWorker = m.toWorker
    BY <1>1, BoundIs
<1> HIDE DEF n
<1>6. Settled(n, m)
    BY <1>1, <1>5 DEF Settled, Told, Sound, Answers
<1>7. Sound(n, toMaster, serving)
    BY <1>1, <1>6, SettledSound, HereSound
<1>8. Linked(n)
    BY <1>1, <1>4, <1>5 DEF Linked
<1>9. x \in ToWorker /\ x.type # "newconn" /\ \A v \in Workers : Once(n.toWorker[v], "newconn")
    BY <1>7 DEF Reply, ToWorker, Sound, Answers
<1> HIDE DEF x, W
<1>10. Settled(r, n) /\ SameLinks(r, n)
    BY <1>5, <1>9, SendAllQuiet, HereSound
<1> HIDE DEF r
<1>11. Sound(r, toMaster, serving)
    BY <1>7, <1>10, SettledSound, HereSound
<1>12. Linked(r)
    BY <1>5, <1>8, <1>10, StillLinked
<1>13. Sides' /\ toMaster' = toMaster /\ serving' = serving
    BY HereSound DEF ListenFails
<1> QED
    BY <1>2, <1>11, <1>12, <1>13, KeepsMaster

LEMMA NotSeen ==
    ASSUME NEW c \in Conns, c \notin Seen
    PROVE  /\ c \notin closed /\ (\A k \in callbacks : k.conn # c)
           /\ (\A h \in Objects : c \notin Held(h)) /\ \A w \in Workers : c \notin serving[w]
<1>1. c \notin closed
    BY DEF Seen
<1>2. c \notin {k.conn : k \in callbacks}
    BY DEF Seen
<1>3. c \notin UNION {Held(h) : h \in Objects}
    BY DEF Seen
<1>4. c \notin {d \in Conns : \E w \in Workers : d \in serving[w]}
    BY DEF Seen
<1> QED
    BY <1>1, <1>2, <1>3, <1>4

LEMMA ConnectionKeeps ==
    ASSUME MasterInv, ~thrown, NEW c \in Conns, OnConnection(c) PROVE MasterInv'
<1> DEFINE m == Here
           h == m.handle
           r == Distribute(m, h, c)
<1>1. m \in Machine /\ Sound(m, toMaster, serving) /\ Linked(m)
    BY HereSound
<1>2. Become(r) /\ h # NoObject
    BY HereIs DEF OnConnection
<1>3. Fresh(m, serving, c)
  <2>1. c \notin Seen
      BY DEF OnConnection
  <2>2. \A g \in Objects : Queued(m, g) = Held(g)
      BY HereIs DEF Held, Queued
  <2>3. m.closed = closed /\ m.callbacks = callbacks
      BY HereIs
  <2> HIDE DEF m
  <2> QED
      BY <2>1, <2>2, <2>3, NotSeen DEF Fresh
<1>4. h \in Objects
    BY <1>1, <1>2 DEF Machine
<1> HIDE DEF m, h
<1>5. Sound(r, toMaster, serving) /\ SameLinks(r, m)
    BY <1>1, <1>3, <1>4, DistributeSound, HereSound
<1> HIDE DEF r
<1>6. Linked(r)
    BY <1>1, <1>5, StillLinked
<1>7. Sides' /\ toMaster' = toMaster /\ serving' = serving
    BY HereSound DEF OnConnection
<1> QED
    BY <1>2, <1>5, <1>6, <1>7, KeepsMaster

LEMMA ChannelEndsKeeps ==
    ASSUME MasterInv, ~thrown, NEW w \in Workers, ChannelEnds(w) PROVE MasterInv'
<1> DEFINE r == OnDisconnect(Here, w)
<1>1. Sound(r, toMaster, serving) /\ Linked(r)
    BY OnDisconnectSound, HereSound, HereIs
<1>2. Become(r)
    BY DEF ChannelEnds
<1>3. Sides' /\ toMaster' = toMaster /\ serving' = serving
    BY HereSound DEF ChannelEnds
<1> QED
    BY <1>1, <1>2, <1>3, KeepsMaster

LEMMA DestroyKeeps ==
    ASSUME MasterInv, ~thrown, NEW w \in Workers, Destroy(w) PROVE MasterInv'
<1> DEFINE r == OnDisconnect(Here, w)
<1>1. NoMore(toMaster', serving, toMaster, serving)
  <2>1. toMaster'[w] = <<>> /\ \A v \in Workers \ {w} : toMaster'[v] = toMaster[v]
      BY HereSound DEF Destroy
  <2>2. \A v \in Workers : Once(toMaster[v], "ack")
      BY HereSound DEF Sound, Answers
  <2>3. Once(<<>>, "ack") /\ ToSet(<<>>) = {}
      BY DEF Once, ToSet
  <2> QED
      BY <2>1, <2>2, <2>3 DEF NoMore
<1>2. Sound(Here, toMaster', serving)
    BY <1>1, HereSound, SettledSelf, QuietSound
<1>3. Sound(r, toMaster', serving) /\ Linked(r)
    BY <1>2, OnDisconnectSound, HereSound, HereIs
<1>4. Become(r) /\ serving' = serving
    BY DEF Destroy
<1>5. Sides'
    BY DEF Destroy, MasterInv, Sides
<1> QED
    BY <1>3, <1>4, <1>5, KeepsMaster

LEMMA ExitKeeps ==
    ASSUME MasterInv, ~thrown, NEW w \in Workers, ExitEvent(w) PROVE MasterInv'
<1> DEFINE m == Here
           r == [m EXCEPT !.workers = @ \ {w}]
<1>1. m \in Machine /\ Sound(m, toMaster, serving) /\ Linked(m)
    BY HereSound
<1>2. Become(r)
    BY DEF ExitEvent
<1> HIDE DEF m
<1>3. /\ r.workers = m.workers \ {w} /\ r.rr = m.rr /\ r.handle = m.handle /\ r.callbacks = m.callbacks
      /\ r.closed = m.closed /\ r.thrown = m.thrown /\ r.whenGone = m.whenGone /\ r.chan = m.chan
      /\ r.toWorker = m.toWorker
    BY <1>1 DEF Machine
<1>4. r \in Machine
    BY <1>1 DEF Machine
<1> HIDE DEF r
<1>5. Sound(r, toMaster, serving)
  <2>1. Settled(r, m)
      BY <1>1, <1>3, <1>4 DEF Settled, Told, Sound, Answers
  <2> QED
      BY <1>1, <2>1, SettledSound, HereSound
<1>6. Linked(r)
    BY <1>1, <1>3 DEF Linked
<1>7. Sides' /\ toMaster' = toMaster /\ serving' = serving
    BY HereSound DEF ExitEvent
<1> QED
    BY <1>2, <1>5, <1>6, <1>7, KeepsMaster

LEMMA DisconnectKeeps ==
    ASSUME MasterInv, ~thrown, NEW w \in Workers, Disconnect(w) PROVE MasterInv'
<1> DEFINE x == [type |-> "disconnect"]
           r == Send(Here, w, x)
<1>1. x \in ToWorker /\ x.type # "newconn"
    BY DEF ToWorker
<1>2. Become(r)
    BY DEF Disconnect
<1> HIDE DEF x
<1>3. Settled(r, Here) /\ SameLinks(r, Here)
    BY <1>1, SendQuiet, HereSound
<1> HIDE DEF r
<1>4. Sound(r, toMaster, serving) /\ Linked(r)
    BY <1>3, SettledSound, StillLinked, HereSound
<1>5. Sides' /\ toMaster' = toMaster /\ serving' = serving
    BY HereSound DEF Disconnect
<1> QED
    BY <1>2, <1>4, <1>5, KeepsMaster

LEMMA ClusterDisconnectKeeps ==
    ASSUME MasterInv, ~thrown, ClusterDisconnect PROVE MasterInv'
<1> DEFINE m == Here
           g == IF Connected = {} THEN "alone" ELSE "waits"
           n == [m EXCEPT !.whenGone = g]
           x == [type |-> "disconnect"]
           r == SendAll(n, workers, x)
<1>1. m \in Machine /\ Sound(m, toMaster, serving) /\ Linked(m) /\ ~m.thrown
    BY HereSound, HereIs DEF ClusterDisconnect
<1>2. Become(r)
    BY DEF ClusterDisconnect
<1>g. g \in {"alone", "waits"} /\ (g = "waits" => \E v \in Workers : m.chan[v] = "open")
    BY HereIs DEF Connected, m
<1> HIDE DEF m, g
<1>3. /\ n \in Machine /\ n.whenGone = g /\ n.rr = m.rr /\ n.handle = m.handle /\ n.callbacks = m.callbacks
      /\ n.closed = m.closed /\ n.thrown = m.thrown /\ n.workers = m.workers /\ n.chan = m.chan
      /\ n.toWorker = m.toWorker
    BY <1>1, <1>g DEF Machine
<1> HIDE DEF n
<1>4. Sound(n, toMaster, serving)
  <2>1. Settled(n, m)
      BY <1>1, <1>3 DEF Settled, Told, Sound, Answers
  <2> QED
      BY <1>1, <2>1, SettledSound, HereSound
<1>5. Linked(n)
    BY <1>1, <1>3, <1>g DEF Linked
<1>6. x \in ToWorker /\ x.type # "newconn" /\ \A v \in Workers : Once(n.toWorker[v], "newconn")
    BY <1>4 DEF ToWorker, Sound, Answers
<1> HIDE DEF x
<1>7. Settled(r, n) /\ SameLinks(r, n)
    BY <1>3, <1>6, SendAllQuiet, HereSound
<1> HIDE DEF r
<1>8. Sound(r, toMaster, serving)
    BY <1>4, <1>7, SettledSound, HereSound
<1>9. Linked(r)
    BY <1>3, <1>5, <1>7, StillLinked
<1>10. Sides' /\ toMaster' = toMaster /\ serving' = serving
    BY HereSound DEF ClusterDisconnect
<1> QED
    BY <1>2, <1>8, <1>9, <1>10, KeepsMaster

-----------------------------------------------------------------------------
(* The steps of the workers.                                               *)

LEMMA WorkerChange ==
    ASSUME MasterInv, MasterUnchanged, toWorker' \in [Workers -> Seq(ToWorker)]
    PROVE  /\ Here' \in Machine /\ SameLinks(Here', Here) /\ Here'.rr = Here.rr /\ Here'.closed = Here.closed
           /\ Here'.callbacks = Here.callbacks /\ Here'.toWorker = toWorker' /\ Linked(Here)'
<1> DEFINE m == Here
           r == [m EXCEPT !.toWorker = toWorker']
<1>1. m \in Machine /\ Linked(m)
    BY HereSound
<1>2. Here' = r
    BY DEF MasterUnchanged, Here
<1> HIDE DEF m
<1>3. /\ r \in Machine /\ r.closed = m.closed /\ r.callbacks = m.callbacks /\ r.rr = m.rr
      /\ r.toWorker = toWorker' /\ r.workers = m.workers /\ r.handle = m.handle
      /\ r.whenGone = m.whenGone /\ r.chan = m.chan /\ r.thrown = m.thrown
    BY <1>1, ChannelsChange
<1> HIDE DEF r
<1>4. SameLinks(r, m)
    BY <1>3 DEF SameLinks
<1>5. Linked(r)
    BY <1>1, <1>4, StillLinked
<1>6. Linked(Here)'
    BY <1>2, <1>5
<1> QED
    BY <1>2, <1>3, <1>4, <1>6 DEF m

(* A step that accepts and answers nothing.                                *)
LEMMA QuietWorker ==
    ASSUME MasterInv, MasterUnchanged, Sides', toWorker' \in [Workers -> Seq(ToWorker)],
           \A w \in Workers : Once(toWorker'[w], "newconn") /\ ToSet(toWorker'[w]) \subseteq ToSet(toWorker[w]),
           NoMore(toMaster', serving', toMaster, serving)
    PROVE  MasterInv'
<1>1. Settled(Here', Here)
    BY WorkerChange, HereIs DEF Settled, Told
<1>2. Sound(Here', toMaster', serving')
    BY <1>1, QuietSound, HereSound
<1>3. (Sound(Here, toMaster, serving))' /\ Linked(Here)'
    BY <1>2, WorkerChange
<1> QED
    BY <1>3 DEF MasterInv

(* What the channels carry before a step of a worker.                      *)
LEMMA ChannelsSound ==
    ASSUME MasterInv
    PROVE  /\ Sides /\ toWorker \in [Workers -> Seq(ToWorker)]
           /\ \A w \in Workers : Once(toWorker[w], "newconn") /\ Once(toMaster[w], "ack")
BY HereIs DEF MasterInv, Sound, Answers, Machine

(* A query or a close is sent.                                             *)
LEMMA TellQuiet ==
    ASSUME MasterInv, NEW w \in Workers, NEW x \in ToMaster, x.type # "ack", Tell(w, x),
           \A v \in Workers : serving'[v] \subseteq serving[v]
    PROVE  /\ toMaster' \in [Workers -> Seq(ToMaster)] /\ NoMore(toMaster', serving', toMaster, serving)
           /\ toMaster'[w] = toMaster[w] \/ toMaster'[w] = Append(toMaster[w], x)
           /\ \A v \in Workers \ {w} : toMaster'[v] = toMaster[v]
<1> DEFINE q == toMaster[w]
<1>1. q \in Seq(ToMaster) /\ Once(q, "ack") /\ toMaster \in [Workers -> Seq(ToMaster)]
    BY ChannelsSound DEF Sides
<1>2. LET p == Append(q, x) IN p \in Seq(ToMaster) /\ Once(p, "ack") /\ ToSet(p) = ToSet(q) \cup {x}
    BY <1>1, Appended
<1>3. \A h, c, a : Ack(h, c, a) # x
    BY DEF Ack
<1>4. /\ toMaster'[w] = q \/ toMaster'[w] = Append(q, x)
      /\ \A v \in Workers \ {w} : toMaster'[v] = toMaster[v]
    BY <1>1 DEF Tell
<1>5. toMaster' \in [Workers -> Seq(ToMaster)]
    BY <1>1, <1>2 DEF Tell
<1> HIDE DEF q
<1>6. \A v \in Workers : /\ Once(toMaster'[v], "ack")
                        /\ ToSet(toMaster'[v]) \subseteq ToSet(toMaster[v]) \cup {x}
  <2>1. Once(toMaster'[w], "ack") /\ ToSet(toMaster'[w]) \subseteq ToSet(q) \cup {x}
      BY <1>1, <1>2, <1>4
  <2> QED
      BY <1>4, <2>1, ChannelsSound DEF q
<1>7. NoMore(toMaster', serving', toMaster, serving)
    BY <1>3, <1>6 DEF NoMore
<1> QED
    BY <1>4, <1>5, <1>7 DEF q

LEMMA ListenKeeps ==
    ASSUME MasterInv, NEW w \in Workers, Listen(w) PROVE MasterInv'
<1>1. [type |-> "query"] \in ToMaster /\ [type |-> "query"].type # "ack"
    BY DEF ToMaster
<1>2. /\ toMaster' \in [Workers -> Seq(ToMaster)] /\ NoMore(toMaster', serving', toMaster, serving)
    BY <1>1, TellQuiet DEF Listen
<1>3. Sides' /\ MasterUnchanged /\ toWorker' = toWorker
    BY <1>2, ChannelsSound DEF Listen, Sides
<1> QED
    BY <1>2, <1>3, QuietWorker, ChannelsSound

LEMMA CloseKeeps ==
    ASSUME MasterInv, NEW w \in Workers, CloseServer(w) PROVE MasterInv'
<1>1. [type |-> "close"] \in ToMaster /\ [type |-> "close"].type # "ack"
    BY DEF ToMaster
<1>2. /\ toMaster' \in [Workers -> Seq(ToMaster)] /\ NoMore(toMaster', serving', toMaster, serving)
    BY <1>1, TellQuiet DEF CloseServer
<1>3. Sides' /\ MasterUnchanged /\ toWorker' = toWorker
    BY <1>2, ChannelsSound DEF CloseServer, Sides
<1> QED
    BY <1>2, <1>3, QuietWorker, ChannelsSound

(* The first message to a worker is read.                                  *)
LEMMA WorkerReads ==
    ASSUME MasterInv, NEW w \in Workers, toWorker[w] # <<>>, toWorker' = [toWorker EXCEPT ![w] = Tail(@)]
    PROVE  /\ toWorker' \in [Workers -> Seq(ToWorker)]
           /\ \A v \in Workers : Once(toWorker'[v], "newconn") /\ ToSet(toWorker'[v]) \subseteq ToSet(toWorker[v])
           /\ Head(toWorker[w]) \in ToWorker /\ Head(toWorker[w]) \in ToSet(toWorker[w])
           /\ Head(toWorker[w]).type = "newconn" => Head(toWorker[w]) \notin ToSet(toWorker'[w])
<1> DEFINE q == toWorker[w]
<1>1. q \in Seq(ToWorker) /\ Once(q, "newconn") /\ q # <<>> /\ toWorker \in [Workers -> Seq(ToWorker)]
    BY ChannelsSound
<1>2. /\ Tail(q) \in Seq(ToWorker) /\ Head(q) \in ToWorker /\ ToSet(q) = ToSet(Tail(q)) \cup {Head(q)}
      /\ Once(Tail(q), "newconn") /\ (Head(q).type = "newconn" => Head(q) \notin ToSet(Tail(q)))
    BY <1>1, Tailed
<1>3. toWorker'[w] = Tail(q) /\ \A v \in Workers \ {w} : toWorker'[v] = toWorker[v]
    BY <1>1
<1>4. toWorker' \in [Workers -> Seq(ToWorker)]
    BY <1>1, <1>2
<1> HIDE DEF q
<1>5. \A v \in Workers : Once(toWorker'[v], "newconn") /\ ToSet(toWorker'[v]) \subseteq ToSet(toWorker[v])
    BY <1>2, <1>3, ChannelsSound DEF q
<1> QED
    BY <1>2, <1>3, <1>4, <1>5 DEF q

LEMMA ReplyKeeps ==
    ASSUME MasterInv, NEW w \in Workers, WorkerGotReply(w) PROVE MasterInv'
<1>1. Sides' /\ MasterUnchanged /\ toMaster' = toMaster /\ serving' = serving
    BY ChannelsSound DEF WorkerGotReply, Sides
<1>2. NoMore(toMaster', serving', toMaster, serving)
    BY <1>1, ChannelsSound DEF NoMore
<1> QED
    BY <1>1, <1>2, QuietWorker, WorkerReads DEF WorkerGotReply

(* A worker's process ends; it may have sent a last close.                 *)
LEMMA LeaveKeeps ==
    ASSUME MasterInv, NEW w \in Workers, Leave(w), Tell(w, [type |-> "close"]) \/ UNCHANGED toMaster
    PROVE  MasterInv'
<1>1. /\ up' = [up EXCEPT ![w] = FALSE] /\ server' = [server EXCEPT ![w] = "was"]
      /\ serving' = [serving EXCEPT ![w] = {}] /\ toWorker' = [toWorker EXCEPT ![w] = <<>>] /\ MasterUnchanged
    BY DEF Leave
<1>2. \A v \in Workers : serving'[v] \subseteq serving[v]
    BY <1>1, ChannelsSound DEF Sides
<1>3. /\ toMaster' \in [Workers -> Seq(ToMaster)] /\ NoMore(toMaster', serving', toMaster, serving)
  <2>1. CASE Tell(w, [type |-> "close"])
    <3>1. [type |-> "close"] \in ToMaster /\ [type |-> "close"].type # "ack"
        BY DEF ToMaster
    <3> QED
        BY <1>2, <2>1, <3>1, TellQuiet
  <2>2. CASE UNCHANGED toMaster
      BY <1>2, <2>2, ChannelsSound DEF NoMore, Sides
  <2> QED
      BY <2>1, <2>2
<1>4. Sides'
    BY <1>1, <1>3, ChannelsSound DEF Sides
<1>5. toWorker' \in [Workers -> Seq(ToWorker)]
    BY <1>1, ChannelsSound
<1>6. \A v \in Workers : Once(toWorker'[v], "newconn") /\ ToSet(toWorker'[v]) \subseteq ToSet(toWorker[v])
  <2>1. Once(<<>>, "newconn") /\ ToSet(<<>>) = {}
      BY DEF Once, ToSet
  <2>2. toWorker'[w] = <<>> /\ \A v \in Workers \ {w} : toWorker'[v] = toWorker[v]
      BY <1>1, ChannelsSound
  <2> QED
      BY <2>1, <2>2, ChannelsSound
<1> QED
    BY <1>1, <1>3, <1>4, <1>5, <1>6, QuietWorker

LEMMA ConnectionEndsKeeps ==
    ASSUME MasterInv, NEW w \in Workers, ConnectionEnds(w) PROVE MasterInv'
<1>1. MasterUnchanged /\ toWorker' = toWorker /\ toMaster' = toMaster /\ up' = up /\ server' = server
    BY DEF ConnectionEnds
<1>2. PICK c \in serving[w] : serving' = [serving EXCEPT ![w] = @ \ {c}]
    BY DEF ConnectionEnds
<1>3. \A v \in Workers : serving'[v] \subseteq serving[v]
    BY <1>2, ChannelsSound DEF Sides
<1>4. NoMore(toMaster', serving', toMaster, serving)
    BY <1>1, <1>3, ChannelsSound DEF NoMore
<1>5. Sides'
    BY <1>1, <1>2, ChannelsSound DEF Sides
<1> QED
    BY <1>1, <1>4, <1>5, QuietWorker, ChannelsSound

(* A connection reaches a worker, which accepts it or sends it back.       *)
LEMMA NewConnKeeps ==
    ASSUME MasterInv, NEW w \in Workers, OnNewConn(w) PROVE MasterInv'
<1> DEFINE m == Here
           n == Here'
           x == Head(toWorker[w])
           a == Accepts(w)
<1>1. /\ toWorker[w] # <<>> /\ x.type = "newconn" /\ toWorker' = [toWorker EXCEPT ![w] = Tail(@)]
      /\ Tell(w, Ack(x.object, x.conn, a)) /\ MasterUnchanged /\ up' = up /\ server' = server
      /\ serving' = [serving EXCEPT ![w] = IF a THEN @ \cup {x.conn} ELSE @]
    BY DEF OnNewConn
<1>2. /\ toWorker' \in [Workers -> Seq(ToWorker)]
      /\ \A v \in Workers : Once(toWorker'[v], "newconn") /\ ToSet(toWorker'[v]) \subseteq ToSet(toWorker[v])
      /\ x \in ToWorker /\ x \in ToSet(toWorker[w]) /\ x \notin ToSet(toWorker'[w])
    BY <1>1, WorkerReads
<1>3. PICK h \in Objects, c \in Conns : x = NewConn(h, c) /\ x.object = h /\ x.conn = c
  <2> HIDE DEF x
  <2>1. x \in [type : {"newconn"}, object : Objects, conn : Conns]
      BY <1>1, <1>2 DEF ToWorker
  <2> QED
      BY <2>1 DEF NewConn
<1>4. a \in BOOLEAN
    BY DEF Accepts
<1> HIDE DEF a
<1> DEFINE y == Ack(h, c, a)
           q == toMaster[w]
<1>5. /\ Sound(m, toMaster, serving) /\ serving \in [Workers -> SUBSET Conns]
      /\ toMaster \in [Workers -> Seq(ToMaster)] /\ Sides
    BY HereSound, ChannelsSound
<1>6. Told(m, w) = ToSet(toWorker[w]) /\ m.toWorker = toWorker
    BY HereIs DEF Told
<1>7. /\ n \in Machine /\ n.rr = m.rr /\ n.closed = m.closed /\ n.callbacks = m.callbacks
      /\ n.toWorker = toWorker' /\ Linked(Here)'
    BY <1>1, <1>2, WorkerChange
<1> HIDE DEF m, n
<1>8. Asked(m, toMaster, w, h, c) /\ NewConn(h, c) \in Told(m, w)
    BY <1>2, <1>3, <1>5, <1>6 DEF Sound, Answers
<1>9. CallTo(w, h, c) \in m.callbacks /\ \A b \in BOOLEAN : Ack(h, c, b) \notin ToSet(q)
    BY <1>8 DEF Asked
<1>10. /\ CallTo(w, h, c).worker = w /\ CallTo(w, h, c).conn = c
       /\ \A v, g, d : CallTo(v, g, d) = CallTo(w, h, c) => v = w /\ g = h /\ d = c
    BY DEF CallTo
<1>11. c \notin m.closed /\ \A k \in m.callbacks : k.conn = c => k = CallTo(w, h, c)
    BY <1>5, <1>9, <1>10 DEF Sound, Placed
<1>12. ASSUME NEW v \in Workers PROVE c \notin serving[v]
  <2> SUFFICES ASSUME c \in serving[v] PROVE FALSE
      OBVIOUS
  <2>1. Taken(m, toMaster, serving, v, c)
      BY <1>5 DEF Sound, Served
  <2>2. v = w
      BY <1>10, <1>11, <2>1 DEF Taken
  <2> QED
      BY <1>8, <2>1, <2>2 DEF Taken
<1>13. q \in Seq(ToMaster) /\ Once(q, "ack") /\ y \in ToMaster /\ y \notin ToSet(q)
    BY <1>4, <1>5, <1>9 DEF Sound, Answers, Ack, ToMaster
<1>14. LET p == Append(q, y) IN p \in Seq(ToMaster) /\ Once(p, "ack") /\ ToSet(p) = ToSet(q) \cup {y}
    BY <1>13, Appended
<1>15. toMaster' = [toMaster EXCEPT ![w] = IF chan[w] = "open" THEN Append(q, y) ELSE q]
    BY <1>1, <1>3, <1>5 DEF Tell
<1>16. \A g \in Objects, d \in Conns, b \in BOOLEAN : Ack(g, d, b) = y => g = h /\ d = c /\ b = a
    BY DEF Ack
<1> HIDE DEF x, y, q
<1>17. /\ toMaster'[w] = Append(q, y) \/ toMaster'[w] = q
       /\ \A v \in Workers \ {w} : toMaster'[v] = toMaster[v]
    BY <1>5, <1>15 DEF q
<1>18. toMaster' \in [Workers -> Seq(ToMaster)]
    BY <1>5, <1>13, <1>14, <1>15
<1>19. /\ ToSet(toMaster'[w]) \subseteq ToSet(toMaster[w]) \cup {y} /\ Once(toMaster'[w], "ack")
       /\ \A v \in Workers \ {w} : toMaster'[v] = toMaster[v]
    BY <1>13, <1>14, <1>17 DEF q
<1>20. ASSUME NEW v \in Workers, NEW g \in Objects, NEW d \in Conns, NEW b \in BOOLEAN, Ack(g, d, b) \in ToSet(toMaster'[v])
       PROVE  Ack(g, d, b) \in ToSet(toMaster[v]) \/ (v = w /\ g = h /\ d = c /\ b = a)
    BY <1>16, <1>19, <1>20
<1>21. ASSUME NEW v \in Workers PROVE Told(n, v) \subseteq Told(m, v)
    BY <1>2, <1>6, <1>7 DEF Told
<1>22. NewConn(h, c) \notin Told(n, w)
    BY <1>2, <1>3, <1>7 DEF Told
<1>23. Placed(n)
    BY <1>5, <1>7 DEF Sound, Placed, Queued
<1>24. ASSUME NEW v \in Workers, NEW g \in Objects, NEW d \in Conns PROVE Asked(n, toMaster', v, g, d)
  <2>1. Asked(m, toMaster, v, g, d)
      BY <1>5 DEF Sound, Answers
  <2>2. CASE v = w /\ g = h /\ d = c
    <3>1. ASSUME NEW b \in BOOLEAN, Ack(h, c, b) \in ToSet(toMaster'[w])
          PROVE  CallTo(w, h, c) \in n.callbacks /\ Ack(h, c, ~b) \notin ToSet(toMaster'[w])
      <4>1. b = a
          BY <1>9, <1>20, <3>1 DEF q
      <4>2. (~b) \in BOOLEAN /\ (~b) # b
          OBVIOUS
      <4>3. Ack(h, c, ~b) \in ToSet(toMaster'[w]) => (~b) = a
          BY <1>9, <1>20, <4>2 DEF q
      <4> QED
          BY <1>7, <1>9, <4>1, <4>2, <4>3
    <3> QED
        BY <1>22, <2>2, <3>1 DEF Asked
  <2>3. CASE ~(v = w /\ g = h /\ d = c)
    <3>1. \A b \in BOOLEAN : Ack(g, d, b) \in ToSet(toMaster'[v]) => Ack(g, d, b) \in ToSet(toMaster[v])
        BY <1>20, <2>3
    <3>2. NewConn(g, d) \in Told(n, v) => NewConn(g, d) \in Told(m, v)
        BY <1>21
    <3> QED
        BY <1>7, <2>1, <3>1, <3>2 DEF Asked
  <2> QED
      BY <2>2, <2>3
<1>25. Answers(n, toMaster')
  <2>1. \A v \in Workers : Once(n.toWorker[v], "newconn") /\ Once(toMaster'[v], "ack")
      BY <1>2, <1>5, <1>7, <1>19 DEF Sound, Answers
  <2> QED
      BY <1>24, <2>1 DEF Answers
<1>26. ASSUME NEW v \in Workers, NEW d \in serving'[v]
       PROVE  d \in serving[v] \/ (v = w /\ d = c /\ a = TRUE)
    BY <1>1, <1>3, <1>4, <1>5
<1>27. ASSUME NEW v \in Workers, NEW d \in serving'[v] PROVE Taken(n, toMaster', serving', v, d)
  <2>1. CASE d \in serving[v]
    <3>1. Taken(m, toMaster, serving, v, d) /\ d \in Conns /\ d # c
        BY <1>5, <1>12, <2>1 DEF Sound, Served
    <3>2. \A g \in Objects : /\ NewConn(g, d) \notin Told(n, v)
                             /\ Ack(g, d, FALSE) \notin ToSet(toMaster'[v])
        BY <1>20, <1>21, <3>1 DEF Taken
    <3>3. \A u \in Workers : d \in serving'[u] => u = v
        BY <1>26, <3>1 DEF Taken
    <3> QED
        BY <1>7, <3>1, <3>2, <3>3 DEF Taken
  <2>2. CASE v = w /\ d = c /\ a = TRUE
    <3>1. ASSUME NEW g \in Objects PROVE NewConn(g, c) \notin Told(n, w)
      <4>1. Asked(m, toMaster, w, g, c)
          BY <1>5 DEF Sound, Answers
      <4>2. NewConn(g, c) \in Told(n, w) => CallTo(w, g, c) \in m.callbacks
          BY <1>21, <4>1 DEF Asked
      <4>3. CallTo(w, g, c).conn = c
          BY DEF CallTo
      <4>4. NewConn(g, c) \in Told(n, w) => g = h
          BY <1>10, <1>11, <4>2, <4>3
      <4> QED
          BY <1>22, <4>4
    <3>2. ASSUME NEW g \in Objects PROVE Ack(g, c, FALSE) \notin ToSet(toMaster'[w])
      <4> SUFFICES ASSUME Ack(g, c, FALSE) \in ToSet(toMaster'[w]) PROVE FALSE
          OBVIOUS
      <4>1. Ack(g, c, FALSE) \in ToSet(toMaster[w])
          BY <1>20, <2>2
      <4>2. Asked(m, toMaster, w, g, c)
          BY <1>5 DEF Sound, Answers
      <4>3. CallTo(w, g, c) \in m.callbacks
          BY <4>1, <4>2 DEF Asked
      <4>4. CallTo(w, g, c).conn = c
          BY DEF CallTo
      <4>5. g = h
          BY <1>10, <1>11, <4>3, <4>4
      <4> QED
          BY <1>9, <4>1, <4>5 DEF q
    <3>3. \A u \in Workers : c \in serving'[u] => u = w
        BY <1>12, <1>26
    <3>4. \E k \in n.callbacks : k.worker = w /\ k.conn = c
        BY <1>7, <1>9, <1>10
    <3> QED
        BY <2>2, <3>1, <3>2, <3>3, <3>4 DEF Taken
  <2> QED
      BY <1>26, <2>1, <2>2
<1>28. Served(n, toMaster', serving')
    BY <1>27 DEF Served
<1>29. Sound(n, toMaster', serving')
    BY <1>7, <1>23, <1>25, <1>28 DEF Sound
<1>30. Sides'
  <2>1. serving' \in [Workers -> SUBSET Conns]
      BY <1>1, <1>3, <1>5
  <2> QED
      BY <1>1, <1>5, <1>18, <2>1 DEF Sides
<1>31. (Sound(Here, toMaster, serving))'
    BY <1>29 DEF n
<1> QED
    BY <1>7, <1>30, <1>31 DEF MasterInv

-----------------------------------------------------------------------------
LEMMA MasterInit ==
    ASSUME Init PROVE MasterInv
<1> DEFINE m == Here
<1>1. m.rr = [h \in Objects |-> [state |-> "unused", all |-> {}, free |-> <<>>,
                               handles |-> <<>>, waiting |-> <<>>]]
      /\ m.workers = {} /\ m.handle = NoObject /\ m.callbacks = {} /\ m.closed = {} /\ m.whenGone = "none"
      /\ m.thrown = FALSE /\ m.chan = [w \in Workers |-> "none"] /\ m.toWorker = [w \in Workers |-> <<>>]
    BY HereIs DEF Init
<1>2. Sides /\ serving = [w \in Workers |-> {}] /\ toMaster = [w \in Workers |-> <<>>]
    BY DEF Init, Sides
<1>3. m \in Machine
  <2>1. m = [workers |-> m.workers, handle |-> m.handle, rr |-> m.rr, closed |-> m.closed,
             callbacks |-> m.callbacks, whenGone |-> m.whenGone, thrown |-> m.thrown,
             chan |-> m.chan, toWorker |-> m.toWorker]
      BY DEF Here
  <2>2. m.rr \in [Objects -> Robin]
      BY <1>1 DEF Robin
  <2>3. m.chan \in [Workers -> {"none", "open", "closed"}] /\ m.toWorker \in [Workers -> Seq(ToWorker)]
      BY <1>1
  <2> HIDE DEF m
  <2> QED
      BY <1>1, <2>1, <2>2, <2>3 DEF Machine
<1> HIDE DEF m
<1>4. ToSet(<<>>) = {} /\ Distinct(<<>>) /\ Once(<<>>, "newconn") /\ Once(<<>>, "ack")
    BY DEF ToSet, Distinct, Once
<1>5. \A h \in Objects : m.rr[h].handles = <<>> /\ Queued(m, h) = {} /\ m.rr[h].all = {}
                         /\ m.rr[h].waiting = <<>> /\ m.rr[h].state = "unused"
    BY <1>1, <1>4 DEF Queued
<1>6. \A w \in Workers : /\ m.toWorker[w] = <<>> /\ Told(m, w) = {} /\ toMaster[w] = <<>>
                         /\ ToSet(toMaster[w]) = {} /\ serving[w] = {}
    BY <1>1, <1>2, <1>4 DEF Told
<1>7. Placed(m)
    BY <1>1, <1>4, <1>5 DEF Placed
<1>8. Answers(m, toMaster)
    BY <1>4, <1>6 DEF Answers, Asked
<1>9. Served(m, toMaster, serving)
    BY <1>6 DEF Served
<1>10. Linked(m)
    BY <1>1, <1>5 DEF Linked
<1> QED
    BY <1>2, <1>3, <1>7, <1>8, <1>9, <1>10 DEF MasterInv, Sound, m

LEMMA MasterNext ==
    ASSUME MasterInv, [Next]_vars PROVE MasterInv'
<1>1. CASE UNCHANGED vars
  <2>1. Here' = Here /\ toMaster' = toMaster /\ serving' = serving
      BY <1>1 DEF vars, Here
  <2>2. (Sound(Here, toMaster, serving))' /\ Linked(Here)'
      BY <2>1, HereSound
  <2>3. Sides'
      BY <1>1 DEF vars, MasterInv, Sides
  <2> QED
      BY <2>2, <2>3 DEF MasterInv
<1>2. CASE MasterStep
    BY <1>2, ForkKeeps, ReceivesKeeps, ChannelEndsKeeps, ExitKeeps, DisconnectKeeps, DestroyKeeps,
       ListeningKeeps, ListenFailsKeeps, ConnectionKeeps, ClusterDisconnectKeeps DEF MasterStep
<1>3. CASE WorkerStep
  <2>1. PICK w \in Workers :
          \/ Listen(w) \/ CloseServer(w) \/ WorkerGotReply(w) \/ OnNewConn(w)
          \/ WorkerDisconnects(w) \/ OnDisconnectMessage(w) \/ WorkerDies(w)
          \/ ConnectionEnds(w)
      BY <1>3 DEF WorkerStep
  <2>2. CASE WorkerDisconnects(w) \/ OnDisconnectMessage(w) \/ WorkerDies(w)
    <3>1. Leave(w) /\ (Tell(w, [type |-> "close"]) \/ UNCHANGED toMaster)
        BY <2>2 DEF WorkerDisconnects, OnDisconnectMessage, WorkerDies, Disconnects
    <3> QED
        BY <3>1, LeaveKeeps
  <2> QED
      BY <2>1, <2>2, ListenKeeps, CloseKeeps, ReplyKeeps, NewConnKeeps, ConnectionEndsKeeps
<1> QED
    BY <1>1, <1>2, <1>3 DEF Next

LEMMA MasterSafe ==
    ASSUME MasterInv PROVE AcceptedOnce /\ NotForgotten
<1> DEFINE m == Here
<1>1. /\ Sound(m, toMaster, serving) /\ Linked(m) /\ serving \in [Workers -> SUBSET Conns]
      /\ \A h \in Objects : Queued(m, h) = Held(h)
    BY HereSound, HereIs DEF Queued, Held
<1>2. NotForgotten
    BY <1>1, HereIs DEF NotForgotten, Connected, Linked
<1> HIDE DEF m
<1>3. ASSUME NEW w \in Workers, NEW c \in serving[w]
      PROVE  (\A v \in Workers \ {w} : c \notin serving[v]) /\ \A h \in Objects : c \notin Held(h)
  <2>1. Taken(m, toMaster, serving, w, c)
      BY <1>1 DEF Sound, Served
  <2> QED
      BY <1>1, <2>1 DEF Taken, Sound, Placed
<1> QED
    BY <1>2, <1>3 DEF AcceptedOnce

(* Whatever the workers do, and whether or not they listen again: a        *)
(* connection that a worker serves is served by no other and is not queued *)
(* again, and the callback of cluster.disconnect() is not forgotten.       *)
THEOREM ServedOnce == Spec => [](AcceptedOnce /\ NotForgotten)
<1>1. Init => MasterInv
    BY MasterInit
<1>2. MasterInv /\ [Next]_vars => MasterInv'
    BY MasterNext
<1>3. MasterInv => AcceptedOnce /\ NotForgotten
    BY MasterSafe
<1> QED
    BY <1>1, <1>2, <1>3, PTL DEF Spec

-----------------------------------------------------------------------------
(* Turns: the invariant without programs that listen again.                *)

Free(m, h)  == ToSet(m.rr[h].free)
Waits(m, h) == ToSet(m.rr[h].waiting)

(* A worker that is connected has one connection to answer for, is free in *)
(* one handle and once, or waits for its handle to be bound.               *)
OneCall(m)  == \A k, l \in m.callbacks : k.worker = l.worker /\ m.chan[k.worker] = "open" => k = l
FreeOnce(m) == /\ \A h \in Objects : Distinct(m.rr[h].free) /\ Free(m, h) \subseteq m.rr[h].all
               /\ \A g, h \in Objects : \A w \in Workers : w \in Free(m, g) /\ w \in Free(m, h) => g = h
Apart(m)    == /\ \A k \in m.callbacks, h \in Objects :
                    /\ m.chan[k.worker] = "open" => k.worker \notin Free(m, h)
                    /\ k.worker \notin Waits(m, h)
               /\ \A g, h \in Objects : \A w \in Workers : w \in Waits(m, g) => w \notin Free(m, h)
InTurn(m)   == OneCall(m) /\ FreeOnce(m) /\ Apart(m)
Idle(m)     == \A h \in Objects : m.rr[h].handles # <<>> => m.rr[h].free = <<>>

(* The worker is not known to any handle; or it is, and has nothing to do. *)
Unknown(m, w) == /\ \A k \in m.callbacks : k.worker # w
                 /\ \A h \in Objects : w \notin m.rr[h].all /\ w \notin Waits(m, h)
Unbound(m, w) == /\ m.chan[w] = "open" => \A k \in m.callbacks : k.worker # w
                 /\ \A h \in Objects : w \notin Free(m, h) /\ w \notin Waits(m, h)

(* The worker's only query is still to be sent, or to be read.             *)
New(tm, sv, w) == sv[w] = "none" \/ Query \in ToSet(tm[w])
Turns(m, tm, sv) ==
    /\ InTurn(m) /\ Idle(m)
    /\ \A w \in Workers : /\ New(tm, sv, w) => Unknown(m, w)
                          /\ Once(tm[w], "query") /\ (sv[w] = "none" => Query \notin ToSet(tm[w]))

TurnsInv == /\ Turns(Here, toMaster, server)
            /\ \A w \in Workers : chan[w] = "none" => ~up[w] /\ server[w] = "none"

LEMMA EmptySet ==
    ASSUME NEW T, NEW q \in Seq(T) PROVE ToSet(q) = {} <=> q = <<>>
<1>1. q # <<>> => q[1] \in ToSet(q)
    BY DEF ToSet
<1>2. ToSet(<<>>) = {}
    BY DEF ToSet
<1> QED
    BY <1>1, <1>2

(* The turns depend on the queues, the calls and the channels.             *)
LEMMA SameTurns ==
    ASSUME NEW m, NEW r, r.rr = m.rr, r.callbacks = m.callbacks, r.chan = m.chan, InTurn(m), Idle(m)
    PROVE  /\ InTurn(r) /\ Idle(r)
           /\ \A u \in Workers : (Unknown(m, u) => Unknown(r, u)) /\ (Unbound(m, u) => Unbound(r, u))
BY DEF InTurn, Idle, OneCall, FreeOnce, Apart, Unknown, Unbound, Free, Waits

LEMMA TurnHandoff ==
    ASSUME NEW m \in Machine, InTurn(m), NEW h \in Objects, NEW w \in Workers, Unbound(m, w),
           NEW r, HandedOver(r, m, h, w)
    PROVE  /\ InTurn(r) /\ (Idle(m) => Idle(r))
           /\ \A u \in Workers : Unknown(m, u) => Unknown(r, u)
           /\ \A u \in Workers \ {w} : Unbound(m, u) => Unbound(r, u)
<1>1. /\ r.chan = m.chan /\ \A g \in Objects : r.rr[g].all = m.rr[g].all /\ Waits(r, g) = Waits(m, g)
      /\ \A g \in Objects \ {h} : /\ r.rr[g].free = m.rr[g].free /\ r.rr[g].handles = m.rr[g].handles
                                  /\ Free(r, g) = Free(m, g)
    BY DEF HandedOver, SameLinks, SameQueues, Waits, Free
<1>2. CASE r.rr[h].free = m.rr[h].free /\ r.callbacks = m.callbacks /\ r.rr[h].handles = m.rr[h].handles
  <2>1. \A g \in Objects : Free(r, g) = Free(m, g) /\ r.rr[g].free = m.rr[g].free
      BY <1>1, <1>2 DEF Free
  <2>2. OneCall(r)
      BY <1>1, <1>2 DEF InTurn, OneCall
  <2>3. FreeOnce(r)
      BY <1>1, <2>1 DEF InTurn, FreeOnce
  <2>4. Apart(r)
      BY <1>1, <1>2, <2>1 DEF InTurn, Apart
  <2>5. Idle(m) => Idle(r)
      BY <1>1, <1>2, <2>1 DEF Idle
  <2> QED
      BY <1>1, <1>2, <2>1, <2>2, <2>3, <2>4, <2>5 DEF InTurn, Unknown, Unbound
<1>3. CASE /\ w \in m.rr[h].all /\ r.rr[h].handles = <<>> /\ r.rr[h].free = Append(m.rr[h].free, w)
           /\ r.callbacks = m.callbacks
  <2>1. m.rr[h].free \in Seq(Workers) /\ Distinct(m.rr[h].free) /\ w \notin Free(m, h)
      BY DEF Machine, Robin, InTurn, FreeOnce, Unbound
  <2>2. Distinct(r.rr[h].free) /\ Free(r, h) = Free(m, h) \cup {w}
      BY <1>3, <2>1, Appended DEF Free
  <2>3. OneCall(r)
      BY <1>1, <1>3 DEF InTurn, OneCall
  <2>4. FreeOnce(r)
    <3>1. \A g \in Objects : Distinct(r.rr[g].free) /\ Free(r, g) \subseteq r.rr[g].all
        BY <1>1, <1>3, <2>2 DEF InTurn, FreeOnce
    <3>2. \A g \in Objects : w \notin Free(m, g)
        BY DEF Unbound
    <3>3. \A g, e \in Objects : \A u \in Workers : u \in Free(r, g) /\ u \in Free(r, e) => g = e
        BY <1>1, <2>2, <3>2 DEF InTurn, FreeOnce
    <3> QED
        BY <3>1, <3>3 DEF FreeOnce
  <2>5. Apart(r)
    <3>1. \A k \in r.callbacks, g \in Objects :
            /\ r.chan[k.worker] = "open" => k.worker \notin Free(r, g)
            /\ k.worker \notin Waits(r, g)
        BY <1>1, <1>3, <2>2 DEF InTurn, Apart, Unbound
    <3>2. \A g, e \in Objects : \A u \in Workers : u \in Waits(r, g) => u \notin Free(r, e)
        BY <1>1, <2>2 DEF InTurn, Apart, Unbound
    <3> QED
        BY <3>1, <3>2 DEF Apart
  <2>6. Idle(m) => Idle(r)
      BY <1>1, <1>3 DEF Idle
  <2>7. \A u \in Workers : Unknown(m, u) => Unknown(r, u)
      BY <1>1, <1>3 DEF Unknown
  <2>8. \A u \in Workers \ {w} : Unbound(m, u) => Unbound(r, u)
      BY <1>1, <1>3, <2>2 DEF Unbound
  <2> QED
      BY <2>3, <2>4, <2>5, <2>6, <2>7, <2>8 DEF InTurn
<1>4. CASE /\ w \in m.rr[h].all /\ m.rr[h].handles # <<>> /\ r.rr[h].free = m.rr[h].free
           /\ r.callbacks = m.callbacks \cup {CallTo(w, h, Head(m.rr[h].handles))}
  <2> DEFINE k == CallTo(w, h, Head(m.rr[h].handles))
  <2>1. k.worker = w /\ r.callbacks = m.callbacks \cup {k}
      BY <1>4 DEF CallTo
  <2> HIDE DEF k
  <2>2. \A g \in Objects : Free(r, g) = Free(m, g) /\ r.rr[g].free = m.rr[g].free
      BY <1>1, <1>4 DEF Free
  <2>3. OneCall(r)
      BY <1>1, <2>1 DEF InTurn, OneCall, Unbound
  <2>4. FreeOnce(r)
      BY <1>1, <2>2 DEF InTurn, FreeOnce
  <2>5. Apart(r)
      BY <1>1, <2>1, <2>2 DEF InTurn, Apart, Unbound
  <2>6. Idle(m) => Idle(r)
      BY <1>1, <1>4, <2>2 DEF Idle
  <2>7. \A u \in Workers : Unknown(m, u) => Unknown(r, u)
      BY <1>1, <1>4, <2>1 DEF Unknown
  <2>8. \A u \in Workers \ {w} : Unbound(m, u) => Unbound(r, u)
      BY <1>1, <2>1, <2>2 DEF Unbound
  <2> QED
      BY <2>3, <2>4, <2>5, <2>6, <2>7, <2>8 DEF InTurn
<1> QED
    BY <1>2, <1>3, <1>4 DEF HandedOver, SameQueues

LEMMA TurnDistribute ==
    ASSUME NEW m \in Machine, InTurn(m), Idle(m), ~m.thrown, NEW h \in Objects, NEW c \in Conns,
           NEW r, Distributed(r, m, h, c)
    PROVE  /\ InTurn(r) /\ Idle(r)
           /\ \A u \in Workers : (Unknown(m, u) => Unknown(r, u)) /\ (Unbound(m, u) => Unbound(r, u))
<1>1. m.rr[h].free \in Seq(Workers) /\ m.rr[h].handles \in Seq(Conns)
    BY DEF Machine, Robin
<1>2. CASE m.rr[h].free = <<>> /\ QueuedAs(r, m, h, <<>>, c)
  <2>1. /\ r.chan = m.chan /\ r.callbacks = m.callbacks
        /\ \A g \in Objects : /\ r.rr[g].all = m.rr[g].all /\ Waits(r, g) = Waits(m, g)
                              /\ r.rr[g].free = m.rr[g].free /\ Free(r, g) = Free(m, g)
        /\ \A g \in Objects \ {h} : r.rr[g].handles = m.rr[g].handles
      BY <1>2 DEF QueuedAs, SameLinks, SameQueues, Waits, Free
  <2>2. OneCall(r) /\ FreeOnce(r) /\ Apart(r)
      BY <2>1 DEF InTurn, OneCall, FreeOnce, Apart
  <2>3. Idle(r)
      BY <1>2, <2>1 DEF Idle
  <2> QED
      BY <2>1, <2>2, <2>3 DEF InTurn, Unknown, Unbound
<1>3. CASE /\ m.rr[h].free # <<>>
           /\ \E n \in Machine : /\ QueuedAs(n, m, h, Tail(m.rr[h].free), c)
                                 /\ HandedOver(r, n, h, Head(m.rr[h].free))
  <2> DEFINE f == m.rr[h].free
             w == Head(f)
  <2>1. PICK n \in Machine : QueuedAs(n, m, h, Tail(f), c) /\ HandedOver(r, n, h, w)
      BY <1>3
  <2>2. m.rr[h].handles = <<>>
      BY <1>3 DEF Idle
  <2>3. /\ w \in Workers /\ ToSet(f) = ToSet(Tail(f)) \cup {w} /\ Distinct(Tail(f)) /\ w \notin ToSet(Tail(f))
    <3>1. f \in Seq(Workers) /\ f # <<>> /\ Distinct(f)
        BY <1>1, <1>3 DEF InTurn, FreeOnce
    <3> HIDE DEF f
    <3> QED
        BY <3>1, Tailed
  <2>4. /\ n.chan = m.chan /\ n.callbacks = m.callbacks /\ ~n.thrown
        /\ n.rr[h].handles = Append(<<>>, c) /\ n.rr[h].free = Tail(f)
        /\ \A g \in Objects : n.rr[g].all = m.rr[g].all /\ Waits(n, g) = Waits(m, g)
        /\ \A g \in Objects \ {h} : /\ n.rr[g].free = m.rr[g].free /\ n.rr[g].handles = m.rr[g].handles
                                    /\ Free(n, g) = Free(m, g)
      BY <2>1, <2>2 DEF QueuedAs, SameLinks, SameQueues, Waits, Free
  <2>5. Free(m, h) = Free(n, h) \cup {w} /\ w \notin Free(n, h)
      BY <2>3, <2>4 DEF Free
  <2> HIDE DEF w, f
  <2>6. w \in n.rr[h].all
      BY <2>4, <2>5 DEF InTurn, FreeOnce
  <2>7. InTurn(n)
    <3>1. OneCall(n)
        BY <2>4 DEF InTurn, OneCall
    <3>2. FreeOnce(n)
      <4>1. \A g \in Objects : Distinct(n.rr[g].free) /\ Free(n, g) \subseteq n.rr[g].all
          BY <2>3, <2>4, <2>5 DEF InTurn, FreeOnce
      <4>2. \A g, e \in Objects : \A u \in Workers : u \in Free(n, g) /\ u \in Free(n, e) => g = e
          BY <2>4, <2>5 DEF InTurn, FreeOnce
      <4> QED
          BY <4>1, <4>2 DEF FreeOnce
    <3>3. Apart(n)
        BY <2>4, <2>5 DEF InTurn, Apart
    <3> QED
        BY <3>1, <3>2, <3>3 DEF InTurn
  <2>8. Unbound(n, w)
    <3>1. n.chan[w] = "open" => \A k \in n.callbacks : k.worker # w
        BY <2>4, <2>5 DEF InTurn, Apart
    <3>2. \A g \in Objects : w \notin Free(n, g)
        BY <2>3, <2>4, <2>5 DEF InTurn, FreeOnce
    <3>3. \A g \in Objects : w \notin Waits(n, g)
        BY <2>3, <2>4, <2>5 DEF InTurn, Apart
    <3> QED
        BY <3>1, <3>2, <3>3 DEF Unbound
  <2>9. /\ InTurn(r) /\ \A u \in Workers : Unknown(n, u) => Unknown(r, u)
        /\ \A u \in Workers \ {w} : Unbound(n, u) => Unbound(r, u)
      BY <2>1, <2>3, <2>7, <2>8, TurnHandoff
  <2>10. Idle(r)
    <3>1. Append(<<>>, c) # <<>> /\ Tail(Append(<<>>, c)) = <<>>
        OBVIOUS
    <3>2. /\ r.rr[h].handles = <<>>
          /\ \A g \in Objects \ {h} : r.rr[g].free = m.rr[g].free /\ r.rr[g].handles = m.rr[g].handles
        BY <2>1, <2>4, <2>6, <3>1 DEF HandedOver, SameQueues
    <3> QED
        BY <3>2 DEF Idle
  <2>11. \A u \in Workers : Unknown(m, u) => Unknown(n, u)
      BY <2>4 DEF Unknown
  <2>12. \A u \in Workers : Unbound(m, u) => Unbound(n, u) /\ u # w
      BY <2>4, <2>5 DEF Unbound
  <2> QED
      BY <2>9, <2>10, <2>11, <2>12
<1> QED
    BY <1>2, <1>3 DEF Distributed

LEMMA TurnReply ==
    ASSUME NEW m \in Machine, InTurn(m), Idle(m), ~m.thrown, NEW sg, NEW w \in Workers, m.chan[w] = "open",
           NEW r, \E h \in Objects, c \in Conns, a \in BOOLEAN : Returned(r, m, sg, w, h, c, a)
    PROVE  InTurn(r) /\ Idle(r) /\ \A u \in Workers : Unknown(m, u) => Unknown(r, u)
<1>0. PICK h \in Objects, c \in Conns, a \in BOOLEAN : Returned(r, m, sg, w, h, c, a)
    OBVIOUS
<1>1. PICK n, o : /\ AnswerGone(n, m, sg, w, h, c, a) /\ n \in Machine /\ o \in Machine
                  /\ IF a = TRUE THEN o = n ELSE Distributed(o, n, h, c)
                  /\ HandedOver(r, o, h, w)
    BY <1>0 DEF Returned
<1> DEFINE k == CallTo(w, h, c)
<1>2. k.worker = w
    BY DEF CallTo
<1>3. /\ n.rr = m.rr /\ ~n.thrown /\ n.chan = m.chan /\ n.callbacks = m.callbacks \ {k} /\ k \in m.callbacks
    BY <1>1 DEF AnswerGone, SameLinks
<1> HIDE DEF k
<1>4. InTurn(n) /\ Idle(n)
    BY <1>3 DEF InTurn, Idle, OneCall, FreeOnce, Apart, Free, Waits
<1>5. Unbound(n, w)
  <2>1. \A l \in n.callbacks : l.worker # w
      BY <1>2, <1>3 DEF InTurn, OneCall
  <2>2. \A g \in Objects : w \notin Free(m, g) /\ w \notin Waits(m, g)
      BY <1>2, <1>3 DEF InTurn, Apart
  <2> QED
      BY <1>3, <2>1, <2>2 DEF Unbound, Free, Waits
<1>6. \A u \in Workers : Unknown(m, u) => Unknown(n, u)
    BY <1>3 DEF Unknown, Waits
<1>7. /\ InTurn(o) /\ Idle(o) /\ Unbound(o, w)
      /\ \A u \in Workers : Unknown(n, u) => Unknown(o, u)
  <2>1. CASE a = TRUE
      BY <1>1, <1>4, <1>5, <2>1
  <2>2. CASE a = FALSE
    <3>1. Distributed(o, n, h, c)
        BY <1>1, <2>2
    <3> QED
        BY <1>1, <1>3, <1>4, <1>5, <3>1, TurnDistribute
  <2> QED
      BY <2>1, <2>2
<1>8. InTurn(r) /\ Idle(r) /\ \A u \in Workers : Unknown(o, u) => Unknown(r, u)
    BY <1>1, <1>7, TurnHandoff
<1> QED
    BY <1>6, <1>7, <1>8

LEMMA TurnQuery ==
    ASSUME NEW m \in Machine, InTurn(m), Idle(m), NEW w \in Workers, Unknown(m, w), NEW r, Queried(r, m, w)
    PROVE  InTurn(r) /\ Idle(r) /\ \A u \in Workers \ {w} : Unknown(m, u) => Unknown(r, u)
<1>1. /\ \A k \in m.callbacks : k.worker # w
      /\ \A h \in Objects : w \notin m.rr[h].all /\ w \notin Waits(m, h) /\ w \notin Free(m, h)
    BY DEF Unknown, InTurn, FreeOnce
<1>2. ASSUME NEW n, NEW h \in Objects, NEW s, NEW W, Joined(n, m, h, w, s, W),
             ToSet(W) \subseteq Waits(m, h) \cup {w}
      PROVE  InTurn(n) /\ Idle(n) /\ \A u \in Workers \ {w} : Unknown(m, u) => Unknown(n, u)
  <2>1. /\ n.chan = m.chan /\ n.callbacks = m.callbacks /\ n.rr[h].all = m.rr[h].all \cup {w}
        /\ \A g \in Objects \ {h} : n.rr[g] = m.rr[g]
        /\ \A g \in Objects : n.rr[g].free = m.rr[g].free /\ n.rr[g].handles = m.rr[g].handles
      BY <1>2 DEF Joined
  <2>2. /\ \A g \in Objects : Free(n, g) = Free(m, g) /\ Waits(n, g) \subseteq Waits(m, g) \cup {w}
      BY <1>2, <2>1 DEF Joined, Free, Waits
  <2>3. \A g \in Objects : m.rr[g].all \subseteq n.rr[g].all /\ n.rr[g].all \subseteq m.rr[g].all \cup {w}
      BY <2>1
  <2>4. OneCall(n)
      BY <2>1 DEF InTurn, OneCall
  <2>5. FreeOnce(n)
      BY <2>1, <2>2, <2>3 DEF InTurn, FreeOnce
  <2>6. Apart(n)
    <3>1. \A k \in n.callbacks, g \in Objects :
            /\ n.chan[k.worker] = "open" => k.worker \notin Free(n, g)
            /\ k.worker \notin Waits(n, g)
        BY <1>1, <2>1, <2>2 DEF InTurn, Apart
    <3>2. \A g, e \in Objects : \A u \in Workers : u \in Waits(n, g) => u \notin Free(n, e)
        BY <1>1, <2>1, <2>2 DEF InTurn, Apart
    <3> QED
        BY <3>1, <3>2 DEF Apart
  <2>7. Idle(n)
      BY <2>1 DEF Idle
  <2> QED
      BY <2>1, <2>2, <2>3, <2>4, <2>5, <2>6, <2>7 DEF InTurn, Unknown
<1>3. CASE SameLinks(r, m) /\ r.rr = m.rr /\ r.callbacks = m.callbacks
    BY <1>3, SameTurns DEF SameLinks
<1>4. CASE \E h \in Objects : Joined(r, m, h, w, "binding", <<w>>)
  <2>1. ToSet(<<w>>) \subseteq {w}
      BY DEF ToSet
  <2> QED
      BY <1>2, <1>4, <2>1
<1>5. CASE /\ m.handle # NoObject
           /\ \E n : /\ Joined(n, m, m.handle, w, "bound", m.rr[m.handle].waiting)
                     /\ Welcomed(r, n, m.handle, w)
  <2> DEFINE h == m.handle
  <2>1. h \in Objects
      BY <1>5 DEF Machine
  <2>2. PICK n : Joined(n, m, h, w, "bound", m.rr[h].waiting) /\ Welcomed(r, n, h, w)
      BY <1>5
  <2> HIDE DEF h
  <2>3. InTurn(n) /\ Idle(n) /\ \A u \in Workers \ {w} : Unknown(m, u) => Unknown(n, u)
      BY <1>2, <2>1, <2>2 DEF Waits
  <2>4. Unbound(n, w)
    <3>1. n.callbacks = m.callbacks
        BY <2>2 DEF Joined
    <3>2. \A g \in Objects : Free(n, g) = Free(m, g) /\ Waits(n, g) = Waits(m, g)
        BY <2>1, <2>2 DEF Joined, Free, Waits
    <3> QED
        BY <1>1, <3>1, <3>2 DEF Unbound
  <2>5. PICK o \in Machine : /\ SameLinks(o, n) /\ o.rr = n.rr /\ o.callbacks = n.callbacks
                             /\ HandedOver(r, o, h, w)
      BY <2>2 DEF Welcomed
  <2>6. /\ InTurn(o) /\ Idle(o) /\ Unbound(o, w)
        /\ \A u \in Workers : Unknown(n, u) => Unknown(o, u)
      BY <2>3, <2>4, <2>5, SameTurns DEF SameLinks
  <2>7. InTurn(r) /\ Idle(r) /\ \A u \in Workers : Unknown(o, u) => Unknown(r, u)
      BY <2>1, <2>5, <2>6, TurnHandoff
  <2> QED
      BY <2>3, <2>6, <2>7
<1> QED
    BY <1>3, <1>4, <1>5 DEF Queried

LEMMA TurnRemoved ==
    ASSUME NEW m \in Machine, InTurn(m), Idle(m), NEW w \in Workers, NEW r, Removed(r, m, w)
    PROVE  InTurn(r) /\ Idle(r) /\ \A u \in Workers : Unknown(m, u) => Unknown(r, u)
<1>1. CASE r.rr = m.rr
    BY <1>1, SameTurns DEF Removed
<1>2. CASE m.handle # NoObject /\ RemovedFrom(r, m, m.handle, w)
  <2> DEFINE h == m.handle
  <2>1. h \in Objects /\ RemovedFrom(r, m, h, w)
      BY <1>2 DEF Machine
  <2> HIDE DEF h
  <2>2. m.rr[h].free \in Seq(Workers) /\ Distinct(m.rr[h].free)
      BY <2>1 DEF Machine, Robin, InTurn, FreeOnce
  <2>3. r.rr[h].free \in Seq(Workers) /\ Distinct(r.rr[h].free) /\ Free(r, h) = Free(m, h) \ {w}
      BY <2>1, <2>2, FirstRemoved DEF RemovedFrom, Free
  <2>4. /\ r.chan = m.chan /\ r.callbacks = m.callbacks /\ r.rr[h].all = m.rr[h].all \ {w}
        /\ r.rr[h].handles = m.rr[h].handles \/ r.rr[h].handles = <<>>
        /\ \A g \in Objects \ {h} : r.rr[g] = m.rr[g] /\ Free(r, g) = Free(m, g)
        /\ \A g \in Objects : Waits(r, g) = Waits(m, g)
      BY <2>1 DEF Removed, RemovedFrom, Free, Waits
  <2>5. OneCall(r)
      BY <2>4 DEF InTurn, OneCall
  <2>6. FreeOnce(r)
    <3>1. \A g \in Objects : Distinct(r.rr[g].free) /\ Free(r, g) \subseteq r.rr[g].all
        BY <2>3, <2>4 DEF InTurn, FreeOnce
    <3>2. \A g \in Objects : Free(r, g) \subseteq Free(m, g)
        BY <2>3, <2>4
    <3> QED
        BY <3>1, <3>2 DEF InTurn, FreeOnce
  <2>7. Apart(r)
      BY <2>3, <2>4 DEF InTurn, Apart
  <2>8. Idle(r)
    <3>1. m.rr[h].free = <<>> => r.rr[h].free = <<>>
        BY <2>2, <2>3, EmptySet DEF Free
    <3> QED
        BY <2>4, <3>1 DEF Idle
  <2> QED
      BY <2>4, <2>5, <2>6, <2>7, <2>8 DEF InTurn, Unknown
<1> QED
    BY <1>1, <1>2 DEF Removed

LEMMA TurnParted ==
    ASSUME NEW m \in Machine, InTurn(m), Idle(m), NEW w \in Workers, NEW r, Parted(r, m, w)
    PROVE  InTurn(r) /\ Idle(r) /\ \A u \in Workers : Unknown(m, u) => Unknown(r, u)
<1>1. PICK n, o : /\ n.rr = m.rr /\ n.callbacks = m.callbacks /\ n.chan = [m.chan EXCEPT ![w] = "closed"]
                  /\ n \in Machine /\ Removed(o, n, w)
                  /\ r.rr = o.rr /\ r.callbacks = o.callbacks /\ r.chan = o.chan
    BY DEF Parted
<1>2. \A u \in Workers : n.chan[u] = "open" => m.chan[u] = "open"
    BY <1>1 DEF Machine
<1>3. \A k \in m.callbacks : k.worker \in Workers
    BY DEF Machine, Callback
<1>4. InTurn(n) /\ Idle(n) /\ \A u \in Workers : Unknown(m, u) => Unknown(n, u)
    BY <1>1, <1>2, <1>3 DEF InTurn, Idle, OneCall, FreeOnce, Apart, Unknown, Free, Waits
<1>5. InTurn(o) /\ Idle(o) /\ \A u \in Workers : Unknown(n, u) => Unknown(o, u)
    BY <1>1, <1>4, TurnRemoved
<1> QED
    BY <1>1, <1>4, <1>5, SameTurns

(* The steps of the master keep the turns when no worker's first query is  *)
(* added, and a worker whose query is still to be read stays unknown.      *)
LEMMA TurnsAfter ==
    ASSUME TurnsInv, NEW r \in Machine, Become(r), InTurn(r), Idle(r), server' = server,
           \A v \in Workers : /\ Once(toMaster'[v], "query") /\ ToSet(toMaster'[v]) \subseteq ToSet(toMaster[v])
                              /\ New(toMaster', server, v) => Unknown(r, v)
                              /\ r.chan[v] = "none" => chan[v] = "none" /\ ~up'[v]
    PROVE  TurnsInv'
<1>1. Here' = r /\ chan' = r.chan
    BY Became DEF Become
<1>2. \A v \in Workers : chan'[v] = "none" => ~up'[v] /\ server'[v] = "none"
    BY <1>1 DEF TurnsInv
<1>3. \A v \in Workers : /\ New(toMaster', server', v) => Unknown(r, v)
                         /\ Once(toMaster'[v], "query") /\ (server'[v] = "none" => Query \notin ToSet(toMaster'[v]))
    BY DEF TurnsInv, Turns
<1>4. Turns(r, toMaster', server')
    BY <1>3 DEF Turns
<1>5. Turns(Here, toMaster, server)'
    BY <1>1, <1>4
<1> QED
    BY <1>2, <1>5 DEF TurnsInv

LEMMA TurnsStay ==
    ASSUME TurnsInv, NEW r \in Machine, Become(r), InTurn(r), Idle(r), WorkersUnchanged,
           \A v \in Workers : Unknown(Here, v) => Unknown(r, v),
           \A v \in Workers : r.chan[v] = "none" => chan[v] = "none"
    PROVE  TurnsInv'
<1>1. server' = server /\ toMaster' = toMaster /\ up' = up
    BY DEF WorkersUnchanged
<1>2. \A v \in Workers : /\ Once(toMaster[v], "query") /\ (New(toMaster, server, v) => Unknown(Here, v))
                         /\ chan[v] = "none" => ~up[v]
    BY DEF TurnsInv, Turns
<1> QED
    BY <1>1, <1>2, TurnsAfter

(* What the invariant says of the master.                                  *)
LEMMA HereInTurn ==
    ASSUME MasterInv, TurnsInv
    PROVE  /\ Here \in Machine /\ Linked(Here) /\ InTurn(Here) /\ Idle(Here)
           /\ Sound(Here, toMaster, serving) /\ Sides
           /\ \A v \in Workers : /\ New(toMaster, server, v) => Unknown(Here, v)
                                 /\ Once(toMaster[v], "query")
                                 /\ server[v] = "none" => Query \notin ToSet(toMaster[v])
                                 /\ chan[v] = "none" => ~up[v] /\ server[v] = "none"
BY DEF MasterInv, Sound, TurnsInv, Turns

(* The first of the messages of w is read.                                 *)
LEMMA QueriesRead ==
    ASSUME MasterInv, TurnsInv, NEW w \in Workers, toMaster[w] # <<>>
    PROVE  LET tn == Read(toMaster, w) IN
           /\ \A v \in Workers : Once(tn[v], "query") /\ ToSet(tn[v]) \subseteq ToSet(toMaster[v])
           /\ \A v \in Workers : New(tn, server, v) => New(toMaster, server, v)
           /\ Head(toMaster[w]).type = "query" => ~New(tn, server, w)
<1> DEFINE q == toMaster[w]
           tn == Read(toMaster, w)
<1>1. q \in Seq(ToMaster) /\ q # <<>> /\ Once(q, "query") /\ toMaster \in [Workers -> Seq(ToMaster)]
    BY HereInTurn DEF Sides
<1>2. tn[w] = Tail(q) /\ \A v \in Workers \ {w} : tn[v] = toMaster[v]
    BY <1>1 DEF Read
<1>3. q = toMaster[w]
    OBVIOUS
<1> HIDE DEF q, tn
<1>4. /\ ToSet(q) = ToSet(Tail(q)) \cup {Head(q)} /\ Once(Tail(q), "query")
      /\ Head(q).type = "query" => Head(q) \notin ToSet(Tail(q))
    BY <1>1, Tailed
<1>5. \A v \in Workers : Once(tn[v], "query") /\ ToSet(tn[v]) \subseteq ToSet(toMaster[v])
    BY <1>2, <1>3, <1>4, HereInTurn
<1>6. ASSUME Head(q).type = "query" PROVE ~New(tn, server, w)
  <2>1. Head(q) = Query
      BY <1>3, <1>6, HereInTurn, MessageTypes
  <2>2. server[w] # "none"
      BY <1>3, <1>4, <2>1, HereInTurn
  <2> QED
      BY <1>2, <1>4, <1>6, <2>1, <2>2 DEF New
<1> QED
    BY <1>3, <1>5, <1>6 DEF New, tn

LEMMA ForkTurns ==
    ASSUME MasterInv, TurnsInv, ~thrown, NEW w \in Workers, Fork(w) PROVE TurnsInv'
<1> DEFINE m == Here
           a == [m.chan EXCEPT ![w] = "open"]
           g == IF m.whenGone = "alone" THEN "waits" ELSE m.whenGone
           r == [m EXCEPT !.workers = m.workers \cup {w}, !.chan = a, !.whenGone = g]
<1>1. m \in Machine /\ m.chan[w] = "none" /\ InTurn(m) /\ Idle(m)
    BY HereInTurn, HereIs DEF Fork
<1>2. Become(r) /\ up' = [up EXCEPT ![w] = TRUE] /\ server' = server /\ toMaster' = toMaster
  <2>1. Become([m EXCEPT !.workers = @ \cup {w}, !.chan[w] = "open",
                         !.whenGone = IF @ = "alone" THEN "waits" ELSE @])
        /\ up' = [up EXCEPT ![w] = TRUE] /\ server' = server /\ toMaster' = toMaster
      BY DEF Fork
  <2>2. [m EXCEPT !.workers = @ \cup {w}, !.chan[w] = "open",
                  !.whenGone = IF @ = "alone" THEN "waits" ELSE @] = r
      BY <1>1 DEF Machine
  <2> QED
      BY <2>1, <2>2
<1>3. Unknown(m, w)
  <2>1. server[w] = "none"
      BY HereInTurn DEF Fork
  <2> QED
      BY <2>1, HereInTurn DEF New
<1>4. m = Here
    OBVIOUS
<1> HIDE DEF m
<1>5. /\ a[w] = "open" /\ (\A v \in Workers \ {w} : a[v] = m.chan[v])
      /\ a \in [Workers -> {"none", "open", "closed"}] /\ m.workers \cup {w} \in SUBSET Workers
    BY <1>1 DEF Machine
<1>6. g \in {"none", "waits", "alone", "called"} /\ r = [m EXCEPT !.workers = m.workers \cup {w}, !.chan = a, !.whenGone = g]
    BY <1>1 DEF Machine
<1> HIDE DEF a, g
<1>7. r \in Machine /\ r.chan = a /\ r.rr = m.rr /\ r.callbacks = m.callbacks
    BY <1>1, <1>5, <1>6 DEF Machine
<1> HIDE DEF r
<1>8. \A k \in m.callbacks : k.worker \in Workers /\ k.worker # w
    BY <1>1, <1>3 DEF Machine, Callback, Unknown
<1>9. InTurn(r) /\ Idle(r) /\ \A u \in Workers : Unknown(m, u) => Unknown(r, u)
    BY <1>1, <1>5, <1>7, <1>8 DEF InTurn, Idle, OneCall, FreeOnce, Apart, Unknown, Free, Waits
<1>10. \A v \in Workers : r.chan[v] = "none" => chan[v] = "none" /\ ~up'[v]
  <2>1. \A v \in Workers : r.chan[v] = "none" => v # w /\ chan[v] = "none"
      BY <1>4, <1>5, <1>7, HereIs
  <2> QED
      BY <1>2, <2>1, HereInTurn DEF Sides
<1> QED
    BY <1>2, <1>4, <1>7, <1>9, <1>10, TurnsAfter, HereInTurn

LEMMA ReceivesTurns ==
    ASSUME MasterInv, TurnsInv, ~thrown, NEW w \in Workers, MasterReceives(w) PROVE TurnsInv'
<1> DEFINE m == Here
           x == Head(toMaster[w])
           tn == Read(toMaster, w)
<1>1. /\ m \in Machine /\ Sound(m, toMaster, serving) /\ Linked(m) /\ ~m.thrown /\ m.chan[w] = "open"
      /\ InTurn(m) /\ Idle(m)
    BY HereInTurn, HereIs DEF MasterReceives
<1>2. /\ toMaster[w] # <<>> /\ SameChunk(w)
      /\ toMaster' = tn /\ up' = up /\ server' = server
    BY DEF MasterReceives, Read
<1>3. /\ up \in [Workers -> BOOLEAN] /\ serving \in [Workers -> SUBSET Conns]
      /\ toMaster \in [Workers -> Seq(ToMaster)]
    BY HereSound
<1>4. m = Here /\ x = Head(toMaster[w]) /\ tn = Read(toMaster, w)
    OBVIOUS
<1>5. /\ \A v \in Workers : Once(tn[v], "query") /\ ToSet(tn[v]) \subseteq ToSet(toMaster[v])
      /\ \A v \in Workers : New(tn, server, v) => New(toMaster, server, v)
      /\ x.type = "query" => ~New(tn, server, w)
    BY <1>2, QueriesRead
<1>6. Sound(m, tn, serving)
    BY <1>1, <1>2, <1>3, ReadSound
<1> HIDE DEF m, x, tn
<1>7. ASSUME NEW r \in Machine, Become(r), InTurn(r), Idle(r), r.chan = m.chan,
             \A u \in Workers : Unknown(m, u) => Unknown(r, u) \/ (u = w /\ x.type = "query")
      PROVE  TurnsInv'
  <2>1. \A v \in Workers : New(tn, server, v) => Unknown(r, v)
      BY <1>4, <1>5, <1>7, HereInTurn
  <2>2. \A v \in Workers : r.chan[v] = "none" => chan[v] = "none" /\ ~up'[v]
      BY <1>2, <1>4, <1>7, HereInTurn, HereIs
  <2> QED
      BY <1>2, <1>5, <1>7, <2>1, <2>2, TurnsAfter
<1>8. CASE x.type = "query"
  <2> DEFINE r == QueryServer(m, w)
  <2>1. Become(r)
      BY <1>4, <1>8 DEF MasterReceives
  <2>2. m.handle # NoObject \/ Unused # {}
      BY <1>4, <1>8, HereIs DEF MasterReceives
  <2>3. Sound(r, tn, serving) /\ Queried(r, m, w)
      BY <1>1, <1>2, <1>3, <1>4, <1>6, <2>2, QuerySound
  <2> HIDE DEF r
  <2>4. Unknown(m, w)
    <3>1. x \in ToSet(toMaster[w]) /\ x = Query
      <4>1. toMaster[w] \in Seq(ToMaster)
          BY <1>3
      <4> QED
          BY <1>2, <1>4, <1>8, <4>1, Tailed, MessageTypes, HereInTurn
    <3> QED
        BY <1>4, <3>1, HereInTurn DEF New
  <2>5. InTurn(r) /\ Idle(r) /\ \A u \in Workers \ {w} : Unknown(m, u) => Unknown(r, u)
      BY <1>1, <2>3, <2>4, TurnQuery
  <2>6. r \in Machine /\ r.chan = m.chan
      BY <2>3 DEF Sound, Queried, SameLinks, Joined
  <2> QED
      BY <1>7, <1>8, <2>1, <2>5, <2>6
<1>9. CASE x.type = "close"
  <2> DEFINE r == OnClose(m, w)
  <2>1. Become(r)
      BY <1>4, <1>9 DEF MasterReceives
  <2>2. /\ Sound(r, tn, serving)
        /\ (r.rr = m.rr /\ r.callbacks = m.callbacks /\ r.chan = m.chan) \/ Removed(r, m, w)
      BY <1>1, <1>3, <1>6, OnCloseSound
  <2> HIDE DEF r
  <2>3. InTurn(r) /\ Idle(r) /\ (\A u \in Workers : Unknown(m, u) => Unknown(r, u)) /\ r.chan = m.chan
      BY <1>1, <2>2, SameTurns, TurnRemoved DEF Removed
  <2> QED
      BY <1>7, <2>1, <2>2, <2>3 DEF Sound
<1>10. CASE x.type = "ack" /\ \E h \in Objects, c \in Conns, a \in BOOLEAN :
              x = Ack(h, c, a) /\ x.object = h /\ x.conn = c /\ x.accepted = a
  <2>1. PICK h \in Objects, c \in Conns, a \in BOOLEAN :
          x = Ack(h, c, a) /\ x.object = h /\ x.conn = c /\ x.accepted = a
      BY <1>10
  <2> DEFINE r == OnReply(m, w, h, c, a)
  <2>2. Become(OnReply(m, w, x.object, x.conn, x.accepted))
      BY <1>4, <1>10 DEF MasterReceives
  <2>3. Become(r)
      BY <2>1, <2>2
  <2>4. Head(toMaster[w]) = Ack(h, c, a)
      BY <1>4, <2>1
  <2>5. Sound(r, Read(toMaster, w), serving) /\ SameLinks(r, m) /\ Returned(r, m, serving, w, h, c, a)
      BY <1>1, <1>2, <1>3, <2>4, ReplySound
  <2> HIDE DEF r
  <2>6. InTurn(r) /\ Idle(r) /\ \A u \in Workers : Unknown(m, u) => Unknown(r, u)
    <3>1. Returned(r, m, serving, w, h, c, a)
        BY <2>5
    <3>2. \E g \in Objects, e \in Conns, b \in BOOLEAN : Returned(r, m, serving, w, g, e, b)
        BY <3>1
    <3> QED
        BY <1>1, <3>2, TurnReply
  <2> QED
      BY <1>7, <2>3, <2>5, <2>6 DEF Sound, SameLinks
<1> QED
    BY <1>2, <1>4, <1>8, <1>9, <1>10, MessageTypes, HereInTurn

LEMMA ListeningTurns ==
    ASSUME MasterInv, TurnsInv, ~thrown, NEW h \in Objects, Listening(h) PROVE TurnsInv'
<1> DEFINE m == Here
           n == Bound(m, h, "bound", h)
<1>1. /\ m \in Machine /\ Sound(m, toMaster, serving) /\ Linked(m) /\ ~m.thrown /\ m.rr[h].state = "binding"
      /\ InTurn(m) /\ Idle(m)
    BY HereInTurn, HereIs DEF Listening, Binding
<1>2. m = Here
    OBVIOUS
<1> HIDE DEF m
<1>3. PICK w \in Workers : m.rr[h].waiting = <<w>> /\ m.rr[h].all = {w}
    BY <1>1 DEF Linked
<1>4. m.handle = h /\ \A g \in Objects \ {h} : m.rr[g].state # "binding" /\ m.rr[g].waiting = <<>>
    BY <1>1 DEF Linked
<1>5. [m EXCEPT !.rr[h].state = "bound", !.rr[h].waiting = <<>>] = n
    BY <1>1, <1>4 DEF Machine, Bound
<1>6. Become(FoldLeft(LAMBDA x, y : Done(x, h, y), n, <<w>>))
    BY <1>2, <1>3, <1>5, HereIs DEF Listening
<1> DEFINE r == Done(n, h, w)
<1>7. Become(r)
    BY <1>6, FoldOne
<1>8. /\ n \in Machine /\ n.rr[h].waiting = <<>> /\ n.rr[h].all = m.rr[h].all /\ n.rr[h].free = m.rr[h].free
      /\ n.rr[h].handles = m.rr[h].handles /\ (\A g \in Objects \ {h} : n.rr[g] = m.rr[g])
      /\ n.closed = m.closed /\ n.callbacks = m.callbacks /\ n.chan = m.chan /\ n.toWorker = m.toWorker
    BY <1>1, BoundIs
<1> HIDE DEF n
<1>9. Sound(n, toMaster, serving)
  <2>1. Settled(n, m)
      BY <1>1, <1>8 DEF Settled, Told, Sound, Answers
  <2> QED
      BY <1>1, <2>1, SettledSound, HereSound
<1>10. Sound(r, toMaster, serving) /\ SameLinks(r, n) /\ Welcomed(r, n, h, w)
    BY <1>9, DoneSound, HereSound
<1> HIDE DEF r
<1>11. \A g \in Objects : Waits(n, g) = {} /\ Free(n, g) = Free(m, g) /\ n.rr[g].all = m.rr[g].all
    BY <1>4, <1>8 DEF Waits, Free, ToSet
<1>12. InTurn(n) /\ Idle(n) /\ \A u \in Workers : Unknown(m, u) => Unknown(n, u)
    BY <1>1, <1>8, <1>11 DEF InTurn, Idle, OneCall, FreeOnce, Apart, Unknown
<1>13. Unbound(n, w)
  <2>1. w \in Waits(m, h)
      BY <1>3 DEF Waits, ToSet
  <2> QED
      BY <1>1, <1>8, <1>11, <2>1 DEF Unbound, InTurn, Apart
<1>14. PICK o \in Machine : /\ SameLinks(o, n) /\ o.rr = n.rr /\ o.callbacks = n.callbacks
                            /\ HandedOver(r, o, h, w)
    BY <1>10 DEF Welcomed
<1>15. InTurn(o) /\ Idle(o) /\ Unbound(o, w) /\ \A u \in Workers : Unknown(n, u) => Unknown(o, u)
    BY <1>12, <1>13, <1>14, SameTurns DEF SameLinks
<1>16. InTurn(r) /\ Idle(r) /\ \A u \in Workers : Unknown(o, u) => Unknown(r, u)
    BY <1>14, <1>15, TurnHandoff
<1>17. r \in Machine /\ r.chan = chan /\ WorkersUnchanged
    BY <1>2, <1>8, <1>10, HereIs DEF Sound, SameLinks, Listening
<1> QED
    BY <1>2, <1>7, <1>12, <1>15, <1>16, <1>17, TurnsStay

LEMMA ListenFailsTurns ==
    ASSUME MasterInv, TurnsInv, ~thrown, NEW h \in Objects, ListenFails(h) PROVE TurnsInv'
<1> DEFINE m == Here
           n == Bound(m, h, "failed", NoObject)
           x == Reply(FALSE)
           W == ToSet(m.rr[h].waiting)
           r == SendAll(n, W, x)
<1>1. m \in Machine /\ Sound(m, toMaster, serving) /\ InTurn(m) /\ Idle(m)
    BY HereInTurn
<1>2. Become(r)
    BY HereIs DEF ListenFails, Bound
<1>3. m = Here
    OBVIOUS
<1> HIDE DEF m
<1>4. /\ n \in Machine /\ n.rr[h].waiting = <<>> /\ n.rr[h].all = m.rr[h].all /\ n.rr[h].free = m.rr[h].free
      /\ n.rr[h].handles = m.rr[h].handles /\ (\A g \in Objects \ {h} : n.rr[g] = m.rr[g])
      /\ n.callbacks = m.callbacks /\ n.chan = m.chan /\ n.toWorker = m.toWorker
    BY <1>1, BoundIs
<1> HIDE DEF n
<1>5. x \in ToWorker /\ x.type # "newconn" /\ \A v \in Workers : Once(n.toWorker[v], "newconn")
    BY <1>1, <1>4 DEF Reply, ToWorker, Sound, Answers
<1>6. Settled(r, n) /\ SameLinks(r, n) /\ r.rr = n.rr
  <2> HIDE DEF x, W
  <2>1. Settled(r, n) /\ SameLinks(r, n)
      BY <1>4, <1>5, SendAllQuiet, HereSound
  <2>2. r.rr = n.rr
      BY <1>4 DEF SendAll, Machine
  <2> QED
      BY <2>1, <2>2
<1> HIDE DEF r, x, W
<1>7. \A g \in Objects : Waits(n, g) \subseteq Waits(m, g) /\ Free(n, g) = Free(m, g) /\ n.rr[g].all = m.rr[g].all
    BY <1>4 DEF Waits, Free, ToSet
<1>8. InTurn(n) /\ Idle(n) /\ \A u \in Workers : Unknown(m, u) => Unknown(n, u)
    BY <1>1, <1>4, <1>7 DEF InTurn, Idle, OneCall, FreeOnce, Apart, Unknown
<1>9. InTurn(r) /\ Idle(r) /\ \A u \in Workers : Unknown(n, u) => Unknown(r, u)
    BY <1>6, <1>8, SameTurns DEF Settled, SameLinks
<1>10. r \in Machine /\ r.chan = chan /\ WorkersUnchanged
    BY <1>3, <1>4, <1>6, HereIs DEF Settled, SameLinks, ListenFails
<1> QED
    BY <1>2, <1>3, <1>8, <1>9, <1>10, TurnsStay

LEMMA ConnectionTurns ==
    ASSUME MasterInv, TurnsInv, ~thrown, NEW c \in Conns, OnConnection(c) PROVE TurnsInv'
<1> DEFINE m == Here
           h == m.handle
           r == Distribute(m, h, c)
<1>1. m \in Machine /\ Sound(m, toMaster, serving) /\ InTurn(m) /\ Idle(m) /\ ~m.thrown
    BY HereInTurn, HereIs
<1>2. Become(r) /\ h # NoObject /\ m = Here
    BY HereIs DEF OnConnection
<1>3. Fresh(m, serving, c)
  <2>1. c \notin Seen
      BY DEF OnConnection
  <2>2. \A g \in Objects : Queued(m, g) = Held(g)
      BY HereIs DEF Held, Queued
  <2>3. m.closed = closed /\ m.callbacks = callbacks
      BY HereIs
  <2> HIDE DEF m
  <2> QED
      BY <2>1, <2>2, <2>3, NotSeen DEF Fresh
<1>4. h \in Objects
    BY <1>1, <1>2 DEF Machine
<1> HIDE DEF m, h
<1>5. Sound(r, toMaster, serving) /\ SameLinks(r, m) /\ Distributed(r, m, h, c)
    BY <1>1, <1>3, <1>4, DistributeSound, HereSound
<1> HIDE DEF r
<1>6. InTurn(r) /\ Idle(r) /\ \A u \in Workers : Unknown(m, u) => Unknown(r, u)
    BY <1>1, <1>4, <1>5, TurnDistribute
<1>7. r \in Machine /\ r.chan = chan /\ WorkersUnchanged
    BY <1>2, <1>5, HereIs DEF Sound, SameLinks, OnConnection
<1> QED
    BY <1>2, <1>6, <1>7, TurnsStay

(* A worker's channel is closed, by either end.                            *)
LEMMA OnDisconnectTurns ==
    ASSUME MasterInv, TurnsInv, ~thrown, NEW w \in Workers, chan[w] = "open", NEW r, r = OnDisconnect(Here, w)
    PROVE  /\ r \in Machine /\ InTurn(r) /\ Idle(r) /\ \A u \in Workers : Unknown(Here, u) => Unknown(r, u)
           /\ \A v \in Workers : r.chan[v] = "none" => chan[v] = "none"
<1> DEFINE m == Here
<1>1. Sound(r, toMaster, serving) /\ Parted(r, m, w)
    BY OnDisconnectSound, HereSound, HereIs
<1>2. m \in Machine /\ InTurn(m) /\ Idle(m) /\ m.chan = chan
    BY HereInTurn, HereIs
<1> HIDE DEF m
<1>3. InTurn(r) /\ Idle(r) /\ \A u \in Workers : Unknown(m, u) => Unknown(r, u)
    BY <1>1, <1>2, TurnParted
<1>4. r.chan = [chan EXCEPT ![w] = "closed"]
    BY <1>1, <1>2 DEF Parted, Removed
<1>5. \A v \in Workers : r.chan[v] = "none" => chan[v] = "none"
    BY <1>2, <1>4 DEF Machine
<1> QED
    BY <1>1, <1>3, <1>5 DEF Sound, m

LEMMA DestroyTurns ==
    ASSUME MasterInv, TurnsInv, ~thrown, NEW w \in Workers, Destroy(w) PROVE TurnsInv'
<1> DEFINE r == OnDisconnect(Here, w)
<1>1. /\ r \in Machine /\ InTurn(r) /\ Idle(r) /\ \A u \in Workers : Unknown(Here, u) => Unknown(r, u)
      /\ \A v \in Workers : r.chan[v] = "none" => chan[v] = "none"
    BY OnDisconnectTurns DEF Destroy
<1>2. Become(r) /\ server' = server /\ up' = up
    BY DEF Destroy
<1> HIDE DEF r
<1>3. toMaster'[w] = <<>> /\ \A v \in Workers \ {w} : toMaster'[v] = toMaster[v]
    BY HereSound DEF Destroy
<1>4. Once(<<>>, "query") /\ ToSet(<<>>) = {}
    BY DEF Once, ToSet
<1>5. \A v \in Workers : Once(toMaster'[v], "query") /\ ToSet(toMaster'[v]) \subseteq ToSet(toMaster[v])
    BY <1>3, <1>4, HereInTurn
<1>6. \A v \in Workers : New(toMaster', server, v) => New(toMaster, server, v)
    BY <1>5 DEF New
<1> QED
    BY <1>1, <1>2, <1>5, <1>6, TurnsAfter, HereInTurn

(* The steps that only send or count.                                      *)
LEMMA SentTurns ==
    ASSUME MasterInv, TurnsInv, NEW r \in Machine, Become(r), WorkersUnchanged,
           r.rr = Here.rr, r.callbacks = Here.callbacks, r.chan = Here.chan
    PROVE  TurnsInv'
<1>1. InTurn(r) /\ Idle(r) /\ \A u \in Workers : Unknown(Here, u) => Unknown(r, u)
    BY HereInTurn, SameTurns
<1> QED
    BY <1>1, HereIs, TurnsStay

LEMMA MasterTurns ==
    ASSUME MasterInv, TurnsInv, MasterStep PROVE TurnsInv'
<1>1. ASSUME NEW w \in Workers, ChannelEnds(w), ~thrown PROVE TurnsInv'
    BY <1>1, OnDisconnectTurns, TurnsStay DEF ChannelEnds
<1>2. ASSUME NEW w \in Workers, ExitEvent(w) PROVE TurnsInv'
  <2> DEFINE m == Here
             r == [m EXCEPT !.workers = @ \ {w}]
  <2>1. Become(r) /\ WorkersUnchanged
      BY <1>2 DEF ExitEvent
  <2>2. m \in Machine /\ m = Here
      BY HereInTurn
  <2> HIDE DEF m
  <2>3. r \in Machine /\ r.rr = m.rr /\ r.callbacks = m.callbacks /\ r.chan = m.chan
      BY <2>2 DEF Machine
  <2> HIDE DEF r
  <2> QED
      BY <2>1, <2>2, <2>3, SentTurns
<1>3. ASSUME NEW w \in Workers, Disconnect(w) PROVE TurnsInv'
  <2> DEFINE x == [type |-> "disconnect"]
             r == Send(Here, w, x)
  <2>1. x \in ToWorker /\ x.type # "newconn"
      BY DEF ToWorker
  <2>2. Become(r) /\ WorkersUnchanged
      BY <1>3 DEF Disconnect
  <2> HIDE DEF x
  <2>3. Settled(r, Here) /\ SameLinks(r, Here) /\ r.rr = Here.rr
      BY <2>1, SendQuiet, HereSound
  <2> HIDE DEF r
  <2> QED
      BY <2>2, <2>3, SentTurns DEF Settled, SameLinks
<1>4. ASSUME ClusterDisconnect PROVE TurnsInv'
  <2> DEFINE m == Here
             g == IF Connected = {} THEN "alone" ELSE "waits"
             n == [m EXCEPT !.whenGone = g]
             x == [type |-> "disconnect"]
             r == SendAll(n, workers, x)
  <2>1. m \in Machine /\ m = Here /\ \A v \in Workers : Once(m.toWorker[v], "newconn")
      BY HereSound
  <2>2. Become(r) /\ WorkersUnchanged
      BY <1>4 DEF ClusterDisconnect
  <2>g. g \in {"none", "waits", "alone", "called"}
      OBVIOUS
  <2> HIDE DEF m, g
  <2>3. /\ n \in Machine /\ n.rr = m.rr /\ n.callbacks = m.callbacks /\ n.chan = m.chan
        /\ n.toWorker = m.toWorker
      BY <2>1, <2>g DEF Machine
  <2>4. x \in ToWorker /\ x.type # "newconn"
      BY DEF ToWorker
  <2> HIDE DEF n, x
  <2>5. Settled(r, n) /\ SameLinks(r, n) /\ r.rr = n.rr
    <3>1. Settled(r, n) /\ SameLinks(r, n)
        BY <2>1, <2>3, <2>4, SendAllQuiet, HereSound
    <3>2. r.rr = n.rr
        BY <2>3 DEF SendAll, Machine
    <3> QED
        BY <3>1, <3>2
  <2> HIDE DEF r
  <2> QED
      BY <2>1, <2>2, <2>3, <2>5, SentTurns DEF Settled, SameLinks
<1> QED
    BY <1>1, <1>2, <1>3, <1>4, ForkTurns, ReceivesTurns, DestroyTurns, ListeningTurns, ListenFailsTurns,
       ConnectionTurns DEF MasterStep

(* A step of a worker keeps the turns when only a worker that has not      *)
(* asked before sends a query.                                             *)
LEMMA TurnsWorker ==
    ASSUME MasterInv, TurnsInv, MasterUnchanged, NEW w \in Workers, up[w],
           \A v \in Workers \ {w} : toMaster'[v] = toMaster[v] /\ server'[v] = server[v] /\ up'[v] = up[v],
           Once(toMaster'[w], "query"), server'[w] = "none" => server[w] = "none",
           Query \in ToSet(toMaster'[w]) => New(toMaster, server, w) /\ server'[w] # "none"
    PROVE  TurnsInv'
<1> DEFINE m == Here
           r == Here'
<1>1. r.rr = m.rr /\ r.callbacks = m.callbacks /\ r.chan = m.chan /\ chan' = chan
    BY DEF MasterUnchanged, Here
<1>2. /\ InTurn(m) /\ Idle(m)
      /\ \A v \in Workers : /\ New(toMaster, server, v) => Unknown(m, v)
                            /\ Once(toMaster[v], "query")
                            /\ server[v] = "none" => Query \notin ToSet(toMaster[v])
                            /\ chan[v] = "none" => ~up[v] /\ server[v] = "none"
    BY HereInTurn
<1> HIDE DEF m, r
<1>3. InTurn(r) /\ Idle(r) /\ \A u \in Workers : Unknown(m, u) => Unknown(r, u)
    BY <1>1, <1>2, SameTurns
<1>4. \A v \in Workers : New(toMaster', server', v) => New(toMaster, server, v)
    BY DEF New
<1>5. \A v \in Workers : /\ New(toMaster', server', v) => Unknown(r, v)
                         /\ Once(toMaster'[v], "query")
                         /\ server'[v] = "none" => Query \notin ToSet(toMaster'[v])
    BY <1>2, <1>3, <1>4
<1>6. Turns(r, toMaster', server')
    BY <1>3, <1>5 DEF Turns
<1>7. Turns(Here, toMaster, server)'
    BY <1>6 DEF r
<1>8. \A v \in Workers : chan'[v] = "none" => ~up'[v] /\ server'[v] = "none"
    BY <1>1, <1>2
<1> QED
    BY <1>7, <1>8 DEF TurnsInv

LEMMA TellTurns ==
    ASSUME MasterInv, TurnsInv, NEW w \in Workers, NEW x \in ToMaster, Tell(w, x),
           x.type = "query" => x = Query /\ server[w] = "none"
    PROVE  /\ Once(toMaster'[w], "query") /\ \A v \in Workers \ {w} : toMaster'[v] = toMaster[v]
           /\ Query \in ToSet(toMaster'[w]) => Query \in ToSet(toMaster[w]) \/ x.type = "query"
<1> DEFINE q == toMaster[w]
<1>1. /\ q \in Seq(ToMaster) /\ Once(q, "query") /\ (server[w] = "none" => Query \notin ToSet(q))
      /\ toMaster \in [Workers -> Seq(ToMaster)]
    BY HereInTurn DEF Sides
<1>2. toMaster'[w] = q \/ toMaster'[w] = Append(q, x)
    BY <1>1 DEF Tell
<1>3. \A v \in Workers \ {w} : toMaster'[v] = toMaster[v]
    BY <1>1 DEF Tell
<1>4. q = toMaster[w]
    OBVIOUS
<1> HIDE DEF q
<1>5. LET p == Append(q, x) IN Once(p, "query") /\ ToSet(p) = ToSet(q) \cup {x}
    BY <1>1, Appended
<1>6. x = Query => x.type = "query"
    BY DEF Query
<1> QED
    BY <1>1, <1>2, <1>3, <1>4, <1>5, <1>6

LEMMA LeaveTurns ==
    ASSUME MasterInv, TurnsInv, NEW w \in Workers, up[w], Leave(w), Tell(w, [type |-> "close"]) \/ UNCHANGED toMaster
    PROVE  TurnsInv'
<1> DEFINE x == [type |-> "close"]
<1>1. /\ up' = [up EXCEPT ![w] = FALSE] /\ server' = [server EXCEPT ![w] = "was"] /\ MasterUnchanged
    BY DEF Leave
<1>2. server'[w] = "was" /\ \A v \in Workers \ {w} : server'[v] = server[v] /\ up'[v] = up[v]
    BY <1>1, HereInTurn DEF Sides
<1>3. x \in ToMaster /\ x.type # "query"
    BY DEF ToMaster
<1> HIDE DEF x
<1>4. /\ Once(toMaster'[w], "query") /\ \A v \in Workers \ {w} : toMaster'[v] = toMaster[v]
      /\ Query \in ToSet(toMaster'[w]) => Query \in ToSet(toMaster[w])
  <2>1. CASE Tell(w, x)
      BY <1>3, <2>1, TellTurns
  <2>2. CASE UNCHANGED toMaster
      BY <2>2, HereInTurn
  <2> QED
      BY <2>1, <2>2 DEF x
<1>5. Query \in ToSet(toMaster'[w]) => New(toMaster, server, w)
    BY <1>4 DEF New
<1> QED
    BY <1>1, <1>2, <1>4, <1>5, TurnsWorker

LEMMA WorkerTurns ==
    ASSUME ~Relisten, MasterInv, TurnsInv, WorkerStep PROVE TurnsInv'
<1>1. PICK w \in Workers :
        \/ Listen(w) \/ CloseServer(w) \/ WorkerGotReply(w) \/ OnNewConn(w)
        \/ WorkerDisconnects(w) \/ OnDisconnectMessage(w) \/ WorkerDies(w)
        \/ ConnectionEnds(w)
    BY DEF WorkerStep
<1>2. /\ up \in [Workers -> BOOLEAN] /\ server \in [Workers -> {"none", "asked", "open", "was"}]
      /\ \A v \in Workers : /\ Once(toMaster[v], "query")
                            /\ Query \in ToSet(toMaster[v]) => New(toMaster, server, v) /\ server[v] # "none"
                            /\ server[v] = "none" => New(toMaster, server, v)
    BY HereInTurn DEF Sides, New
<1>3. CASE Listen(w)
  <2>1. Query \in ToMaster /\ Tell(w, Query) /\ server[w] = "none" /\ server' = [server EXCEPT ![w] = "asked"]
        /\ up[w] /\ up' = up /\ MasterUnchanged
      BY <1>3 DEF Listen, Query, ToMaster
  <2>2. Once(toMaster'[w], "query") /\ \A v \in Workers \ {w} : toMaster'[v] = toMaster[v]
      BY <2>1, TellTurns
  <2> QED
      BY <1>2, <2>1, <2>2, TurnsWorker
<1>4. CASE CloseServer(w)
  <2> DEFINE x == [type |-> "close"]
  <2>1. Tell(w, x) /\ server' = [server EXCEPT ![w] = "was"] /\ up[w] /\ up' = up /\ MasterUnchanged
      BY <1>4 DEF CloseServer
  <2>2. x \in ToMaster /\ x.type # "query"
      BY DEF ToMaster
  <2> HIDE DEF x
  <2>3. /\ Once(toMaster'[w], "query") /\ \A v \in Workers \ {w} : toMaster'[v] = toMaster[v]
        /\ Query \in ToSet(toMaster'[w]) => Query \in ToSet(toMaster[w])
      BY <2>1, <2>2, TellTurns
  <2> QED
      BY <1>2, <2>1, <2>3, TurnsWorker
<1>5. CASE WorkerGotReply(w)
  <2>1. /\ server'[w] # "none" /\ (\A v \in Workers \ {w} : server'[v] = server[v])
        /\ up[w] /\ up' = up /\ MasterUnchanged /\ toMaster' = toMaster
      BY <1>2, <1>5 DEF WorkerGotReply
  <2> QED
      BY <1>2, <2>1, TurnsWorker
<1>6. CASE OnNewConn(w)
  <2> DEFINE y == Head(toWorker[w])
             x == Ack(y.object, y.conn, Accepts(w))
  <2>1. /\ Tell(w, x) /\ up[w] /\ up' = up /\ server' = server /\ MasterUnchanged
        /\ toWorker[w] # <<>> /\ y.type = "newconn" /\ toWorker' = [toWorker EXCEPT ![w] = Tail(@)]
      BY <1>6 DEF OnNewConn
  <2>2. x \in ToMaster /\ x.type # "query"
    <3>1. y \in ToWorker /\ y.type = "newconn"
        BY <2>1, WorkerReads
    <3> HIDE DEF y
    <3>2. y.object \in Objects /\ y.conn \in Conns
        BY <3>1 DEF ToWorker
    <3>3. Accepts(w) \in BOOLEAN
        BY DEF Accepts
    <3> QED
        BY <3>2, <3>3 DEF Ack, ToMaster
  <2> HIDE DEF x
  <2>3. /\ Once(toMaster'[w], "query") /\ \A v \in Workers \ {w} : toMaster'[v] = toMaster[v]
        /\ Query \in ToSet(toMaster'[w]) => Query \in ToSet(toMaster[w])
      BY <2>1, <2>2, TellTurns
  <2> QED
      BY <1>2, <2>1, <2>3, TurnsWorker
<1>7. CASE WorkerDisconnects(w) \/ OnDisconnectMessage(w) \/ WorkerDies(w)
  <2>1. up[w] /\ Leave(w) /\ (Tell(w, [type |-> "close"]) \/ UNCHANGED toMaster)
      BY <1>7 DEF WorkerDisconnects, OnDisconnectMessage, WorkerDies, Disconnects
  <2> QED
      BY <2>1, LeaveTurns
<1>8. CASE ConnectionEnds(w)
  <2>1. up[w] /\ MasterUnchanged /\ toMaster' = toMaster /\ up' = up /\ server' = server
      BY <1>8 DEF ConnectionEnds
  <2> QED
      BY <1>2, <2>1, TurnsWorker
<1> QED
    BY <1>1, <1>3, <1>4, <1>5, <1>6, <1>7, <1>8

LEMMA TurnsInit ==
    ASSUME Init PROVE TurnsInv
<1> DEFINE m == Here
<1>1. /\ m.callbacks = {} /\ m.rr = [h \in Objects |-> [state |-> "unused", all |-> {}, free |-> <<>>,
                                                       handles |-> <<>>, waiting |-> <<>>]]
    BY HereIs DEF Init
<1> HIDE DEF m
<1>2. \A h \in Objects : /\ m.rr[h].all = {} /\ m.rr[h].free = <<>> /\ m.rr[h].handles = <<>>
                         /\ m.rr[h].waiting = <<>>
    BY <1>1
<1>3. ToSet(<<>>) = {} /\ Distinct(<<>>) /\ Once(<<>>, "query")
    BY DEF ToSet, Distinct, Once
<1>4. \A h \in Objects : Free(m, h) = {} /\ Waits(m, h) = {}
    BY <1>2, <1>3 DEF Free, Waits
<1>5. InTurn(m) /\ Idle(m) /\ \A w \in Workers : Unknown(m, w)
    BY <1>1, <1>2, <1>3, <1>4 DEF InTurn, OneCall, FreeOnce, Apart, Idle, Unknown
<1>6. \A w \in Workers : toMaster[w] = <<>> /\ server[w] = "none" /\ ~up[w]
    BY DEF Init
<1> QED
    BY <1>3, <1>5, <1>6 DEF TurnsInv, Turns, m

LEMMA TurnsNext ==
    ASSUME ~Relisten, MasterInv, TurnsInv, [Next]_vars PROVE TurnsInv'
<1>1. CASE UNCHANGED vars
  <2>1. Here' = Here /\ toMaster' = toMaster /\ server' = server /\ chan' = chan /\ up' = up
      BY <1>1 DEF vars, Here
  <2>2. Turns(Here, toMaster, server)'
      BY <2>1 DEF TurnsInv
  <2> QED
      BY <2>1, <2>2 DEF TurnsInv
<1> QED
    BY <1>1, MasterTurns, WorkerTurns DEF Next

(* A set whose members are equal has at most one.                          *)
LEMMA AtMostOne ==
    ASSUME NEW S, \A x, y \in S : x = y PROVE Cardinality(S) \in {0, 1} /\ (S = {} => Cardinality(S) = 0)
<1>1. CASE S = {}
    BY <1>1, FS_EmptySet
<1>2. CASE S # {}
  <2>1. PICK x : S = {x}
      BY <1>2
  <2> QED
      BY <1>2, <2>1, FS_Singleton
<1> QED
    BY <1>1, <1>2

LEMMA TurnsSafe ==
    ASSUME MasterInv, TurnsInv PROVE NoneWaits /\ OneAtATime
<1> DEFINE m == Here
<1>1. InTurn(m) /\ Idle(m) /\ m.rr = rr /\ m.callbacks = callbacks /\ m.chan = chan
    BY HereInTurn, HereIs
<1> HIDE DEF m
<1>2. NoneWaits
    BY <1>1 DEF Idle, NoneWaits
<1>3. ASSUME NEW w \in Workers, NEW h \in Objects
      PROVE  Cardinality(Outstanding(w)) + Cardinality({i \in DOMAIN rr[h].free : rr[h].free[i] = w}) <= 1
  <2> DEFINE O == Outstanding(w)
             F == {i \in DOMAIN rr[h].free : rr[h].free[i] = w}
  <2>1. \A k, l \in O : k = l
      BY <1>1 DEF Outstanding, InTurn, OneCall
  <2>2. \A i, j \in F : i = j
      BY <1>1 DEF InTurn, FreeOnce, Distinct
  <2>3. O = {} \/ F = {}
    <3>1. F # {} => w \in Free(m, h)
        BY <1>1 DEF Free, ToSet
    <3>2. w \in Free(m, h) => O = {}
        BY <1>1 DEF Outstanding, InTurn, Apart
    <3> QED
        BY <3>1, <3>2
  <2> HIDE DEF O, F
  <2>4. /\ Cardinality(O) \in {0, 1} /\ (O = {} => Cardinality(O) = 0)
        /\ Cardinality(F) \in {0, 1} /\ (F = {} => Cardinality(F) = 0)
      BY <2>1, <2>2, AtMostOne
  <2>5. Cardinality(O) + Cardinality(F) <= 1
      BY <2>3, <2>4
  <2> QED
      BY <2>5 DEF O, F
<1> QED
    BY <1>2, <1>3 DEF OneAtATime

(* As long as no program listens again on a port it has closed: no         *)
(* connection waits while a worker is free, a worker has one connection    *)
(* at a time to answer for, and what ServedOnce says.                      *)
THEOREM KeptInTurn ==
    ASSUME ~Relisten PROVE Spec => []ConnectionsKept
<1>1. Init => MasterInv /\ TurnsInv
    BY MasterInit, TurnsInit
<1>2. MasterInv /\ TurnsInv /\ [Next]_vars => MasterInv' /\ TurnsInv'
    BY MasterNext, TurnsNext
<1>3. MasterInv /\ TurnsInv => ConnectionsKept
    BY MasterSafe, TurnsSafe DEF ConnectionsKept
<1> QED
    BY <1>1, <1>2, <1>3, PTL DEF Spec
=============================================================================
