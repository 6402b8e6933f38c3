------------------------- MODULE UnrefTimersProofs --------------------------
(***************************************************************************)
(* What a socket's timeout promises, for any sockets, timeouts and clocks: *)
(* TimeoutsKept holds of every behaviour of UnrefTimers.                   *)
(***************************************************************************)
EXTENDS UnrefTimers, SequenceTheorems, WellFoundedInduction, TLAPS

-----------------------------------------------------------------------------
(* Sequences: the first position with a property, a sequence without one   *)
(* of its elements and with another one.                                   *)

(* A set of natural numbers that is not empty has a least member.          *)
LEMMA LeastOf ==
    ASSUME NEW S \in SUBSET Nat, S # {}
    PROVE  Min(S) \in S /\ \A k \in S : Min(S) <= k
<1>1. PICK n \in S : \A k \in S : <<k, n>> \notin OpToRel(<, Nat)
    BY NatLessThanWellFounded, WFMin
<1>2. \A k \in S : ~(k < n)
    BY <1>1 DEF OpToRel
<1>3. \A k \in S : n <= k
    BY <1>2
<1> QED
    BY <1>3 DEF Min

(* r is b behind a.                                                        *)
Joins(r, a, b) ==
    /\ r \in Seq(Sockets) /\ Len(r) = Len(a) + Len(b)
    /\ \A i \in 1 .. Len(a) : r[i] = a[i]
    /\ \A j \in 1 .. Len(b) : Len(a) + j \in 1 .. Len(r) /\ r[Len(a) + j] = b[j]
    /\ \A i \in 1 .. Len(r) : i > Len(a) => i - Len(a) \in 1 .. Len(b) /\ r[i] = b[i - Len(a)]

(* Two sequences, one behind the other.                                    *)
LEMMA Behind ==
    ASSUME NEW a \in Seq(Sockets), NEW b \in Seq(Sockets) PROVE Joins(a \o b, a, b)
<1> DEFINE r == a \o b
<1>1. /\ r \in Seq(Sockets) /\ Len(r) = Len(a) + Len(b)
      /\ \A i \in 1 .. Len(a) + Len(b) : r[i] = IF i <= Len(a) THEN a[i] ELSE b[i - Len(a)]
    BY ConcatProperties
<1>2. \A i \in 1 .. Len(a) : r[i] = a[i]
    BY <1>1
<1>3. ASSUME NEW i \in 1 .. Len(r), i > Len(a)
      PROVE  i - Len(a) \in 1 .. Len(b) /\ r[i] = b[i - Len(a)]
    BY <1>1, <1>3
<1>4. ASSUME NEW j \in 1 .. Len(b)
      PROVE  Len(a) + j \in 1 .. Len(r) /\ r[Len(a) + j] = b[j]
  <2> DEFINE i == Len(a) + j
  <2>1. i \in 1 .. Len(r) /\ i > Len(a) /\ i - Len(a) = j
      BY <1>1
  <2> HIDE DEF i
  <2>2. r[i] = b[j]
      BY <1>3, <2>1
  <2> QED
      BY <2>1, <2>2 DEF i
<1> QED
    BY <1>1, <1>2, <1>3, <1>4 DEF Joins

(* A sequence without its n-th element.                                    *)
LEMMA Removed ==
    ASSUME NEW q \in Seq(Sockets), NEW n \in 1 .. Len(q), NEW r, r = RemoveAt(q, n)
    PROVE  /\ r \in Seq(Sockets) /\ Len(r) = Len(q) - 1
           /\ \A i \in 1 .. Len(r) : r[i] = IF i < n THEN q[i] ELSE q[i + 1]
<1> DEFINE a == SubSeq(q, 1, n - 1)
           b == SubSeq(q, n + 1, Len(q))
<1>1. /\ a \in Seq(Sockets) /\ Len(a) = n - 1
      /\ \A i \in 1 .. n - 1 : a[i] = q[i]
    OBVIOUS
<1>2. /\ b \in Seq(Sockets) /\ Len(b) = Len(q) - n
      /\ \A i \in 1 .. Len(q) - n : b[i] = q[i + n]
    OBVIOUS
<1>3. r = a \o b
    BY DEF RemoveAt
<1> HIDE DEF a, b
<1>4. /\ r \in Seq(Sockets) /\ Len(r) = Len(a) + Len(b)
      /\ \A i \in 1 .. Len(a) : r[i] = a[i]
      /\ \A i \in 1 .. Len(r) : i > Len(a) => i - Len(a) \in 1 .. Len(b) /\ r[i] = b[i - Len(a)]
  <2>1. Joins(r, a, b)
      BY <1>1, <1>2, <1>3, Behind
  <2> QED
      BY <2>1 DEF Joins
<1>5. ASSUME NEW i \in 1 .. Len(r), i >= n PROVE r[i] = q[i + 1]
  <2> DEFINE j == i - Len(a)
  <2>1. i > Len(a)
      BY <1>1, <1>5
  <2>2. j \in 1 .. Len(b) /\ r[i] = b[j]
      BY <1>4, <2>1
  <2>3. j \in 1 .. Len(q) - n /\ j + n = i + 1
      BY <1>1, <1>2, <2>2
  <2> HIDE DEF j
  <2> QED
      BY <1>2, <2>2, <2>3
<1> QED
    BY <1>1, <1>2, <1>4, <1>5

(* r is q with e in front of its n-th element.                             *)
Widens(r, q, n, e) ==
    /\ r \in Seq(Sockets) /\ Len(r) = Len(q) + 1
    /\ \A i \in 1 .. Len(r) : r[i] = IF i < n THEN q[i] ELSE IF i = n THEN e ELSE q[i - 1]

(* A sequence with another element in front of its n-th.                   *)
LEMMA Inserted ==
    ASSUME NEW q \in Seq(Sockets), NEW n \in 1 .. Len(q), NEW e \in Sockets
    PROVE  Widens(InsertAt(q, n, e), q, n, e)
<1> DEFINE r == InsertAt(q, n, e)
<1> DEFINE a == SubSeq(q, 1, n - 1)
           b == SubSeq(q, n, Len(q))
           c == a \o <<e>>
<1>1. /\ a \in Seq(Sockets) /\ Len(a) = n - 1
      /\ \A i \in 1 .. n - 1 : a[i] = q[i]
    OBVIOUS
<1>2. /\ b \in Seq(Sockets) /\ Len(b) = Len(q) - n + 1
      /\ \A i \in 1 .. Len(q) - n + 1 : b[i] = q[i + n - 1]
    OBVIOUS
<1>3. r = c \o b
    BY DEF InsertAt
<1>4. /\ <<e>> \in Seq(Sockets) /\ Len(<<e>>) = 1 /\ <<e>>[1] = e
    OBVIOUS
<1> HIDE DEF a, b
<1>5. /\ c \in Seq(Sockets) /\ Len(c) = n /\ c[n] = e
      /\ \A i \in 1 .. n - 1 : c[i] = q[i]
  <2> DEFINE d == <<e>>
  <2> HIDE DEF d
  <2>1. c = a \o d /\ d \in Seq(Sockets) /\ Len(d) = 1 /\ d[1] = e
      BY <1>4 DEF d
  <2> HIDE DEF c
  <2>2. /\ c \in Seq(Sockets) /\ Len(c) = Len(a) + Len(d)
        /\ \A i \in 1 .. Len(a) : c[i] = a[i]
        /\ \A j \in 1 .. Len(d) : c[Len(a) + j] = d[j]
    <3>1. Joins(c, a, d)
        BY <1>1, <2>1, Behind
    <3> QED
        BY <3>1 DEF Joins
  <2>3. Len(a) + 1 = n /\ 1 \in 1 .. Len(d)
      BY <1>1, <2>1
  <2>4. c[n] = e
      BY <2>1, <2>2, <2>3
  <2> QED
      BY <1>1, <2>1, <2>2, <2>4
<1> HIDE DEF c
<1>6. /\ r \in Seq(Sockets) /\ Len(r) = Len(c) + Len(b)
      /\ \A i \in 1 .. Len(c) : r[i] = c[i]
      /\ \A i \in 1 .. Len(r) : i > Len(c) => i - Len(c) \in 1 .. Len(b) /\ r[i] = b[i - Len(c)]
  <2>1. Joins(r, c, b)
      BY <1>2, <1>3, <1>5, Behind
  <2> QED
      BY <2>1 DEF Joins
<1>7. ASSUME NEW i \in 1 .. Len(r), i > n PROVE r[i] = q[i - 1]
  <2> DEFINE j == i - Len(c)
  <2>1. j \in 1 .. Len(q) - n + 1 /\ j + n - 1 = i - 1 /\ r[i] = b[j]
      BY <1>2, <1>5, <1>6, <1>7
  <2> HIDE DEF j
  <2> QED
      BY <1>2, <2>1
<1>8. \A i \in 1 .. n : r[i] = c[i]
    BY <1>5, <1>6
<1> QED
    BY <1>2, <1>5, <1>6, <1>7, <1>8 DEF Widens

(* L.remove() of an item that is in the list once.                         *)
LEMMA Without ==
    ASSUME NEW q \in Seq(Sockets), NEW s \in Sockets, NEW r, r = RemoveFirst(q, s),
           \A i, j \in DOMAIN q : i < j => q[i] # q[j]
    PROVE  /\ r \in Seq(Sockets)
           /\ \A u \in Sockets : Contains(r, u) <=> u # s /\ Contains(q, u)
           /\ \A i, j \in DOMAIN r : i < j => \E k, l \in DOMAIN q : k < l /\ r[i] = q[k] /\ r[j] = q[l]
           /\ \A i \in DOMAIN r : \E k \in DOMAIN q : r[i] = q[k]
<1>1. CASE Contains(q, s)
  <2> DEFINE I == {i \in 1 .. Len(q) : q[i] = s}
             n == Min(I)
  <2>1. n \in I
    <3>1. I \in SUBSET Nat /\ I # {}
        BY <1>1 DEF Contains
    <3> HIDE DEF I
    <3> QED
        BY <3>1, LeastOf
  <2>2. SelectInSeq(q, LAMBDA v : v = s) = n
      BY <1>1 DEF SelectInSeq, Contains
  <2>3. r = RemoveAt(q, n)
      BY <1>1, <2>2 DEF RemoveFirst, Contains
  <2>4. n \in 1 .. Len(q) /\ q[n] = s
      BY <2>1
  <2> HIDE DEF n, I
  <2>5. /\ r \in Seq(Sockets) /\ Len(r) = Len(q) - 1
        /\ \A i \in 1 .. Len(r) : r[i] = IF i < n THEN q[i] ELSE q[i + 1]
      BY <2>3, <2>4, Removed
  <2>6. /\ \A i \in 1 .. Len(r) : i < n => r[i] = q[i]
        /\ \A i \in 1 .. Len(r) : ~(i < n) => r[i] = q[i + 1]
    <3>1. ASSUME NEW i \in 1 .. Len(r), i < n PROVE r[i] = q[i]
        BY <2>5, <3>1
    <3>2. ASSUME NEW i \in 1 .. Len(r), ~(i < n) PROVE r[i] = q[i + 1]
        BY <2>5, <3>2
    <3> QED
        BY <3>1, <3>2
  <2>7. DOMAIN r = 1 .. Len(r)
      BY <2>5
  <2>8. ASSUME NEW i \in DOMAIN r
        PROVE  \E k \in DOMAIN q :
                 k # n /\ r[i] = q[k] /\ (i < n => k = i) /\ (~(i < n) => k = i + 1)
    <3>1. CASE i < n
      <4>1. r[i] = q[i]
          BY <2>6, <2>7, <3>1
      <4>2. i \in DOMAIN q /\ i # n
          BY <2>4, <2>5, <3>1
      <4> QED
          BY <3>1, <4>1, <4>2
    <3>2. CASE ~(i < n)
      <4> DEFINE k == i + 1
      <4>1. r[i] = q[k]
          BY <2>6, <2>7, <3>2
      <4>2. k \in DOMAIN q /\ k # n
          BY <2>4, <2>5, <3>2
      <4>3. k = i + 1
          OBVIOUS
      <4> HIDE DEF k
      <4> QED
          BY <3>2, <4>1, <4>2, <4>3
    <3> QED
        BY <3>1, <3>2
  <2>9. ASSUME NEW i \in DOMAIN r, NEW j \in DOMAIN r, i < j
        PROVE  \E k, l \in DOMAIN q : k < l /\ r[i] = q[k] /\ r[j] = q[l]
    <3>1. PICK k \in DOMAIN q : r[i] = q[k] /\ (i < n => k = i) /\ (~(i < n) => k = i + 1)
        BY <2>8
    <3>2. PICK l \in DOMAIN q : r[j] = q[l] /\ (j < n => l = j) /\ (~(j < n) => l = j + 1)
        BY <2>8
    <3>3. i \in Int /\ j \in Int /\ n \in Int
        BY <2>4, <2>7
    <3>4. k < l
        BY <2>9, <3>1, <3>2, <3>3
    <3> QED
        BY <3>1, <3>2, <3>4
  <2>10. ASSUME NEW k \in DOMAIN q, k # n
        PROVE  \E i \in DOMAIN r : r[i] = q[k]
    <3> DEFINE i == IF k < n THEN k ELSE k - 1
    <3>1. i \in DOMAIN r /\ k = IF i < n THEN i ELSE i + 1
        BY <2>4, <2>5, <2>10
    <3> HIDE DEF i
    <3>2. r[i] = q[k]
        BY <2>5, <3>1
    <3> QED
        BY <3>1, <3>2
  <2>11. \A k \in DOMAIN q : k # n => q[k] # s
      BY <2>4
  <2>12. ASSUME NEW u \in Sockets
         PROVE  Contains(r, u) <=> u # s /\ Contains(q, u)
    <3>1. ASSUME Contains(r, u) PROVE u # s /\ Contains(q, u)
        BY <2>5, <2>8, <2>11, <3>1 DEF Contains
    <3>2. ASSUME u # s, Contains(q, u) PROVE Contains(r, u)
        BY <2>4, <2>5, <2>10, <3>2 DEF Contains
    <3> QED
        BY <3>1, <3>2
  <2> QED
      BY <2>5, <2>8, <2>9, <2>12
<1>2. CASE ~Contains(q, s)
    BY <1>2 DEF RemoveFirst, Contains
<1> QED
    BY <1>1, <1>2

(* The head of the list is taken.                                          *)
LEMMA Beheaded ==
    ASSUME NEW q \in Seq(Sockets), q # <<>>, \A i, j \in DOMAIN q : i < j => q[i] # q[j]
    PROVE  /\ Tail(q) \in Seq(Sockets) /\ Head(q) \in Sockets /\ Head(q) = q[1]
           /\ \A u \in Sockets : Contains(Tail(q), u) <=> u # Head(q) /\ Contains(q, u)
           /\ \A i \in DOMAIN Tail(q) : i + 1 \in DOMAIN q /\ Tail(q)[i] = q[i + 1]
<1>1. /\ Tail(q) \in Seq(Sockets) /\ Len(Tail(q)) = Len(q) - 1 /\ Head(q) \in Sockets /\ Head(q) = q[1]
      /\ 1 \in DOMAIN q
      /\ \A i \in 1 .. Len(Tail(q)) : i + 1 \in DOMAIN q /\ Tail(q)[i] = q[i + 1]
    OBVIOUS
<1>2. ASSUME NEW u \in Sockets, Contains(Tail(q), u) PROVE u # Head(q) /\ Contains(q, u)
  <2>1. PICK i \in 1 .. Len(Tail(q)) : Tail(q)[i] = u
      BY <1>2 DEF Contains
  <2>2. i + 1 \in DOMAIN q /\ q[i + 1] = u /\ 1 < i + 1
      BY <1>1, <2>1
  <2>3. q[1] # u
      BY <1>1, <2>2
  <2> QED
      BY <1>1, <2>2, <2>3 DEF Contains
<1>3. ASSUME NEW u \in Sockets, u # Head(q), Contains(q, u) PROVE Contains(Tail(q), u)
  <2>1. PICK k \in 1 .. Len(q) : q[k] = u
      BY <1>3 DEF Contains
  <2>2. k # 1
      BY <1>1, <1>3, <2>1
  <2> DEFINE i == k - 1
  <2>3. i \in 1 .. Len(Tail(q)) /\ i + 1 = k
      BY <1>1, <2>2
  <2> HIDE DEF i
  <2>4. Tail(q)[i] = u
      BY <1>1, <2>1, <2>3
  <2> QED
      BY <2>3, <2>4 DEF Contains
<1> QED
    BY <1>1, <1>2, <1>3

(* An item is put in front of the one at place.                            *)
LEMMA With ==
    ASSUME NEW q \in Seq(Sockets), NEW s \in Sockets, NEW n \in 1 .. Len(q), NEW r, r = InsertAt(q, n, s)
    PROVE  /\ r \in Seq(Sockets) /\ Len(r) = Len(q) + 1
           /\ \A i \in 1 .. Len(r) : r[i] = IF i < n THEN q[i] ELSE IF i = n THEN s ELSE q[i - 1]
           /\ \A u \in Sockets : Contains(r, u) <=> u = s \/ Contains(q, u)
<1>1. /\ r \in Seq(Sockets) /\ Len(r) = Len(q) + 1
      /\ \A i \in 1 .. Len(r) : r[i] = IF i < n THEN q[i] ELSE IF i = n THEN s ELSE q[i - 1]
  <2>1. Widens(r, q, n, s)
      BY Inserted
  <2> QED
      BY <2>1 DEF Widens
<1>2. ASSUME NEW u \in Sockets, Contains(r, u), u # s PROVE Contains(q, u)
  <2>1. PICK i \in 1 .. Len(r) : r[i] = u
      BY <1>2 DEF Contains
  <2> DEFINE k == IF i < n THEN i ELSE i - 1
  <2>2. i # n
      BY <1>1, <1>2, <2>1
  <2>3. k \in 1 .. Len(q) /\ r[i] = q[k]
      BY <1>1, <2>2
  <2> HIDE DEF k
  <2> QED
      BY <2>1, <2>3 DEF Contains
<1>3. ASSUME NEW u \in Sockets, Contains(q, u) PROVE Contains(r, u)
  <2>1. PICK k \in 1 .. Len(q) : q[k] = u
      BY <1>3 DEF Contains
  <2> DEFINE i == IF k < n THEN k ELSE k + 1
  <2>2. i \in 1 .. Len(r) /\ i # n /\ k = IF i < n THEN i ELSE i - 1
      BY <1>1
  <2> HIDE DEF i
  <2>3. r[i] = u
      BY <1>1, <2>1, <2>2
  <2> QED
      BY <2>2, <2>3 DEF Contains
<1>4. Contains(r, s)
    BY <1>1 DEF Contains
<1> QED
    BY <1>1, <1>2, <1>3, <1>4

-----------------------------------------------------------------------------
(* The inductive invariant, of the variables as one record, a machine.     *)

Item    == [start : Int, timeout : Int, since : Int, timedOut : BOOLEAN]
Timer   == [on : BOOLEAN, due : Int, when : Int]
Running == [socket : Sockets, now : Int] \cup {NotRunning}
Machine == [item : [Sockets -> Item], list : Seq(Sockets), timer : Timer,
            running : Running, ticks : Nat]

(* The loop's clock is behind the monotonic one.                           *)
Clocks ==
    /\ clock \in Nat /\ loop \in Nat /\ loop <= clock /\ skew \in Int /\ steady \in BOOLEAN
    /\ steady => skew = 0

Ordered(m) ==
    /\ \A i, j \in DOMAIN m.list : i < j => m.list[i] # m.list[j]
    /\ \A i, j \in DOMAIN m.list : i < j => When(m, m.list[i]) <= When(m, m.list[j])

(* Just the sockets that have a timeout to come are in the list.           *)
Listed(m, s) == Contains(m.list, s) <=> m.item[s].timeout > 0 /\ ~m.item[s].timedOut

(* The timer was started for the first socket or for one before it.        *)
Early(m) == m.timer.when <= When(m, m.list[1]) /\ (steady => m.timer.due <= m.timer.when)
Awaited(m) == m.list # <<>> /\ m.running = NotRunning /\ m.ticks = 0 => m.timer.on /\ Early(m)

(* The items bear the time of their last activity, and unrefTimeout() goes *)
(* by a time that the clock has reached.                                   *)
Stamped(m) ==
    steady => /\ \A s \in Sockets : m.item[s].start = m.item[s].since
              /\ m.running # NotRunning => loop <= m.running.now /\ m.running.now <= clock

Sound(m) == /\ m \in Machine /\ Ordered(m) /\ Awaited(m) /\ Stamped(m)
            /\ \A s \in Sockets : Listed(m, s)

UnrefInv == Clocks /\ Sound(Here)

-----------------------------------------------------------------------------
(* The functions of the source keep a machine sound.                       *)

(* L.remove(): what is left is in the same order, and the first of it is   *)
(* not sooner than the first was.                                          *)
LEMMA RemoveItemKeeps ==
    ASSUME NEW m \in Machine, Ordered(m), NEW s \in Sockets, NEW r, r = RemoveItem(m, s)
    PROVE  /\ r = [m EXCEPT !.list = r.list] /\ r \in Machine /\ Ordered(r)
           /\ \A u \in Sockets : Contains(r.list, u) <=> u # s /\ Contains(m.list, u)
           /\ r.list # <<>> => m.list # <<>> /\ When(m, m.list[1]) <= When(m, r.list[1])
<1>1. r.list = RemoveFirst(m.list, s) /\ r = [m EXCEPT !.list = r.list]
    BY DEF RemoveItem, Machine
<1>2. m.list \in Seq(Sockets) /\ \A i, j \in DOMAIN m.list : i < j => m.list[i] # m.list[j]
    BY DEF Machine, Ordered
<1>3. /\ r.list \in Seq(Sockets)
      /\ \A u \in Sockets : Contains(r.list, u) <=> u # s /\ Contains(m.list, u)
      /\ \A i, j \in DOMAIN r.list : i < j =>
            \E k, l \in DOMAIN m.list : k < l /\ r.list[i] = m.list[k] /\ r.list[j] = m.list[l]
      /\ \A i \in DOMAIN r.list : \E k \in DOMAIN m.list : r.list[i] = m.list[k]
    BY <1>1, <1>2, Without
<1>4. r \in Machine
    BY <1>1, <1>3 DEF Machine
<1>5. \A u : When(r, u) = When(m, u)
    BY <1>1 DEF When, Machine
<1>6. Ordered(r)
    BY <1>3, <1>5 DEF Ordered
<1>7. ASSUME r.list # <<>> PROVE m.list # <<>> /\ When(m, m.list[1]) <= When(m, r.list[1])
  <2>1. 1 \in DOMAIN r.list
      BY <1>3, <1>7
  <2>2. PICK k \in DOMAIN m.list : r.list[1] = m.list[k]
      BY <1>3, <2>1
  <2>3. k \in Nat /\ 1 <= k /\ 1 \in DOMAIN m.list /\ m.list # <<>>
      BY <1>2, <2>2
  <2>4. CASE k = 1
    <3>1. When(m, m.list[1]) \in Int
        BY <1>2, <2>3 DEF When, Machine, Item
    <3> QED
        BY <2>2, <2>3, <2>4, <3>1
  <2>5. CASE 1 < k
      BY <2>2, <2>3, <2>5 DEF Ordered
  <2> QED
      BY <2>3, <2>4, <2>5
<1> QED
    BY <1>1, <1>3, <1>4, <1>6, <1>7

(* Sound but for what socket s has to do with the list.                    *)
Almost(m, s) == /\ m \in Machine /\ Ordered(m) /\ Awaited(m) /\ Stamped(m)
                /\ \A u \in Sockets \ {s} : Listed(m, u)

(* A machine that an item is removed from is sound for all the others.    *)
LEMMA RemoveItemSound ==
    ASSUME NEW s \in Sockets, NEW m, Almost(m, s), NEW r, r = RemoveItem(m, s)
    PROVE  /\ Almost(r, s) /\ ~Contains(r.list, s)
           /\ r.timer = m.timer /\ r.item = m.item /\ r.running = m.running /\ r.ticks = m.ticks
           /\ r.list # <<>> => m.list # <<>> /\ When(m, m.list[1]) <= When(m, r.list[1])
<1>1. /\ r = [m EXCEPT !.list = r.list] /\ r \in Machine /\ Ordered(r)
      /\ \A u \in Sockets : Contains(r.list, u) <=> u # s /\ Contains(m.list, u)
      /\ r.list # <<>> => m.list # <<>> /\ When(m, m.list[1]) <= When(m, r.list[1])
    BY RemoveItemKeeps DEF Almost
<1>2. /\ r.timer = m.timer /\ r.item = m.item /\ r.running = m.running /\ r.ticks = m.ticks
      /\ \A u : When(r, u) = When(m, u)
    BY <1>1 DEF Almost, Machine, When
<1>3. Stamped(r) /\ \A u \in Sockets \ {s} : Listed(r, u)
    BY <1>1, <1>2 DEF Almost, Stamped, Listed
<1>4. Awaited(r)
  <2> SUFFICES ASSUME r.list # <<>>, r.running = NotRunning, r.ticks = 0
               PROVE  r.timer.on /\ Early(r)
      BY DEF Awaited
  <2>1. m.timer.on /\ m.timer.when <= When(m, m.list[1]) /\ (steady => m.timer.due <= m.timer.when)
      BY <1>1, <1>2 DEF Almost, Awaited, Early
  <2>2. m.timer.when \in Int
      BY DEF Almost, Machine, Timer
  <2>3. 1 \in DOMAIN m.list /\ 1 \in DOMAIN r.list /\ m.list[1] \in Sockets /\ r.list[1] \in Sockets
      BY <1>1 DEF Almost, Machine
  <2>4. When(m, m.list[1]) \in Int /\ When(m, r.list[1]) \in Int
    <3>1. m.item[m.list[1]] \in Item /\ m.item[r.list[1]] \in Item
        BY <2>3 DEF Almost, Machine
    <3> QED
        BY <3>1 DEF Item, When
  <2> QED
      BY <1>1, <1>2, <2>1, <2>2, <2>4 DEF Early
<1> QED
    BY <1>1, <1>2, <1>3, <1>4 DEF Almost

(* The fields of an item that is in no list change.                        *)
LEMMA ItemChanges ==
    ASSUME NEW s \in Sockets, NEW m, Almost(m, s), ~Contains(m.list, s), NEW x \in Item,
           steady => x.start = x.since, NEW r, r = [m EXCEPT !.item[s] = x]
    PROVE  Almost(r, s)
<1>1. /\ r.list = m.list /\ r.timer = m.timer /\ r.running = m.running /\ r.ticks = m.ticks
      /\ r.item[s] = x /\ \A u \in Sockets \ {s} : r.item[u] = m.item[u]
    BY DEF Almost, Machine
<1>2. r \in Machine
    BY DEF Almost, Machine
<1>3. \A i \in DOMAIN m.list : m.list[i] \in Sockets \ {s} /\ When(r, m.list[i]) = When(m, m.list[i])
    BY <1>1 DEF Almost, Machine, Contains, When
<1>4. Ordered(r)
    BY <1>1, <1>3 DEF Almost, Ordered
<1>5. Stamped(r) /\ \A u \in Sockets \ {s} : Listed(r, u)
    BY <1>1 DEF Almost, Stamped, Listed
<1>6. Awaited(r)
  <2>1. m.list # <<>> => 1 \in DOMAIN m.list
      BY DEF Almost, Machine
  <2> QED
      BY <1>1, <1>3, <2>1 DEF Almost, Awaited, Early
<1> QED
    BY <1>1, <1>2, <1>4, <1>5, <1>6 DEF Almost

(* unenroll(), and enroll(), which gives the item a timeout.               *)
LEMMA UnenrollSound ==
    ASSUME NEW s \in Sockets, NEW m, Almost(m, s), NEW r, r = Unenroll(m, s)
    PROVE  Sound(r) /\ ~Contains(r.list, s)
<1> DEFINE m1 == RemoveItem(m, s)
           x == [m1.item[s] EXCEPT !.timeout = -1]
<1>1. Almost(m1, s) /\ ~Contains(m1.list, s)
    BY RemoveItemSound
<1>2. r = [m1 EXCEPT !.item[s] = x]
    BY DEF Unenroll
<1> HIDE DEF m1
<1>3. m1.item[s] \in Item /\ (steady => m1.item[s].start = m1.item[s].since)
    BY <1>1 DEF Almost, Machine, Stamped
<1>4. x \in Item /\ (steady => x.start = x.since) /\ x.timeout = -1
    BY <1>3 DEF Item
<1> HIDE DEF x
<1>5. Almost(r, s)
    BY <1>1, <1>2, <1>4, ItemChanges
<1>6. r.list = m1.list /\ r.item[s] = x
    BY <1>1, <1>2 DEF Almost, Machine
<1>7. Listed(r, s)
    BY <1>1, <1>4, <1>6 DEF Listed
<1> QED
    BY <1>1, <1>5, <1>6, <1>7 DEF Sound, Almost

(* enroll(): the item has its timeout and is not in the list yet.          *)
LEMMA EnrollSound ==
    ASSUME NEW s \in Sockets, NEW m, Almost(m, s), NEW msecs \in Int, NEW r, r = Enroll(m, s, msecs)
    PROVE  Almost(r, s) /\ r.item[s].timeout = msecs
<1> DEFINE m1 == Unenroll(m, s)
           x == [m1.item[s] EXCEPT !.timeout = msecs]
<1>1. Almost(m1, s) /\ ~Contains(m1.list, s)
    BY UnenrollSound DEF Sound, Almost
<1>2. r = [m1 EXCEPT !.item[s] = x]
    BY DEF Enroll
<1> HIDE DEF m1
<1>3. m1.item[s] \in Item /\ (steady => m1.item[s].start = m1.item[s].since)
    BY <1>1 DEF Almost, Machine, Stamped
<1>4. x \in Item /\ (steady => x.start = x.since) /\ x.timeout = msecs
    BY <1>3 DEF Item
<1> HIDE DEF x
<1>5. Almost(r, s)
    BY <1>1, <1>2, <1>4, ItemChanges
<1>6. r.item[s] = x
    BY <1>1, <1>2 DEF Almost, Machine
<1> QED
    BY <1>4, <1>5, <1>6

(* The sequence q is sorted by w and has no element twice.                 *)
SortedBy(q, w) ==
    \A i, j \in 1 .. Len(q) : i < j => q[i] # q[j] /\ w[q[i]] <= w[q[j]]

(* r is a sequence with the elements of q and s, and with q's first or s   *)
(* in front.                                                               *)
Gains(r, q, s, w) ==
    /\ r \in Seq(Sockets) /\ r # <<>> /\ SortedBy(r, w)
    /\ \A u \in Sockets : Contains(r, u) <=> u = s \/ Contains(q, u)

(* A new element goes behind a sorted sequence if no other is later ...    *)
LEMMA BehindAll ==
    ASSUME NEW q \in Seq(Sockets), q # <<>>, NEW s \in Sockets, NEW w \in [Sockets -> Int],
           SortedBy(q, w), ~Contains(q, s), \A i \in 1 .. Len(q) : w[q[i]] <= w[s]
    PROVE  Gains(Append(q, s), q, s, w) /\ Append(q, s)[1] = q[1]
<1> DEFINE r == Append(q, s)
           n == Len(q) + 1
<1>1. /\ Len(q) \in Nat /\ 1 \in 1 .. Len(q)
      /\ \A i \in 1 .. Len(q) : q[i] \in Sockets \ {s}
    BY DEF Contains
<1>2. /\ r \in Seq(Sockets) /\ Len(r) = n /\ r # <<>> /\ r[n] = s
      /\ \A i \in 1 .. Len(q) : i \in 1 .. n /\ r[i] = q[i]
      /\ \A i \in 1 .. n : i # n => i \in 1 .. Len(q)
    OBVIOUS
<1> HIDE DEF r, n
<1>3. SortedBy(r, w)
  <2> SUFFICES ASSUME NEW i \in 1 .. n, NEW j \in 1 .. n, i < j
               PROVE  r[i] # r[j] /\ w[r[i]] <= w[r[j]]
      BY <1>2 DEF SortedBy
  <2>1. i \in 1 .. Len(q)
      BY <1>1 DEF n
  <2>2. CASE j = n
      BY <1>1, <1>2, <2>1, <2>2
  <2>3. CASE j # n
    <3>1. j \in 1 .. Len(q) /\ r[i] = q[i] /\ r[j] = q[j]
        BY <1>2, <2>1, <2>3
    <3> QED
        BY <2>1, <3>1 DEF SortedBy
  <2> QED
      BY <2>2, <2>3
<1>4. \A u \in Sockets : Contains(r, u) <=> u = s \/ Contains(q, u)
  <2>1. ASSUME NEW u \in Sockets, Contains(r, u), u # s PROVE Contains(q, u)
      BY <1>2, <2>1 DEF Contains
  <2>2. ASSUME NEW u \in Sockets, Contains(q, u) PROVE Contains(r, u)
      BY <1>2, <2>2 DEF Contains
  <2>3. n \in 1 .. n
      BY <1>1 DEF n
  <2>4. Contains(r, s)
      BY <1>2, <2>3 DEF Contains
  <2> QED
      BY <2>1, <2>2, <2>4
<1> QED
    BY <1>1, <1>2, <1>3, <1>4 DEF Gains, r

(* ... and else in front of the first that is.                             *)
LEMMA InFrontOf ==
    ASSUME NEW q \in Seq(Sockets), NEW s \in Sockets, NEW w \in [Sockets -> Int],
           SortedBy(q, w), ~Contains(q, s), NEW place \in 1 .. Len(q), w[s] < w[q[place]],
           \A i \in 1 .. Len(q) : i < place => w[q[i]] <= w[s]
    PROVE  Gains(InsertAt(q, place, s), q, s, w)
<1> DEFINE r == InsertAt(q, place, s)
<1>1. /\ Len(q) \in Nat /\ \A i \in 1 .. Len(q) : q[i] \in Sockets /\ q[i] # s /\ w[q[i]] \in Int
      /\ w[s] \in Int
    BY DEF Contains
<1>2. /\ r \in Seq(Sockets) /\ Len(r) = Len(q) + 1
      /\ \A i \in 1 .. Len(r) : r[i] = IF i < place THEN q[i] ELSE IF i = place THEN s ELSE q[i - 1]
  <2>1. Widens(r, q, place, s)
      BY Inserted
  <2> QED
      BY <2>1 DEF Widens
<1>3. \A u \in Sockets : Contains(r, u) <=> u = s \/ Contains(q, u)
    BY With
<1> HIDE DEF r
<1>4. Len(q) \in Nat /\ Len(r) = Len(q) + 1 /\ place \in 1 .. Len(q)
    BY <1>1, <1>2
<1>5. /\ \A i \in 1 .. Len(r) : i < place => r[i] = q[i]
      /\ \A i \in 1 .. Len(r) : i > place => r[i] = q[i - 1]
  <2>1. ASSUME NEW i \in 1 .. Len(r), i < place PROVE r[i] = q[i]
      BY <1>2, <2>1
  <2>2. ASSUME NEW i \in 1 .. Len(r), i > place PROVE r[i] = q[i - 1]
    <3>1. ~(i < place) /\ i # place
        BY <2>2
    <3> QED
        BY <1>2, <3>1
  <2> QED
      BY <2>1, <2>2
<1>6. \A i, j \in 1 .. Len(q) : i < j => q[i] # q[j] /\ w[q[i]] <= w[q[j]]
    BY DEF SortedBy
<1>7. r # <<>> /\ r[1] = IF place = 1 THEN s ELSE q[1]
    BY <1>1, <1>2
<1>8. \A i \in 1 .. Len(q) : place <= i => w[s] <= w[q[i]]
  <2>1. ASSUME NEW i \in 1 .. Len(q), place < i PROVE w[q[place]] <= w[q[i]]
      BY <1>6, <2>1
  <2> QED
      BY <1>1, <2>1
<1>9. SortedBy(r, w)
  <2> SUFFICES ASSUME NEW i \in 1 .. Len(r), NEW j \in 1 .. Len(r), i < j
               PROVE  r[i] # r[j] /\ w[r[i]] <= w[r[j]]
      BY <1>2 DEF SortedBy
  <2>1. CASE j < place
    <3>1. i \in 1 .. Len(q) /\ j \in 1 .. Len(q) /\ i < place
        BY <1>4, <2>1
    <3>2. r[i] = q[i] /\ r[j] = q[j]
        BY <1>5, <2>1, <3>1
    <3> QED
        BY <1>6, <3>1, <3>2
  <2>2. CASE j = place
    <3>1. r[i] = q[i] /\ r[j] = s /\ i \in 1 .. Len(q) /\ i < place
        BY <1>2, <2>2
    <3> QED
        BY <1>1, <3>1
  <2>3. CASE place < j /\ i < place
    <3> DEFINE k == j - 1
    <3>1. i \in 1 .. Len(q) /\ k \in 1 .. Len(q) /\ i < k
        BY <1>4, <2>3
    <3>2. r[i] = q[i]
        BY <1>5, <2>3
    <3>3. r[j] = q[k]
        BY <1>5, <2>3
    <3> HIDE DEF k
    <3> QED
        BY <1>6, <3>1, <3>2, <3>3
  <2>4. CASE place < j /\ i = place
    <3> DEFINE k == j - 1
    <3>1. r[i] = s /\ r[j] = q[k] /\ k \in 1 .. Len(q) /\ place <= k
        BY <1>2, <2>4
    <3> HIDE DEF k
    <3> QED
        BY <1>1, <1>8, <3>1
  <2>5. CASE place < j /\ place < i
    <3> DEFINE k == i - 1
               l == j - 1
    <3>1. k \in 1 .. Len(q) /\ l \in 1 .. Len(q) /\ k < l
        BY <1>4, <2>5
    <3>2. r[i] = q[k]
        BY <1>5, <2>5
    <3>3. r[j] = q[l]
        BY <1>5, <2>5
    <3> HIDE DEF k, l
    <3> QED
        BY <3>1, <3>2, <3>3, <1>6
  <2> QED
      BY <1>2, <2>1, <2>2, <2>3, <2>4, <2>5
<1> QED
    BY <1>2, <1>3, <1>7, <1>9 DEF Gains, r

(* The new item goes in front of the first that times out later, which     *)
(* keeps the order.                                                        *)
LEMMA InsertKeepsOrder ==
    ASSUME NEW m \in Machine, Ordered(m), m.list # <<>>, NEW s \in Sockets, ~Contains(m.list, s),
           NEW place, place = PlaceFor(m, When(m, s)), NEW r, r = Insert(m, s, place)
    PROVE  /\ r = [m EXCEPT !.list = r.list] /\ r \in Machine /\ Ordered(r) /\ r.list # <<>>
           /\ \A u \in Sockets : Contains(r.list, u) <=> u = s \/ Contains(m.list, u)
           /\ \/ place = 1 /\ r.list[1] = s
              \/ place # 1 /\ r.list[1] = m.list[1] /\ When(m, m.list[1]) <= When(m, s)
<1> DEFINE q == m.list
           l == r.list
           w == [u \in Sockets |-> When(m, u)]
           I == {i \in 1 .. Len(q) : When(m, s) < When(m, q[i])}
<1>1. q \in Seq(Sockets) /\ w \in [Sockets -> Int] /\ w[s] = When(m, s)
    BY DEF Machine, Item, When
<1>2. place = IF I # {} THEN Min(I) ELSE 0
    BY DEF PlaceFor, SelectInSeq
<1>3. r = [m EXCEPT !.list = l] /\ \A u \in Sockets : When(r, u) = w[u]
    BY DEF When, Insert, Machine
<1>4. 1 \in 1 .. Len(q) /\ \A i \in 1 .. Len(q) : w[q[i]] = When(m, q[i])
    BY <1>1
<1>5. SortedBy(q, w)
    BY <1>1, <1>4 DEF SortedBy, Ordered
<1>6. Gains(l, q, s, w) /\ \/ place = 1 /\ l[1] = s
                           \/ place # 1 /\ l[1] = q[1] /\ w[q[1]] <= w[s]
  <2>1. CASE I = {}
    <3>1. place = 0 /\ l = Append(q, s)
        BY <1>2, <2>1 DEF Insert, Machine
    <3>2. ASSUME NEW i \in 1 .. Len(q) PROVE w[q[i]] <= w[s]
      <4>1. ~(When(m, s) < When(m, q[i])) /\ q[i] \in Sockets
          BY <1>1, <2>1
      <4>2. ~(w[s] < w[q[i]]) /\ w[s] \in Int /\ w[q[i]] \in Int
          BY <1>1, <1>4, <4>1
      <4> HIDE DEF w
      <4> QED
          BY <4>2
    <3> HIDE DEF q, w, l
    <3>3. Gains(Append(q, s), q, s, w) /\ Append(q, s)[1] = q[1]
        BY <1>1, <1>4, <1>5, <3>2, BehindAll DEF q
    <3> QED
        BY <1>4, <3>1, <3>2, <3>3
  <2>2. CASE I # {}
    <3>1. place \in I /\ \A k \in I : place <= k
      <4>1. I \in SUBSET Nat
          OBVIOUS
      <4> HIDE DEF I
      <4>2. place = Min(I)
          BY <1>2, <2>2
      <4>3. Min(I) \in I /\ \A k \in I : Min(I) <= k
          BY <2>2, <4>1, LeastOf
      <4> QED
          BY <4>2, <4>3
    <3>2. place \in 1 .. Len(q) /\ w[s] < w[q[place]]
        BY <1>1, <1>4, <3>1
    <3>3. ASSUME NEW i \in 1 .. Len(q), i < place PROVE w[q[i]] <= w[s]
      <4>1. i \notin I
          BY <3>1, <3>2, <3>3
      <4>2. ~(When(m, s) < When(m, q[i])) /\ q[i] \in Sockets
          BY <1>1, <4>1
      <4>3. ~(w[s] < w[q[i]]) /\ w[s] \in Int /\ w[q[i]] \in Int
          BY <1>1, <1>4, <4>2
      <4> HIDE DEF w
      <4> QED
          BY <4>3
    <3>4. l = InsertAt(q, place, s)
        BY <3>2 DEF Insert, Machine
    <3> HIDE DEF q, w, l, I
    <3>5. Gains(l, q, s, w) /\ l[1] = IF place = 1 THEN s ELSE q[1]
      <4>1. ~Contains(q, s)
          BY DEF q
      <4>2. Gains(l, q, s, w)
          BY <1>1, <1>5, <3>2, <3>3, <3>4, <4>1, InFrontOf
      <4>3. l[1] = IF place = 1 THEN s ELSE q[1]
        <5>1. Widens(l, q, place, s)
            BY <1>1, <3>2, <3>4, Inserted
        <5>2. 1 \in 1 .. Len(l) /\ place \in Nat \ {0}
            BY <1>1, <3>2, <5>1 DEF Widens
        <5> QED
            BY <5>1, <5>2 DEF Widens
      <4> QED
          BY <4>2, <4>3
    <3>6. place # 1 => w[q[1]] <= w[s]
        BY <1>4, <3>2, <3>3
    <3> QED
        BY <3>5, <3>6
  <2> QED
      BY <2>1, <2>2
<1>7. r \in Machine /\ l # <<>>
    BY <1>3, <1>6 DEF Machine, Gains
<1>8. Ordered(r)
  <2>1. l \in Seq(Sockets) /\ SortedBy(l, w)
      BY <1>6 DEF Gains
  <2>2. \A i \in DOMAIN l : When(r, l[i]) = w[l[i]]
      BY <1>3, <2>1
  <2> HIDE DEF w
  <2> QED
      BY <2>1, <2>2 DEF Ordered, SortedBy
<1> QED
    BY <1>1, <1>3, <1>4, <1>6, <1>7, <1>8 DEF Gains

(* The timer is started for the first item of the list.                    *)
LEMMA StartTimerSound ==
    ASSUME Clocks, NEW s \in Sockets, NEW m, m \in Machine, Ordered(m), Stamped(m),
           \A u \in Sockets : Listed(m, u), m.list # <<>>,
           NEW msecs \in Int, NEW when \in Int,
           m.running = NotRunning /\ m.ticks = 0 => when <= When(m, m.list[1]), steady => loop + msecs <= when,
           NEW r, r = StartTimer(m, msecs, when)
    PROVE  Sound(r)
<1>1. /\ r.item = m.item /\ r.list = m.list /\ r.running = m.running /\ r.ticks = m.ticks
      /\ r.timer = [on |-> TRUE, due |-> loop + msecs, when |-> when] /\ r \in Machine
  <2> DEFINE t == [on |-> TRUE, due |-> loop + msecs, when |-> when]
  <2>1. t \in Timer
      BY DEF Timer, Clocks
  <2>2. r = [m EXCEPT !.timer = t]
      BY DEF StartTimer
  <2> HIDE DEF t
  <2>3. r.item = m.item /\ r.list = m.list /\ r.running = m.running /\ r.ticks = m.ticks /\ r.timer = t
      BY <2>2 DEF Machine
  <2>4. r \in Machine
      BY <2>1, <2>2 DEF Machine
  <2> QED
      BY <2>3, <2>4 DEF t
<1>2. \A u : When(r, u) = When(m, u)
    BY <1>1 DEF When
<1>3. Ordered(r) /\ Stamped(r) /\ \A u \in Sockets : Listed(r, u)
    BY <1>1, <1>2 DEF Ordered, Stamped, Listed
<1>4. Awaited(r)
    BY <1>1, <1>2 DEF Awaited, Early
<1> QED
    BY <1>1, <1>3, <1>4 DEF Sound

(* _unrefActive() of an item with a timeout: it is put where it belongs,   *)
(* and the timer is started anew if it would fire too late for it.         *)
LEMMA UnrefActiveSound ==
    ASSUME Clocks, NEW s \in Sockets, NEW m, Almost(m, s), m.item[s].timeout > 0,
           NEW r, r = UnrefActive(m, s)
    PROVE  Sound(r)
<1> DEFINE m0 == RemoveItem(m, s)
           x == [m0.item[s] EXCEPT !.start = DateNow, !.since = clock, !.timedOut = FALSE]
           m1 == [m0 EXCEPT !.item[s] = x]
           msecs == m.item[s].timeout
           when == DateNow + msecs
           place == PlaceFor(m1, when)
           m2 == Insert(m1, s, place)
<1>1. /\ Almost(m0, s) /\ ~Contains(m0.list, s)
      /\ m0.timer = m.timer /\ m0.item = m.item /\ m0.running = m.running /\ m0.ticks = m.ticks
      /\ m0.list # <<>> => m.list # <<>> /\ When(m, m.list[1]) <= When(m, m0.list[1])
    BY RemoveItemSound
<1>2. r = IF m1.list = <<>> THEN StartTimer([m1 EXCEPT !.list = <<s>>], msecs, when)
          ELSE IF place # 0 /\ TooLate(m, when) THEN StartTimer(m2, msecs, when) ELSE m2
  <2>1. m1 = [RemoveItem(m, s) EXCEPT !.item[s].start = DateNow, !.item[s].since = clock,
                                      !.item[s].timedOut = FALSE]
      BY <1>1 DEF Almost, Machine, Item
  <2>2. msecs \in Int /\ ~(msecs <= 0)
      BY DEF Almost, Machine, Item
  <2> HIDE DEF m1
  <2> QED
      BY <2>1, <2>2 DEF UnrefActive
<1> HIDE DEF m0
<1>3. m0.item[s] \in Item /\ m0.item[s].timeout = msecs /\ msecs \in Int
    BY <1>1 DEF Almost, Machine, Item
<1>4. /\ x \in Item /\ x.timeout = msecs /\ x.start = DateNow /\ ~x.timedOut
      /\ steady => x.start = x.since
  <2>1. DateNow \in Int /\ clock \in Int /\ (steady => DateNow = clock)
      BY DEF Clocks, DateNow
  <2> QED
      BY <1>3, <2>1 DEF Item
<1> HIDE DEF x
<1>5. Almost(m1, s)
    BY <1>1, <1>4, ItemChanges
<1>6. /\ m1.list = m0.list /\ m1.timer = m.timer /\ m1.running = m.running /\ m1.ticks = m.ticks
      /\ m1.item[s] = x /\ \A u \in Sockets \ {s} : m1.item[u] = m.item[u]
    BY <1>1 DEF Almost, Machine
<1>7. When(m1, s) = when /\ when \in Int /\ (steady => loop + msecs <= when)
    BY <1>3, <1>4, <1>6 DEF When, Clocks, DateNow
<1> HIDE DEF m1, msecs, when
<1>8. CASE m1.list = <<>>
  <2> DEFINE m3 == [m1 EXCEPT !.list = <<s>>]
  <2>1. /\ m3.item = m1.item /\ m3.list = <<s>> /\ m3.running = m1.running /\ m3.ticks = m1.ticks
        /\ m3 \in Machine /\ m3.list[1] = s /\ m3.list # <<>>
    <3>1. <<s>> \in Seq(Sockets) /\ <<s>>[1] = s /\ <<s>> # <<>>
        OBVIOUS
    <3>2. m3.item = m1.item /\ m3.list = <<s>> /\ m3.running = m1.running /\ m3.ticks = m1.ticks
        BY <1>5 DEF Almost, Machine
    <3>3. m3 \in Machine
        BY <1>5, <3>1 DEF Almost, Machine
    <3> QED
        BY <3>1, <3>2, <3>3
  <2> HIDE DEF m3
  <2>2. Ordered(m3) /\ Stamped(m3) /\ When(m3, s) = when
      BY <1>5, <1>7, <2>1 DEF Almost, Ordered, Stamped, When
  <2>3. \A u \in Sockets : Contains(m3.list, u) <=> u = s
      BY <2>1 DEF Contains
  <2>4. \A u \in Sockets : ~Contains(m1.list, u)
      BY <1>8 DEF Contains
  <2>5. x.timeout > 0
      BY <1>4 DEF msecs
  <2>6. \A u \in Sockets : Listed(m3, u)
      BY <1>4, <1>5, <1>6, <2>1, <2>3, <2>4, <2>5 DEF Almost, Listed
  <2>7. r = StartTimer(m3, msecs, when) /\ when <= When(m3, m3.list[1]) /\ msecs \in Int
      BY <1>2, <1>3, <1>7, <1>8, <2>1, <2>2 DEF m3
  <2> QED
      BY <1>7, <2>1, <2>2, <2>6, <2>7, StartTimerSound
<1>9. CASE m1.list # <<>>
  <2>1. /\ m2 = [m1 EXCEPT !.list = m2.list] /\ m2 \in Machine /\ Ordered(m2) /\ m2.list # <<>>
        /\ \A u \in Sockets : Contains(m2.list, u) <=> u = s \/ Contains(m1.list, u)
        /\ \/ place = 1 /\ m2.list[1] = s
           \/ place # 1 /\ m2.list[1] = m1.list[1] /\ When(m1, m1.list[1]) <= When(m1, s)
    <3>1. m1 \in Machine /\ Ordered(m1) /\ ~Contains(m1.list, s) /\ place = PlaceFor(m1, When(m1, s))
        BY <1>1, <1>5, <1>6, <1>7 DEF Almost
    <3> HIDE DEF place
    <3> QED
        BY <1>9, <3>1, InsertKeepsOrder
  <2>2. r = IF place # 0 /\ TooLate(m, when) THEN StartTimer(m2, msecs, when) ELSE m2
      BY <1>2, <1>9
  <2> HIDE DEF m2, place
  <2>3. /\ m2.item = m1.item /\ m2.timer = m1.timer /\ m2.running = m1.running /\ m2.ticks = m1.ticks
        /\ \A u : When(m2, u) = When(m1, u)
      BY <1>5, <2>1 DEF Almost, Machine, When
  <2>4. Stamped(m2)
      BY <1>5, <2>3 DEF Almost, Stamped
  <2>5. \A u \in Sockets : Listed(m2, u)
    <3>1. x.timeout > 0
        BY <1>4 DEF msecs
    <3> QED
        BY <1>4, <1>5, <1>6, <2>1, <2>3, <3>1 DEF Almost, Listed
  <2>6. When(m1, m1.list[1]) \in Int
    <3>1. m1.list[1] \in Sockets
        BY <1>5, <1>9 DEF Almost, Machine
    <3> QED
        BY <1>5, <3>1 DEF Almost, Machine, Item, When
  <2>7. m1.timer.when \in Int /\ m1.timer.due \in Int
      BY <1>5 DEF Almost, Machine, Timer
  <2>8. CASE r = StartTimer(m2, msecs, when) /\ (m2.running = NotRunning /\ m2.ticks = 0 => when <= When(m2, m2.list[1]))
      BY <1>3, <1>7, <2>1, <2>4, <2>5, <2>8, StartTimerSound
  <2>9. CASE r = m2 /\ Awaited(m2)
      BY <2>1, <2>4, <2>5, <2>9 DEF Sound
  <2>10. CASE ~(m2.running = NotRunning /\ m2.ticks = 0)
      BY <2>2, <2>8, <2>9, <2>10 DEF Awaited
  <2>11. CASE m2.running = NotRunning /\ m2.ticks = 0
    <3>1. m1.timer.on /\ m1.timer.when <= When(m1, m1.list[1]) /\ (steady => m1.timer.due <= m1.timer.when)
        BY <1>5, <1>9, <2>3, <2>11 DEF Almost, Awaited, Early
    <3>2. TooLate(m, when) <=> m1.timer.when > when
        BY <1>6 DEF TooLate
    <3>3. CASE place = 1 /\ TooLate(m, when)
      <4>1. when <= When(m2, m2.list[1])
          BY <1>7, <2>1, <2>3, <3>3
      <4> QED
          BY <2>2, <2>8, <3>3, <4>1
    <3>4. CASE place = 1 /\ ~TooLate(m, when)
      <4>1. m1.timer.when <= When(m2, m2.list[1])
          BY <1>7, <2>1, <2>3, <2>7, <3>2, <3>4
      <4>2. Awaited(m2)
          BY <2>3, <3>1, <4>1 DEF Awaited, Early
      <4> QED
          BY <2>2, <2>9, <3>4, <4>2
    <3>5. CASE place # 1
      <4>1. ~TooLate(m, when)
          BY <1>7, <2>1, <2>6, <2>7, <3>1, <3>2, <3>5
      <4>2. Awaited(m2)
          BY <2>1, <2>3, <3>1, <3>5 DEF Awaited, Early
      <4> QED
          BY <2>2, <2>9, <4>1, <4>2
    <3> QED
        BY <3>3, <3>4, <3>5
  <2> QED
      BY <2>10, <2>11
<1> QED
    BY <1>8, <1>9

(* unrefTimeout() calls back the first item if it was idle for its timeout,*)
(* and else starts the timer for it.                                       *)
LEMMA RunUnrefSound ==
    ASSUME Clocks, NEW m, m \in Machine, Ordered(m), \A u \in Sockets : Listed(m, u),
           NEW now \in Int, steady => loop <= now /\ now <= clock,
           steady => \A u \in Sockets : m.item[u].start = m.item[u].since,
           NEW r, r = RunUnref(m, now)
    PROVE  /\ Sound(r)
           /\ r.running # NotRunning => r.running.socket \in Sockets /\ IdleFor(m, r.running.socket, now)
<1> DEFINE first == Head(m.list)
           stop == [m EXCEPT !.running = NotRunning]
<1>1. CASE m.list = <<>>
  <2>1. r = [stop EXCEPT !.timer.when = -1]
      BY <1>1 DEF RunUnref
  <2>2. r.item = m.item /\ r.list = <<>> /\ r.running = NotRunning /\ r.ticks = m.ticks
      BY <1>1, <2>1 DEF Machine
  <2>3. r \in Machine
    <3> DEFINE t == [m.timer EXCEPT !.when = -1]
    <3>1. t \in Timer /\ NotRunning \in Running
        BY DEF Machine, Running, Timer
    <3>2. r = [m EXCEPT !.running = NotRunning, !.timer = t]
        BY <2>1 DEF Machine
    <3> HIDE DEF t
    <3> QED
        BY <3>1, <3>2 DEF Machine
  <2>4. Ordered(r) /\ Awaited(r) /\ Stamped(r) /\ \A u \in Sockets : Listed(r, u)
      BY <1>1, <2>2 DEF Ordered, Awaited, Stamped, Listed
  <2> QED
      BY <2>2, <2>3, <2>4 DEF Sound
<1>2. CASE m.list # <<>> /\ IdleFor(m, first, now)
  <2> DEFINE x == [m.item[first] EXCEPT !.timedOut = TRUE]
  <2>1. r = [m EXCEPT !.list = Tail(m.list), !.item[first] = x, !.running = [socket |-> first, now |-> now]]
      BY <1>2 DEF RunUnref
  <2>2. m.list \in Seq(Sockets) /\ m.list # <<>> /\ \A i, j \in DOMAIN m.list : i < j => m.list[i] # m.list[j]
      BY <1>2 DEF Machine, Ordered
  <2>3. /\ Tail(m.list) \in Seq(Sockets) /\ first \in Sockets /\ first = m.list[1]
        /\ \A u \in Sockets : Contains(Tail(m.list), u) <=> u # first /\ Contains(m.list, u)
        /\ \A i \in DOMAIN Tail(m.list) : i + 1 \in DOMAIN m.list /\ Tail(m.list)[i] = m.list[i + 1]
      BY <2>2, Beheaded
  <2>4. m.item[first] \in Item /\ first # NoSocket
      BY <2>3, UnrefTimersAssumption DEF Machine
  <2>5. /\ x \in Item /\ x.timedOut /\ x.start = m.item[first].start /\ x.since = m.item[first].since
        /\ x.timeout = m.item[first].timeout
      BY <2>4 DEF Item
  <2> HIDE DEF first, x
  <2>6. /\ r.list = Tail(m.list) /\ r.ticks = m.ticks /\ r.running = [socket |-> first, now |-> now]
        /\ r.item[first] = x /\ \A u \in Sockets \ {first} : r.item[u] = m.item[u]
      BY <2>1, <2>3 DEF Machine
  <2>7. [socket |-> first, now |-> now] \in Running /\ r.running # NotRunning
      BY <2>3, <2>4, <2>6 DEF Running, NotRunning
  <2>8. r \in Machine
    <3> DEFINE items == [m.item EXCEPT ![first] = x]
               run == [socket |-> first, now |-> now]
    <3>1. items \in [Sockets -> Item] /\ run \in Running
        BY <2>3, <2>5, <2>7 DEF Machine
    <3>2. r = [m EXCEPT !.list = Tail(m.list), !.item = items, !.running = run]
        BY <2>1 DEF Machine
    <3> HIDE DEF items, run
    <3> QED
        BY <2>3, <3>1, <3>2 DEF Machine
  <2>9. \A u \in Sockets : When(r, u) = When(m, u)
      BY <2>5, <2>6 DEF When
  <2>10. Ordered(r)
    <3>1. \A i \in DOMAIN r.list : i \in Nat /\ i + 1 \in DOMAIN m.list /\ r.list[i] = m.list[i + 1] /\ r.list[i] \in Sockets
        BY <2>3, <2>6
    <3>2. ASSUME NEW i \in DOMAIN r.list, NEW j \in DOMAIN r.list, i < j
          PROVE  r.list[i] # r.list[j] /\ When(m, r.list[i]) <= When(m, r.list[j])
      <4>1. i + 1 < j + 1 /\ i + 1 \in DOMAIN m.list /\ j + 1 \in DOMAIN m.list
          BY <3>1, <3>2
      <4> QED
          BY <3>1, <4>1 DEF Ordered
    <3> QED
        BY <2>9, <3>1, <3>2 DEF Ordered
  <2>11. Stamped(r)
      BY <2>5, <2>6 DEF Stamped
  <2>12. Awaited(r)
      BY <2>7 DEF Awaited
  <2>13. \A u \in Sockets : Listed(r, u)
      BY <2>3, <2>5, <2>6 DEF Listed
  <2> QED
      BY <1>2, <2>3, <2>6, <2>8, <2>10, <2>11, <2>12, <2>13 DEF Sound, first
<1>3. CASE m.list # <<>> /\ ~IdleFor(m, first, now)
  <2> DEFINE diff == m.item[first].timeout - (now - m.item[first].start)
  <2>1. r = StartTimer(stop, diff, now + diff)
      BY <1>3 DEF RunUnref
  <2>2. first \in Sockets /\ first = m.list[1]
      BY <1>3 DEF Machine
  <2>3. /\ stop \in Machine /\ stop.item = m.item /\ stop.list = m.list /\ stop.running = NotRunning
        /\ stop.ticks = m.ticks
      BY DEF Machine, Running
  <2>4. diff \in Int /\ now + diff = When(m, first) /\ loop \in Int /\ clock \in Int
      BY <2>2 DEF Machine, Item, When, Clocks
  <2> HIDE DEF stop, diff, first
  <2>5. \A u : When(stop, u) = When(m, u)
      BY <2>3 DEF When
  <2>6. Ordered(stop) /\ Stamped(stop) /\ \A u \in Sockets : Listed(stop, u)
      BY <2>3, <2>5 DEF Ordered, Stamped, Listed
  <2>7. now + diff \in Int /\ now + diff <= When(stop, stop.list[1]) /\ (steady => loop + diff <= now + diff)
      BY <2>2, <2>3, <2>4, <2>5
  <2>8. Sound(r)
      BY <1>3, <2>1, <2>2, <2>3, <2>4, <2>6, <2>7, StartTimerSound
  <2>9. r.running = NotRunning
      BY <2>1, <2>3 DEF StartTimer, Machine
  <2> QED
      BY <2>8, <2>9
<1> QED
    BY <1>1, <1>2, <1>3

-----------------------------------------------------------------------------
(* The actions.                                                            *)

(* The variables become those of a sound machine.                          *)
LEMMA BecomeSound ==
    ASSUME Clocks, NEW m, Sound(m), Become(m)
    PROVE  UnrefInv' /\ running' = m.running
<1>1. Here' = m
    BY DEF Sound, Machine, Become, Here
<1>2. running' = m.running /\ UNCHANGED <<clock, loop, skew, steady>>
    BY DEF Become
<1>3. Clocks'
    BY <1>2 DEF Clocks
<1>4. Sound(Here)'
    BY <1>1, <1>2 DEF Sound, Ordered, Awaited, Early, Stamped, Listed, When
<1> QED
    BY <1>2, <1>3, <1>4 DEF UnrefInv

(* Only unrefTimeout() calls back: the others leave what runs.             *)
LEMMA RunningStays ==
    ASSUME NEW m, DOMAIN m = {"item", "list", "timer", "running", "ticks"}, NEW s, NEW msecs
    PROVE  /\ DOMAIN Enroll(m, s, msecs) = DOMAIN m /\ Enroll(m, s, msecs).running = m.running
           /\ Unenroll(m, s).running = m.running
           /\ UnrefActive(m, s).running = m.running
<1>1. /\ DOMAIN Unenroll(m, s) = DOMAIN m
      /\ Unenroll(m, s).running = m.running
    BY DEF Unenroll, RemoveItem
<1>2. DOMAIN Enroll(m, s, msecs) = DOMAIN m /\ Enroll(m, s, msecs).running = m.running
    BY <1>1 DEF Enroll
<1>3. UnrefActive(m, s).running = m.running
  <2> DEFINE m1 == [RemoveItem(m, s) EXCEPT !.item[s].start = DateNow, !.item[s].since = clock,
                                            !.item[s].timedOut = FALSE]
             when == DateNow + m.item[s].timeout
             m2 == Insert(m1, s, PlaceFor(m1, when))
  <2>1. DOMAIN m1 = DOMAIN m /\ m1.running = m.running
      BY DEF RemoveItem
  <2> HIDE DEF m1
  <2>2. DOMAIN m2 = DOMAIN m /\ m2.running = m.running
      BY <2>1 DEF Insert
  <2> HIDE DEF m2
  <2>3. UnrefActive(m, s) \in {m, m2, StartTimer(m2, m.item[s].timeout, when),
                               StartTimer([m1 EXCEPT !.list = <<s>>], m.item[s].timeout, when)}
      BY DEF UnrefActive, m1, m2
  <2> QED
      BY <2>1, <2>2, <2>3 DEF StartTimer
<1> QED
    BY <1>1, <1>2, <1>3

(* A socket is given a timeout, loses it, or is active.                    *)
LEMMA SetTimeoutKeeps == ASSUME UnrefInv, SetTimeout PROVE UnrefInv' /\ UNCHANGED running
<1>1. PICK s \in Sockets, msecs \in Timeouts : Become(UnrefActive(Enroll(Here, s, msecs), s))
    BY DEF SetTimeout
<1> DEFINE m == Enroll(Here, s, msecs)
<1>2. msecs \in Int /\ msecs > 0
    BY UnrefTimersAssumption
<1>3. Almost(Here, s)
    BY DEF UnrefInv, Sound, Almost
<1>4. Almost(m, s) /\ m.item[s].timeout = msecs
    BY <1>2, <1>3, EnrollSound
<1>5. UnrefActive(m, s).running = running
  <2>1. DOMAIN Here = {"item", "list", "timer", "running", "ticks"} /\ Here.running = running
      BY DEF Here
  <2> HIDE DEF m
  <2>2. DOMAIN m = DOMAIN Here /\ m.running = running
      BY <2>1, RunningStays DEF m
  <2> QED
      BY <2>1, <2>2, RunningStays
<1> HIDE DEF m
<1>6. Sound(UnrefActive(m, s))
    BY <1>2, <1>4, UnrefActiveSound DEF UnrefInv
<1> QED
    BY <1>1, <1>5, <1>6, BecomeSound DEF UnrefInv, m

(* setTimeout(0), or the socket is destroyed.                              *)
LEMMA ClearTimeoutKeeps == ASSUME UnrefInv, ClearTimeout PROVE UnrefInv' /\ UNCHANGED running
<1>1. PICK s \in Sockets : Become(Unenroll(Here, s))
    BY DEF ClearTimeout
<1>2. Almost(Here, s)
    BY DEF UnrefInv, Sound, Almost
<1>3. Sound(Unenroll(Here, s))
    BY <1>2, UnenrollSound
<1>4. DOMAIN Here = {"item", "list", "timer", "running", "ticks"} /\ Here.running = running
    BY DEF Here
<1>5. Unenroll(Here, s).running = running
    BY <1>4, RunningStays
<1> QED
    BY <1>1, <1>3, <1>5, BecomeSound DEF UnrefInv

(* Data was read or written, with or without a timeout.                    *)
LEMMA ActivityKeeps == ASSUME UnrefInv, Activity PROVE UnrefInv' /\ UNCHANGED running
<1>1. PICK s \in Sockets : Become(UnrefActive(Here, s))
    BY DEF Activity
<1>2. Almost(Here, s) /\ Sound(Here) /\ Here.item = item /\ item[s].timeout \in Int
    BY DEF UnrefInv, Sound, Almost, Machine, Item, Here
<1>3. DOMAIN Here = {"item", "list", "timer", "running", "ticks"} /\ Here.running = running
    BY DEF Here
<1>4. UnrefActive(Here, s).running = running
    BY <1>3, RunningStays
<1>5. Sound(UnrefActive(Here, s))
  <2>1. CASE item[s].timeout > 0
      BY <1>2, <2>1, UnrefActiveSound DEF UnrefInv
  <2>2. CASE ~(item[s].timeout > 0)
    <3>1. UnrefActive(Here, s) = Here
        BY <1>2, <2>2 DEF UnrefActive
    <3> QED
        BY <1>2, <3>1
  <2> QED
      BY <2>1, <2>2
<1> QED
    BY <1>1, <1>4, <1>5, BecomeSound DEF UnrefInv

(* What unrefTimeout() may do to a socket: call it back after it was idle  *)
(* for its timeout.                                                        *)
CalledIdle ==
    \A s \in Sockets : running'.socket = s /\ running # running' /\ steady =>
        clock - item[s].since >= item[s].timeout

(* Whoever calls unrefTimeout(), and with whatever time.                   *)
LEMMA RunUnrefKeeps ==
    ASSUME UnrefInv, NEW m, m \in Machine, m.item = item, m.list = list,
           NEW now \in Int, steady => loop <= now /\ now <= clock, Become(RunUnref(m, now))
    PROVE  UnrefInv' /\ CalledIdle
<1> DEFINE r == RunUnref(m, now)
<1>1. Ordered(m) /\ \A u \in Sockets : Listed(m, u)
    BY DEF UnrefInv, Sound, Ordered, Listed, When, Here
<1>2. steady => \A u \in Sockets : m.item[u].start = m.item[u].since
    BY DEF UnrefInv, Sound, Stamped, Here
<1> HIDE DEF r
<1>3. /\ Sound(r)
      /\ r.running # NotRunning => r.running.socket \in Sockets /\ IdleFor(m, r.running.socket, now)
    BY <1>1, <1>2, RunUnrefSound DEF UnrefInv, r
<1>4. UnrefInv' /\ running' = r.running
    BY <1>3, BecomeSound DEF UnrefInv, r
<1>5. ASSUME NEW s \in Sockets, running'.socket = s, steady
      PROVE  clock - item[s].since >= item[s].timeout
  <2>1. r.running # NotRunning
      BY <1>4, <1>5, UnrefTimersAssumption DEF NotRunning
  <2>2. now - item[s].start >= item[s].timeout
      BY <1>3, <1>4, <1>5, <2>1 DEF IdleFor
  <2>3. item[s].start = item[s].since /\ now <= clock
      BY <1>2, <1>5
  <2>4. item[s].start \in Int /\ item[s].timeout \in Int /\ clock \in Int
      BY DEF Machine, Item, UnrefInv, Clocks
  <2> QED
      BY <2>2, <2>3, <2>4
<1> QED
    BY <1>4, <1>5 DEF CalledIdle

(* The timer fires.                                                        *)
LEMMA OnTimeoutKeeps == ASSUME UnrefInv, OnTimeout PROVE UnrefInv' /\ CalledIdle
<1> DEFINE m == [Here EXCEPT !.timer.on = FALSE]
           t == [timer EXCEPT !.on = FALSE]
<1>1. Become(RunUnref(m, DateNow))
    BY DEF OnTimeout
<1>2. Here \in Machine /\ t \in Timer
    BY DEF UnrefInv, Sound, Machine, Timer, Here
<1>3. m = [Here EXCEPT !.timer = t] /\ m.item = item /\ m.list = list
    BY DEF Here
<1> HIDE DEF m, t
<1>4. m \in Machine
    BY <1>2, <1>3 DEF Machine
<1>5. DateNow \in Int /\ (steady => loop <= DateNow /\ DateNow <= clock)
    BY DEF UnrefInv, Clocks, DateNow
<1> QED
    BY <1>1, <1>3, <1>4, <1>5, RunUnrefKeeps

(* A 'timeout' listener returns, and unrefTimeout() goes on with the time  *)
(* that it began with.                                                     *)
LEMMA CallbackReturnsKeeps == ASSUME UnrefInv, CallbackReturns PROVE UnrefInv' /\ CalledIdle
<1>1. Become(RunUnref(Here, running.now))
    BY DEF CallbackReturns
<1>2. Here \in Machine /\ Here.item = item /\ Here.list = list /\ Here.running = running
    BY DEF UnrefInv, Sound, Here
<1>3. running.now \in Int
    BY <1>2 DEF Machine, Running, NotRunning
<1>4. steady => loop <= running.now /\ running.now <= clock
    BY <1>2 DEF CallbackReturns, UnrefInv, Sound, Stamped
<1> QED
    BY <1>1, <1>2, <1>3, <1>4, RunUnrefKeeps

(* It throws: unrefTimeout() will run on a tick.                           *)
LEMMA CallbackThrowsKeeps == ASSUME UnrefInv, CallbackThrows PROVE UnrefInv' /\ CalledIdle
<1> DEFINE m == [Here EXCEPT !.running = NotRunning, !.ticks = @ + 1]
           n == ticks + 1
<1>1. Become(m)
    BY DEF CallbackThrows
<1>2. Here \in Machine /\ ticks \in Nat /\ NotRunning \in Running
    BY DEF UnrefInv, Sound, Machine, Running, Here
<1>3. m = [Here EXCEPT !.running = NotRunning, !.ticks = n]
    BY DEF Here
<1>4. /\ m.item = Here.item /\ m.list = Here.list /\ m.timer = Here.timer
      /\ m.running = NotRunning /\ m.ticks = n
    BY DEF Here
<1>9. n \in Nat /\ n # 0
    BY <1>2
<1> HIDE DEF m, n
<1>5. m \in Machine
    BY <1>2, <1>3, <1>9 DEF Machine
<1>6. Ordered(m) /\ \A u \in Sockets : Listed(m, u)
    BY <1>4 DEF UnrefInv, Sound, Ordered, Listed, When
<1>7. Stamped(m) /\ Awaited(m)
    BY <1>2, <1>4, <1>9 DEF UnrefInv, Sound, Stamped, Awaited
<1>8. UnrefInv' /\ running' = NotRunning
    BY <1>1, <1>4, <1>5, <1>6, <1>7, BecomeSound DEF Sound, UnrefInv
<1> QED
    BY <1>8, UnrefTimersAssumption DEF CalledIdle, NotRunning

(* The tick comes.                                                         *)
LEMMA ProcessTickKeeps == ASSUME UnrefInv, ProcessTick PROVE UnrefInv' /\ CalledIdle
<1> DEFINE m == [Here EXCEPT !.ticks = @ - 1]
<1>1. Become(RunUnref(m, DateNow))
    BY DEF ProcessTick
<1>2. Here \in Machine /\ ticks \in Nat /\ ticks - 1 \in Nat
    BY DEF UnrefInv, Sound, Machine, Here, ProcessTick
<1>3. m = [Here EXCEPT !.ticks = ticks - 1] /\ m.item = item /\ m.list = list
    BY DEF Here
<1> HIDE DEF m
<1>4. m \in Machine
    BY <1>2, <1>3 DEF Machine
<1>5. DateNow \in Int /\ (steady => loop <= DateNow /\ DateNow <= clock)
    BY DEF UnrefInv, Clocks, DateNow
<1> QED
    BY <1>1, <1>3, <1>4, <1>5, RunUnrefKeeps

(* The clocks go on, or Date.now() is set.                                 *)
LEMMA ClocksKeep ==
    ASSUME UnrefInv, Advance \/ UpdateTime \/ SetClock \/ UNCHANGED vars
    PROVE  UnrefInv' /\ UNCHANGED running
<1>1. Here' = Here /\ UNCHANGED <<item, list, timer, running, ticks>>
    BY DEF Advance, UpdateTime, SetClock, vars, Here
<1>2. /\ Clocks' /\ (steady' => steady)
      /\ running # NotRunning => loop' = loop /\ clock' >= clock
  <2>1. CASE Advance
      BY <2>1 DEF Advance, UnrefInv, Clocks
  <2>2. CASE UpdateTime
      BY <2>2 DEF UpdateTime, UnrefInv, Clocks
  <2>3. CASE SetClock
    <3>1. skew' \in Int /\ steady' = FALSE /\ clock' = clock /\ loop' = loop
        BY <2>3, UnrefTimersAssumption DEF SetClock
    <3>2. clock \in Int /\ loop \in Int
        BY DEF UnrefInv, Clocks
    <3>3. Clocks'
        BY <3>1 DEF UnrefInv, Clocks
    <3> QED
        BY <3>1, <3>2, <3>3
  <2>4. CASE UNCHANGED vars
      BY <2>4 DEF vars, UnrefInv, Clocks
  <2> QED
      BY <2>1, <2>2, <2>3, <2>4
<1>3. Here \in Machine /\ Ordered(Here) /\ \A s \in Sockets : Listed(Here, s)
    BY DEF UnrefInv, Sound
<1>4. Here' \in Machine /\ Ordered(Here)' /\ \A s \in Sockets : Listed(Here, s)'
    BY <1>1, <1>3 DEF Ordered, Listed, When
<1>5. Awaited(Here)'
    BY <1>1, <1>2 DEF UnrefInv, Sound, Awaited, Early, When
<1>6. Stamped(Here)'
  <2>1. running.now \in Int /\ clock \in Int /\ clock' \in Int
      BY <1>2, <1>3 DEF UnrefInv, Clocks, Machine, Running, NotRunning, Here
  <2>2. Here.running = running
      BY DEF Here
  <2> QED
      BY <1>1, <1>2, <2>1, <2>2 DEF UnrefInv, Sound, Stamped
<1> QED
    BY <1>1, <1>2, <1>4, <1>5, <1>6 DEF UnrefInv, Sound

-----------------------------------------------------------------------------
(* The theorems.                                                           *)

(* Every step keeps the invariant, and calls no listener too early.        *)
LEMMA NextKeeps == ASSUME UnrefInv, [Next]_vars PROVE UnrefInv' /\ [CalledIdle]_vars
<1>1. running' = running => CalledIdle
    BY DEF CalledIdle
<1> QED
    BY <1>1, SetTimeoutKeeps, ClearTimeoutKeeps, ActivityKeeps, OnTimeoutKeeps, CallbackReturnsKeeps,
       CallbackThrowsKeeps, ProcessTickKeeps, ClocksKeep DEF Next

(* No socket has a timeout when the process starts.                        *)
LEMMA InitSound == Init => UnrefInv
<1> SUFFICES ASSUME Init PROVE UnrefInv
    OBVIOUS
<1>1. Here = [item |-> [s \in Sockets |-> [start |-> 0, timeout |-> -1, since |-> 0, timedOut |-> FALSE]],
              list |-> <<>>, timer |-> [on |-> FALSE, due |-> 0, when |-> -1],
              running |-> NotRunning, ticks |-> 0]
    BY DEF Init, Here
<1>2. Clocks
    BY DEF Init, Clocks
<1>3. Here \in Machine
  <2>1. [s \in Sockets |-> [start |-> 0, timeout |-> -1, since |-> 0, timedOut |-> FALSE]] \in [Sockets -> Item]
      BY DEF Item
  <2>2. [on |-> FALSE, due |-> 0, when |-> -1] \in Timer /\ NotRunning \in Running /\ <<>> \in Seq(Sockets)
      BY DEF Timer, Running
  <2> QED
      BY <1>1, <2>1, <2>2 DEF Machine
<1>4. Ordered(Here) /\ Awaited(Here)
    BY <1>1 DEF Ordered, Awaited
<1>5. Stamped(Here)
    BY <1>1 DEF Stamped
<1>6. \A s \in Sockets : Listed(Here, s)
    BY <1>1 DEF Listed, Contains
<1> QED
    BY <1>2, <1>3, <1>4, <1>5, <1>6 DEF UnrefInv, Sound

(* The first item of the list times out first, and the timer was started   *)
(* for it or for one that timed out sooner.                                *)
LEMMA AwaitedForAll == ASSUME UnrefInv PROVE Sorted /\ TimeoutAwaited
<1>1. /\ Here \in Machine /\ Here.list = list /\ Here.item = item /\ Here.timer = timer
      /\ Here.running = running /\ Here.ticks = ticks
    BY DEF UnrefInv, Sound, Here
<1>2. Sorted
    BY <1>1 DEF UnrefInv, Sound, Ordered, Sorted
<1>3. ASSUME NEW s \in Sockets, item[s].timeout > 0, ~item[s].timedOut
      PROVE  /\ Contains(list, s)
             /\ running = NotRunning /\ ticks = 0 =>
                  timer.on /\ (steady => timer.due <= When(Here, s))
  <2>1. Contains(list, s)
      BY <1>1, <1>3 DEF UnrefInv, Sound, Listed
  <2>2. PICK i \in 1 .. Len(list) : list[i] = s
      BY <2>1 DEF Contains
  <2>3. list \in Seq(Sockets) /\ list # <<>> /\ 1 \in DOMAIN list /\ i \in DOMAIN list
      BY <1>1, <2>2 DEF Machine
  <2>4. list[1] \in Sockets /\ When(Here, list[1]) \in Int /\ When(Here, s) \in Int
    <3>1. list[1] \in Sockets
        BY <2>3
    <3>2. item[list[1]] \in Item /\ item[s] \in Item
        BY <1>1, <3>1 DEF Machine
    <3>3. /\ When(Here, list[1]) = item[list[1]].start + item[list[1]].timeout
          /\ When(Here, s) = item[s].start + item[s].timeout
        BY <1>1 DEF When
    <3>4. /\ item[list[1]].start \in Int /\ item[list[1]].timeout \in Int
          /\ item[s].start \in Int /\ item[s].timeout \in Int
        BY <3>2 DEF Item
    <3> QED
        BY <3>1, <3>3, <3>4
  <2>5. When(Here, list[1]) <= When(Here, s)
    <3>1. CASE i = 1
        BY <2>2, <2>4, <3>1
    <3>2. CASE i # 1
        BY <1>2, <2>2, <2>3, <3>2 DEF Sorted
    <3> QED
        BY <3>1, <3>2
  <2>6. ASSUME running = NotRunning, ticks = 0
        PROVE  timer.on /\ (steady => timer.due <= When(Here, s))
    <3>1. timer.on /\ timer.when <= When(Here, list[1]) /\ (steady => timer.due <= timer.when)
        BY <1>1, <2>3, <2>6 DEF UnrefInv, Sound, Awaited, Early
    <3>2. timer.when \in Int /\ timer.due \in Int
        BY <1>1 DEF Machine, Timer
    <3> QED
        BY <2>4, <2>5, <3>1, <3>2
  <2> QED
      BY <2>1, <2>6
<1> QED
    BY <1>2, <1>3 DEF TimeoutAwaited

(* What unrefTimeout() and _unrefActive() go by is always so.              *)
THEOREM UnrefInvariant == Spec => []UnrefInv
<1>1. UnrefInv /\ [Next]_vars => UnrefInv'
    BY NextKeeps
<1> QED
    BY <1>1, InitSound, PTL DEF Spec

(* No socket's timeout is forgotten, late or early: _unrefActive(),        *)
(* unenroll() and unrefTimeout() keep the one list sorted and the one timer*)
(* started for its first item, though listeners set and clear timeouts,    *)
(* throw, and Date.now() is set.                                           *)
THEOREM SocketTimeoutsKept == Spec => TimeoutsKept
<1>1. UnrefInv => Sorted /\ TimeoutAwaited
    BY AwaitedForAll
<1>2. UnrefInv /\ [Next]_vars => [CalledIdle]_vars
    BY NextKeeps
<1>3. [][CalledIdle]_vars => NotWhileActive
    BY DEF CalledIdle, NotWhileActive
<1> QED
    BY <1>1, <1>2, <1>3, UnrefInvariant, PTL DEF Spec, TimeoutsKept
=============================================================================
