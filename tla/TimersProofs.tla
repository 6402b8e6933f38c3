---------------------------- MODULE TimersProofs -----------------------------
(***************************************************************************)
(* What setTimeout() and setInterval() promise, for any timers, delays and *)
(* clocks: TimersKept holds of every behaviour of Timers.                  *)
(***************************************************************************)
EXTENDS Timers, SequenceTheorems, WellFoundedInduction, TLAPS

-----------------------------------------------------------------------------
(* Sequences.                                                              *)

(* A set of natural numbers that is not empty has a least member.          *)
LEMMA LeastOf ==
    ASSUME NEW S \in SUBSET Nat, S # {}
    PROVE  Min(S) \in S /\ \A k \in S : Min(S) <= k
<1>1. PICK n \in S : \A k \in S : <<k, n>> \notin OpToRel(<, Nat)
    BY NatLessThanWellFounded, WFMin, Zenon
<1>2. \A k \in S : ~(k < n)
    BY <1>1, Zenon DEF OpToRel
<1>3. \A k \in S : n <= k
    BY <1>2
<1> QED
    BY <1>3, Zenon DEF Min

(* What is in r is in q in the same order.                                 *)
Within(r, q) ==
    \A i, j \in DOMAIN r : i < j =>
      \E k, l \in DOMAIN q : k < l /\ r[i] = q[k] /\ r[j] = q[l]

(* r is b behind a.                                                        *)
Joins(r, a, b, S) ==
    /\ r \in Seq(S) /\ Len(r) = Len(a) + Len(b)
    /\ \A i \in 1 .. Len(a) + Len(b) : r[i] = IF i <= Len(a) THEN a[i] ELSE b[i - Len(a)]

(* Two sequences, one behind the other.                                    *)
LEMMA Joined ==
    ASSUME NEW S, NEW a \in Seq(S), NEW b \in Seq(S) PROVE Joins(a \o b, a, b, S)
    BY ConcatProperties DEF Joins

(* A sequence without its n-th element.                                    *)
LEMMA Dropped ==
    ASSUME NEW S, NEW q \in Seq(S), NEW n \in 1 .. Len(q), NEW r, r = RemoveAt(q, n)
    PROVE  /\ r \in Seq(S) /\ Within(r, q)
           /\ Range(r) = {q[k] : k \in (DOMAIN q) \ {n}}
<1> DEFINE a == SubSeq(q, 1, n - 1)
           b == SubSeq(q, n + 1, Len(q))
<1>1. /\ a \in Seq(S) /\ Len(a) = n - 1
      /\ \A i \in 1 .. n - 1 : a[i] = q[i]
    OBVIOUS
<1>2. /\ b \in Seq(S) /\ Len(b) = Len(q) - n
      /\ \A i \in 1 .. Len(q) - n : b[i] = q[i + n]
    OBVIOUS
<1>3. r = a \o b
    BY DEF RemoveAt
<1> HIDE DEF a, b
<1>4. /\ r \in Seq(S) /\ Len(r) = Len(a) + Len(b)
      /\ \A i \in 1 .. Len(a) + Len(b) : r[i] = IF i <= Len(a) THEN a[i] ELSE b[i - Len(a)]
  <2>1. Joins(r, a, b, S)
      BY <1>1, <1>2, <1>3, Joined
  <2> QED
      BY <2>1 DEF Joins
<1>5. Len(r) = Len(q) - 1 /\ DOMAIN r = 1 .. Len(q) - 1 /\ DOMAIN q = 1 .. Len(q)
  <2>1. Len(r) = Len(a) + Len(b) /\ Len(a) = n - 1 /\ Len(b) = Len(q) - n /\ Len(q) \in Nat
      BY <1>1, <1>2, <1>4
  <2>2. Len(r) = Len(q) - 1
      BY <2>1
  <2> QED
      BY <1>4, <2>2
<1>6. ASSUME NEW i \in DOMAIN r PROVE r[i] = IF i < n THEN q[i] ELSE q[i + 1]
  <2>1. CASE i < n
    <3>1. i <= Len(a) /\ i \in 1 .. n - 1 /\ i \in 1 .. Len(a) + Len(b)
        BY <1>1, <1>4, <1>5, <2>1
    <3>2. r[i] = a[i]
        BY <1>4, <3>1
    <3> QED
        BY <1>1, <2>1, <3>1, <3>2
  <2>2. CASE ~(i < n)
    <3> DEFINE j == i - Len(a)
    <3>1. ~(i <= Len(a)) /\ i \in 1 .. Len(a) + Len(b)
        BY <1>1, <1>4, <1>5, <2>2
    <3>2. r[i] = b[j]
        BY <1>4, <3>1
    <3>3. j \in 1 .. Len(q) - n /\ j + n = i + 1
        BY <1>1, <1>5, <2>2
    <3> HIDE DEF j
    <3>4. b[j] = q[j + n]
        BY <1>2, <3>3
    <3> QED
        BY <2>2, <3>2, <3>3, <3>4
  <2> QED
      BY <2>1, <2>2
<1>7. ASSUME NEW i \in DOMAIN r
      PROVE  \E k \in DOMAIN q : k # n /\ r[i] = q[k] /\ k = IF i < n THEN i ELSE i + 1
  <2> DEFINE k == IF i < n THEN i ELSE i + 1
  <2>1. k \in DOMAIN q /\ k # n
      BY <1>5
  <2>2. r[i] = q[k]
      BY <1>6
  <2> HIDE DEF k
  <2>3. k = IF i < n THEN i ELSE i + 1
      BY DEF k
  <2> QED
      BY <2>1, <2>2, <2>3
<1>8. ASSUME NEW i \in DOMAIN r, NEW j \in DOMAIN r, i < j
      PROVE  \E k, l \in DOMAIN q : k < l /\ r[i] = q[k] /\ r[j] = q[l]
  <2>1. PICK k \in DOMAIN q : r[i] = q[k] /\ k = IF i < n THEN i ELSE i + 1
      BY <1>7
  <2>2. PICK l \in DOMAIN q : r[j] = q[l] /\ l = IF j < n THEN j ELSE j + 1
      BY <1>7
  <2>3. k < l
      BY <1>5, <1>8, <2>1, <2>2
  <2> QED
      BY <2>1, <2>2, <2>3
<1>9. ASSUME NEW k \in DOMAIN q, k # n PROVE \E i \in DOMAIN r : r[i] = q[k]
  <2> DEFINE i == IF k < n THEN k ELSE k - 1
  <2>1. i \in DOMAIN r /\ k = IF i < n THEN i ELSE i + 1
      BY <1>5, <1>9
  <2> HIDE DEF i
  <2> QED
      BY <1>6, <2>1
<1>10. Range(r) = {q[k] : k \in (DOMAIN q) \ {n}}
    BY <1>7, <1>9 DEF Range
<1> QED
    BY <1>4, <1>8, <1>10 DEF Within

(* A sequence is within itself.                                            *)
LEMMA WithinSelf == ASSUME NEW q PROVE Within(q, q)
    BY DEF Within

(* L.remove() of an item that is in the list once at most.                 *)
Spared(r, q, x, S) == r \in Seq(S) /\ Within(r, q) /\ Range(r) = Range(q) \ {x}
LEMMA RemovedFirst ==
    ASSUME NEW S, NEW q \in Seq(S), NEW x, \A i, j \in DOMAIN q : i < j => q[i] # q[j]
    PROVE  Spared(RemoveFirst(q, x), q, x, S)
<1> DEFINE r == RemoveFirst(q, x)
<1> SUFFICES Spared(r, q, x, S)
    OBVIOUS
<1>1. CASE \E i \in 1 .. Len(q) : q[i] = x
  <2> DEFINE I == {i \in 1 .. Len(q) : q[i] = x}
             n == Min(I)
  <2>1. n \in I
    <3>1. I \in SUBSET Nat /\ I # {}
        BY <1>1
    <3> HIDE DEF I
    <3> QED
        BY <3>1, LeastOf
  <2>2. SelectInSeq(q, LAMBDA v : v = x) = n
      BY <1>1 DEF SelectInSeq
  <2>3. r = RemoveAt(q, n)
      BY <1>1, <2>2 DEF RemoveFirst
  <2>4. n \in 1 .. Len(q) /\ q[n] = x
      BY <2>1
  <2> HIDE DEF n, I
  <2>5. /\ r \in Seq(S) /\ Within(r, q)
        /\ Range(r) = {q[k] : k \in (DOMAIN q) \ {n}}
      BY <2>3, <2>4, Dropped
  <2>6. \A k \in DOMAIN q : q[k] = x <=> k = n
      BY <2>4
  <2>7. Range(r) = Range(q) \ {x}
      BY <2>5, <2>6, Zenon DEF Range
  <2> HIDE DEF r
  <2> QED
      BY <2>5, <2>7 DEF Spared
<1>2. CASE ~\E i \in 1 .. Len(q) : q[i] = x
  <2>1. r = q
      BY <1>2 DEF RemoveFirst
  <2>2. Range(r) = Range(q) \ {x}
      BY <1>2, <2>1 DEF Range
  <2> HIDE DEF r
  <2> QED
      BY <2>1, <2>2, WithinSelf DEF Spared
<1> QED
    BY <1>1, <1>2

(* An element behind the others.                                           *)
Grown(r, q, x, S) ==
    /\ r \in Seq(S) /\ Range(r) = Range(q) \cup {x}
    /\ \A i, j \in DOMAIN r : i < j =>
         \/ \E k, l \in DOMAIN q : k < l /\ r[i] = q[k] /\ r[j] = q[l]
         \/ r[i] \in Range(q) /\ r[j] = x
LEMMA Appended == ASSUME NEW S, NEW q \in Seq(S), NEW x \in S PROVE Grown(Append(q, x), q, x, S)
<1> DEFINE r == Append(q, x)
<1> SUFFICES Grown(r, q, x, S)
    OBVIOUS
<1>1. /\ r \in Seq(S) /\ Len(r) = Len(q) + 1 /\ r[Len(q) + 1] = x
      /\ \A i \in 1 .. Len(q) : r[i] = q[i]
    OBVIOUS
<1>2. DOMAIN r = DOMAIN q \cup {Len(q) + 1} /\ DOMAIN q = 1 .. Len(q)
    BY <1>1
<1>3. Range(r) = Range(q) \cup {x}
    BY <1>1, <1>2 DEF Range
<1>4. ASSUME NEW i \in DOMAIN r, NEW j \in DOMAIN r, i < j
      PROVE  \/ \E k, l \in DOMAIN q : k < l /\ r[i] = q[k] /\ r[j] = q[l]
             \/ r[i] \in Range(q) /\ r[j] = x
  <2>1. i \in DOMAIN q /\ r[i] = q[i]
      BY <1>1, <1>2, <1>4
  <2>2. CASE j \in DOMAIN q
      BY <1>1, <1>2, <1>4, <2>1, <2>2
  <2>3. CASE j = Len(q) + 1
      BY <1>1, <2>1, <2>3 DEF Range
  <2> QED
      BY <1>2, <2>2, <2>3
<1> HIDE DEF r
<1> QED
    BY <1>1, <1>3, <1>4 DEF Grown

(* What is left from the n-th element on.                                  *)
Left(r, q, n, S) ==
    r \in Seq(S) /\ Within(r, q) /\ Range(r) = {q[k] : k \in n .. Len(q)}
LEMMA RestOf ==
    ASSUME NEW S, NEW q \in Seq(S), NEW n \in 1 .. Len(q) + 1
    PROVE  Left(SubSeq(q, n, Len(q)), q, n, S)
<1> DEFINE r == SubSeq(q, n, Len(q))
<1> SUFFICES Left(r, q, n, S)
    OBVIOUS
<1>1. /\ r \in Seq(S) /\ Len(r) = Len(q) - n + 1
      /\ \A i \in 1 .. Len(q) - n + 1 : r[i] = q[i + n - 1]
    OBVIOUS
<1>2. DOMAIN r = 1 .. Len(q) - n + 1 /\ DOMAIN q = 1 .. Len(q)
    BY <1>1
<1>3. ASSUME NEW i \in DOMAIN r
      PROVE  \E k \in n .. Len(q) : k \in DOMAIN q /\ r[i] = q[k] /\ k = i + n - 1
  <2> DEFINE k == i + n - 1
  <2>1. k \in n .. Len(q) /\ k \in DOMAIN q
      BY <1>2
  <2>2. r[i] = q[k]
      BY <1>1, <1>2
  <2> HIDE DEF k
  <2>3. k = i + n - 1
      BY DEF k
  <2> QED
      BY <2>1, <2>2, <2>3
<1>4. ASSUME NEW k \in n .. Len(q) PROVE \E i \in DOMAIN r : r[i] = q[k]
  <2> DEFINE i == k - n + 1
  <2>1. i \in DOMAIN r /\ k = i + n - 1
      BY <1>2
  <2> HIDE DEF i
  <2> QED
      BY <1>1, <1>2, <2>1
<1>5. ASSUME NEW i \in DOMAIN r, NEW j \in DOMAIN r, i < j
      PROVE  \E k, l \in DOMAIN q : k < l /\ r[i] = q[k] /\ r[j] = q[l]
  <2>1. PICK k \in DOMAIN q : r[i] = q[k] /\ k = i + n - 1
      BY <1>3, Zenon
  <2>2. PICK l \in DOMAIN q : r[j] = q[l] /\ l = j + n - 1
      BY <1>3, Zenon
  <2>3. k < l
      BY <1>2, <1>5, <2>1, <2>2
  <2> QED
      BY <2>1, <2>2, <2>3, Zenon
<1>6. Range(r) = {q[k] : k \in n .. Len(q)}
  <2> DEFINE K == n .. Len(q)
  <2> SUFFICES Range(r) = {q[k] : k \in K}
      OBVIOUS
  <2>1. /\ \A i \in DOMAIN r : \E k \in K : r[i] = q[k]
        /\ \A k \in K : \E i \in DOMAIN r : r[i] = q[k]
      BY <1>3, <1>4
  <2> HIDE DEF K
  <2>2. ASSUME NEW v PROVE v \in Range(r) <=> v \in {q[k] : k \in K}
    <3>1. v \in Range(r) <=> \E i \in DOMAIN r : v = r[i]
        BY DEF Range
    <3> QED
        BY <2>1, <3>1, Zenon
  <2> QED
      BY <2>2
<1> HIDE DEF r
<1> QED
    BY <1>1, <1>5, <1>6 DEF Within, Left

(* A sequence without elements is empty.                                   *)
LEMMA NoItems == ASSUME NEW S, NEW q \in Seq(S) PROVE q = <<>> <=> \A x : x \notin Range(q)
<1>1. ASSUME q = <<>>, NEW x, x \in Range(q) PROVE FALSE
  <2>1. PICK i \in DOMAIN q : q[i] = x
      BY <1>1 DEF Range
  <2>2. DOMAIN q = 1 .. Len(q) /\ Len(q) = 0
      BY <1>1
  <2> QED
      BY <2>1, <2>2
<1>2. ASSUME \A x : x \notin Range(q) PROVE q = <<>>
  <2>1. CASE Len(q) = 0
      BY <2>1, EmptySeq, Zenon, Zenon
  <2>2. CASE Len(q) # 0
    <3>1. 1 \in DOMAIN q
        BY <2>2
    <3>2. q[1] \in Range(q)
        BY <3>1 DEF Range
    <3> QED
        BY <1>2, <3>2
  <2> QED
      BY <2>1, <2>2
<1> QED
    BY <1>1, <1>2

-----------------------------------------------------------------------------
(* The inductive invariant, of the variables as one record, a machine.     *)

Entry   == [w : Watcher, due : Nat]
Running == [by : {"none", "list", "handle"}, list : ListIds \cup {NoList},
            timer : Objects \cup {NoTimer}, now : Nat]
Machine == [timer : [Objects -> TimerObject], lists : [Delays -> ListIds \cup {NoList}],
            list : [ListIds -> ListObject], heap : Seq(Entry), running : Running,
            ticks : Seq(ListIds)]

Items(m, l) == Range(m.list[l].items)

(* Of two timers in a list the first one comes first.                      *)
Before(m, t, u) ==
    /\ t # u /\ m.timer[t].start <= m.timer[u].start
    /\ m.timer[t].kind = "timeout" /\ m.timer[u].kind = "timeout" => t < u
Ordered(m, l) ==
    \A i, j \in DOMAIN m.list[l].items :
      i < j => Before(m, m.list[l].items[i], m.list[l].items[j])

(* What is true of a timer in a list.                                      *)
Held(m, l, t) ==
    /\ m.timer[t].kind # "none" /\ m.timer[t].after = m.list[l].msecs
    /\ m.timer[t].since <= m.timer[t].start
    /\ m.timer[t].kind = "timeout" => m.timer[t].fired = 0 /\ m.timer[t].handle = "none"

ListSound(m, l) ==
    /\ IF m.list[l].open THEN m.list[l].msecs \in Delays ELSE m.list[l].items = <<>>
    /\ Ordered(m, l)
    /\ \A t \in Items(m, l) : Held(m, l, t)

(* A timer is in one list at most.                                         *)
Exclusive(m) ==
    \A k, l \in ListIds : \A t \in Items(m, k) : t \in Items(m, l) => k = l

(* A list in the table has the later timeouts of its delay.                *)
Follows(m, t, u) ==
    /\ m.timer[t].kind = "timeout" /\ m.timer[u].kind = "timeout"
    /\ m.timer[t].after = m.timer[u].after /\ t < u
Collected(m) ==
    \A k, l \in ListIds : \A t \in Items(m, k), u \in Items(m, l) :
      m.lists[m.list[k].msecs] = k /\ Follows(m, t, u) => k = l

TableSound(m) ==
    \A ms \in Delays : m.lists[ms] # NoList =>
      m.list[m.lists[ms]].open /\ m.list[m.lists[ms]].msecs = ms

TimerSound(m, t) ==
    LET o == m.timer[t]
    IN  IF o.kind = "none" THEN o = Unused
        ELSE o.after \in Delays /\ o.idle \in {o.after, -1} /\ o.start <= now

(* A started watcher is that of an open list, or of a timer that was       *)
(* unref'd and whose time it keeps.                                        *)
EntrySound(m, e) ==
    /\ e.w.of = "list" => m.list[e.w.id].open
    /\ e.w.of = "timer" =>
         LET o == m.timer[e.w.id]
         IN  o.handle = "open" /\ (o.hcb => o.since + o.after <= e.due)
Distinct(h) == \A i, j \in DOMAIN h : i < j => h[i].w # h[j].w
HeapSound(m) ==
    /\ Distinct(m.heap)
    /\ \A e \in Range(m.heap) : EntrySound(m, e)

Sound(m) ==
    /\ m \in Machine /\ Exclusive(m) /\ Collected(m) /\ TableSound(m) /\ HeapSound(m)
    /\ \A l \in ListIds : ListSound(m, l)
    /\ \A t \in Objects : TimerSound(m, t)

(* What the flags of a timer say of each other.  A timeout that was        *)
(* cleared is in no list; an interval may still be.                        *)
Calls(o) ==
    /\ o.cb <=> ~o.cleared
    /\ o.repeat <=> o.kind = "interval" /\ ~o.cleared
    /\ o.hcb <=> o.handle = "open" /\ ~o.cleared
Flags(o) ==
    o.kind # "none" =>
      /\ Calls(o)
      /\ o.handle = "closed" => o.cleared
      /\ o.handle = "none" => o.since <= o.start
      /\ o.handle = "none" /\ ~o.cleared => o.idle = o.after
      /\ o.handle = "none" /\ o.kind = "timeout" => o.fired <= 1
Flagged(m) ==
    /\ \A t \in Objects : Flags(m.timer[t])
    /\ \A l \in ListIds : \A t \in Items(m, l) :
         m.timer[t].kind = "timeout" => ~m.timer[t].cleared

(* The timers that are in use were made one after the other.               *)
Numbered(m) ==
    \A t, u \in Objects : t < u /\ m.timer[u].kind # "none" => m.timer[t].kind # "none"

(* A timer with a started watcher is in no list.                           *)
Apart(m) ==
    \A e \in Range(m.heap) : \A t \in Objects : e.w = OfTimer(t) =>
      \A l \in ListIds : t \notin Items(m, l)

State(m) == Sound(m) /\ Flagged(m) /\ Numbered(m) /\ Apart(m)

(* Every list but the one that runs wakes up by the time its first timer   *)
(* is due.                                                                 *)
Wakes(m, l) ==
    \E e \in Range(m.heap) :
      /\ e.w = OfList(l) /\ e.due <= now + m.list[l].msecs
      /\ \A t \in Items(m, l) : e.due <= m.timer[t].start + m.list[l].msecs
Awake(m, but) ==
    \A l \in ListIds : m.list[l].open /\ l # but /\ l \notin Range(m.ticks) => Wakes(m, l)

(* Every timer but the one that runs is still to fire.                     *)
Kept(m, t) ==
    /\ m.timer[t].kind # "none" /\ ~m.timer[t].cleared
    /\ m.timer[t].kind = "timeout" => m.timer[t].fired = 0
    => \/ \E l \in ListIds : t \in Items(m, l)
       \/ \E e \in Range(m.heap) : e.w = OfTimer(t)
       \/ m.timer[t].threw
AllKept(m, but) == \A t \in Objects : t # but => Kept(m, t)

(* The timer whose callback runs is in no list, and has no watcher if it   *)
(* was this that fired.                                                    *)
RunningSound(m) ==
    LET r == m.running
    IN  m.running = NotRunning \/
        /\ r.by # "none" /\ r.timer \in Objects /\ r.now = now
        /\ m.timer[r.timer].kind # "none" /\ m.timer[r.timer].fired > 0
        /\ \A l \in ListIds : r.timer \notin Items(m, l)
        /\ r.by = "list" => r.list \in ListIds
        /\ r.by = "handle" =>
             /\ r.list = NoList /\ m.timer[r.timer].handle # "none"
             /\ \A e \in Range(m.heap) : e.w # OfTimer(r.timer)

Whole(m) == /\ State(m) /\ RunningSound(m)
            /\ Awake(m, m.running.list) /\ AllKept(m, m.running.timer)

TimersInv == now \in Nat /\ Whole(Here)

-----------------------------------------------------------------------------
(* The watchers.                                                           *)

(* Another heap, list of lists or timers.                                  *)
LEMMA OtherHeap ==
    ASSUME NEW m \in Machine, NEW h \in Seq(Entry), NEW r, r = [m EXCEPT !.heap = h]
    PROVE  /\ r \in Machine /\ r.heap = h /\ r.timer = m.timer /\ r.lists = m.lists
           /\ r.list = m.list /\ r.running = m.running /\ r.ticks = m.ticks
    BY Zenon DEF Machine
LEMMA OtherLists ==
    ASSUME NEW m \in Machine, NEW L \in [ListIds -> ListObject], NEW r, r = [m EXCEPT !.list = L]
    PROVE  /\ r \in Machine /\ r.list = L /\ r.timer = m.timer /\ r.lists = m.lists
           /\ r.heap = m.heap /\ r.running = m.running /\ r.ticks = m.ticks
    BY Zenon DEF Machine
LEMMA OtherTimers ==
    ASSUME NEW m \in Machine, NEW T \in [Objects -> TimerObject], NEW r, r = [m EXCEPT !.timer = T]
    PROVE  /\ r \in Machine /\ r.timer = T /\ r.list = m.list /\ r.lists = m.lists
           /\ r.heap = m.heap /\ r.running = m.running /\ r.ticks = m.ticks
    BY Zenon DEF Machine

(* A watcher that is stopped leaves the others started.                    *)
LEMMA WatcherRemoved ==
    ASSUME NEW q \in Seq(Entry), NEW w, NEW r, r = RemoveFirstMatch(q, LAMBDA e : e.w = w), Distinct(q)
    PROVE  r \in Seq(Entry) /\ Distinct(r) /\ Range(r) = {e \in Range(q) : e.w # w}
<1>1. CASE \E i \in 1 .. Len(q) : q[i].w = w
  <2> DEFINE I == {i \in 1 .. Len(q) : q[i].w = w}
             n == Min(I)
  <2>1. n \in I
    <3>1. I \in SUBSET Nat /\ I # {}
        BY <1>1
    <3> HIDE DEF I
    <3> QED
        BY <3>1, LeastOf
  <2>2. SelectInSeq(q, LAMBDA v : v.w = w) = n
      BY <1>1 DEF SelectInSeq
  <2>3. r = RemoveAt(q, n)
      BY <1>1, <2>2 DEF RemoveFirstMatch
  <2>4. n \in 1 .. Len(q) /\ q[n].w = w
      BY <2>1
  <2> HIDE DEF n, I
  <2>5. /\ r \in Seq(Entry) /\ Within(r, q)
        /\ Range(r) = {q[k] : k \in (DOMAIN q) \ {n}}
      BY <2>3, <2>4, Dropped, Zenon
  <2>6. \A k \in DOMAIN q : q[k].w = w <=> k = n
      BY <2>4 DEF Distinct
  <2>7. Range(r) = {e \in Range(q) : e.w # w}
    <3>1. ASSUME NEW v PROVE v \in Range(r) <=> v \in Range(q) /\ v.w # w
        BY <2>5, <2>6, Zenon DEF Range
    <3> QED
        BY <3>1, Zenon
  <2>8. Distinct(r)
    <3>1. ASSUME NEW i \in DOMAIN r, NEW j \in DOMAIN r, i < j PROVE r[i].w # r[j].w
      <4>1. PICK k \in DOMAIN q, l \in DOMAIN q : k < l /\ r[i] = q[k] /\ r[j] = q[l]
          BY <2>5, <3>1, Zenon DEF Within
      <4>2. q[k].w # q[l].w
          BY <4>1 DEF Distinct
      <4> QED
          BY <4>1, <4>2
    <3> QED
        BY <3>1, Zenon DEF Distinct
  <2> QED
      BY <2>5, <2>7, <2>8, Zenon
<1>2. CASE ~\E i \in 1 .. Len(q) : q[i].w = w
  <2>1. r = q
      BY <1>2 DEF RemoveFirstMatch
  <2>2. \A e \in Range(q) : e.w # w
      BY <1>2 DEF Range
  <2> QED
      BY <2>1, <2>2, Zenon
<1> QED
    BY <1>1, <1>2, Zenon

(* StopWatcher() and StartWatcher() change the heap alone.                 *)
LEMMA Stopped ==
    ASSUME NEW m \in Machine, HeapSound(m), NEW w
    PROVE  \E h \in Seq(Entry) :
             /\ StopWatcher(m, w) = [m EXCEPT !.heap = h]
             /\ Distinct(h) /\ Range(h) = {e \in Range(m.heap) : e.w # w}
<1> DEFINE h == RemoveFirstMatch(m.heap, LAMBDA e : e.w = w)
<1>1. StopWatcher(m, w) = [m EXCEPT !.heap = h]
    BY DEF StopWatcher
<1>2. m.heap \in Seq(Entry) /\ Distinct(m.heap)
    BY DEF Machine, HeapSound
<1>3. h \in Seq(Entry) /\ Distinct(h) /\ Range(h) = {e \in Range(m.heap) : e.w # w}
    BY <1>2, WatcherRemoved, Zenon
<1> QED
    BY <1>1, <1>3, Zenon

LEMMA Started ==
    ASSUME NEW m \in Machine, HeapSound(m), NEW w \in Watcher, NEW after, now + after \in Nat
    PROVE  \E h \in Seq(Entry) :
             /\ StartWatcher(m, w, after) = [m EXCEPT !.heap = h]
             /\ Distinct(h)
             /\ Range(h) = {e \in Range(m.heap) : e.w # w} \cup {[w |-> w, due |-> now + after]}
<1> DEFINE e0 == [w |-> w, due |-> now + after]
<1>1. PICK g \in Seq(Entry) :
             /\ StopWatcher(m, w) = [m EXCEPT !.heap = g]
             /\ Distinct(g) /\ Range(g) = {e \in Range(m.heap) : e.w # w}
    BY Stopped, Zenon
<1> DEFINE h == Append(g, e0)
           s == StopWatcher(m, w)
<1>2. StartWatcher(m, w, after) = [s EXCEPT !.heap = Append(@, e0)]
    BY DEF StartWatcher
<1>3. s = [m EXCEPT !.heap = g]
    BY <1>1
<1> HIDE DEF s
<1>4. [s EXCEPT !.heap = Append(@, e0)] = [m EXCEPT !.heap = h]
    BY <1>3, Zenon DEF Machine
<1>5. e0 \in Entry
    BY DEF Entry
<1>6. e0.w = w
    OBVIOUS
<1> HIDE DEF e0
<1>h. h = Append(g, e0)
    OBVIOUS
<1> HIDE DEF h
<1>7. Grown(h, g, e0, Entry)
    BY <1>5, <1>h, Appended
<1>8. Distinct(h)
  <2>1. ASSUME NEW i \in DOMAIN h, NEW j \in DOMAIN h, i < j PROVE h[i].w # h[j].w
    <3>1. CASE h[i] \in Range(g) /\ h[j] = e0
        BY <1>1, <1>6, <3>1
    <3>2. CASE \E k, l \in DOMAIN g : k < l /\ h[i] = g[k] /\ h[j] = g[l]
        BY <1>1, <3>2 DEF Distinct
    <3> QED
        BY <1>7, <2>1, <3>1, <3>2 DEF Grown
  <2> QED
      BY <2>1 DEF Distinct
<1> QED
    BY <1>1, <1>2, <1>4, <1>7, <1>8, Zenon DEF e0, Grown

(* A machine whose heap alone changed is as sound as the heap.             *)
LEMMA HeapChanges ==
    ASSUME NEW m, Sound(m), NEW h \in Seq(Entry), NEW r, r = [m EXCEPT !.heap = h],
           Distinct(h), \A e \in Range(h) : EntrySound(m, e)
    PROVE  Sound(r)
<1>1. m \in Machine
    BY DEF Sound
<1>2. /\ r \in Machine /\ r.heap = h /\ r.timer = m.timer /\ r.lists = m.lists
      /\ r.list = m.list /\ r.running = m.running /\ r.ticks = m.ticks
    BY <1>1, OtherHeap
<1>3. HeapSound(r)
    BY <1>2 DEF HeapSound, EntrySound
<1>4. Exclusive(r) /\ Collected(r) /\ TableSound(r)
    BY <1>2 DEF Sound, Exclusive, Collected, Follows, TableSound, Items
<1>5. \A l \in ListIds : ListSound(r, l)
    BY <1>2 DEF Sound, ListSound, Ordered, Before, Held, Items
<1>6. \A t \in Objects : TimerSound(r, t)
    BY <1>2 DEF Sound, TimerSound
<1> QED
    BY <1>2, <1>3, <1>4, <1>5, <1>6 DEF Sound

(* A stopped watcher is missed by its list or its timer alone.             *)
LEMMA StopSound ==
    ASSUME NEW m, Sound(m), NEW w, NEW r, r = StopWatcher(m, w)
    PROVE  /\ Sound(r) /\ r.timer = m.timer /\ r.lists = m.lists /\ r.list = m.list
           /\ r.running = m.running /\ r.ticks = m.ticks
           /\ \A e \in Range(r.heap) : e \in Range(m.heap) /\ e.w # w
           /\ \A l \in ListIds : Wakes(m, l) /\ w # OfList(l) => Wakes(r, l)
           /\ \A t \in Objects : Kept(m, t) /\ w # OfTimer(t) => Kept(r, t)
<1>1. m \in Machine /\ HeapSound(m)
    BY DEF Sound
<1>2. PICK h \in Seq(Entry) :
             /\ StopWatcher(m, w) = [m EXCEPT !.heap = h]
             /\ Distinct(h) /\ Range(h) = {e \in Range(m.heap) : e.w # w}
    BY <1>1, Stopped
<1>3. r = [m EXCEPT !.heap = h]
    BY <1>2
<1>4. Sound(r)
    BY <1>1, <1>2, <1>3, HeapChanges DEF HeapSound
<1>5. /\ r.heap = h /\ r.timer = m.timer /\ r.lists = m.lists
      /\ r.list = m.list /\ r.running = m.running /\ r.ticks = m.ticks
    BY <1>1, <1>3, OtherHeap
<1>6. \A l \in ListIds : Wakes(m, l) /\ w # OfList(l) => Wakes(r, l)
    BY <1>2, <1>5 DEF Wakes, Items
<1>7. \A t \in Objects : Kept(m, t) /\ w # OfTimer(t) => Kept(r, t)
    BY <1>2, <1>5 DEF Kept, Items
<1> QED
    BY <1>2, <1>4, <1>5, <1>6, <1>7

Starts(m, r, w, after) ==
    /\ Sound(r) /\ r.timer = m.timer /\ r.lists = m.lists /\ r.list = m.list
    /\ r.running = m.running /\ r.ticks = m.ticks
    /\ Range(r.heap) = {e \in Range(m.heap) : e.w # w} \cup {[w |-> w, due |-> now + after]}
    /\ \A l \in ListIds : Wakes(m, l) /\ w # OfList(l) => Wakes(r, l)
    /\ \A t \in Objects : Kept(m, t) \/ w = OfTimer(t) => Kept(r, t)
LEMMA StartSound ==
    ASSUME NEW m, Sound(m), NEW w \in Watcher, NEW after, now + after \in Nat,
           EntrySound(m, [w |-> w, due |-> now + after]), NEW r, r = StartWatcher(m, w, after)
    PROVE  Starts(m, r, w, after)
<1> DEFINE e0 == [w |-> w, due |-> now + after]
<1>1. m \in Machine /\ HeapSound(m)
    BY DEF Sound
<1>2. PICK h \in Seq(Entry) :
             /\ StartWatcher(m, w, after) = [m EXCEPT !.heap = h]
             /\ Distinct(h) /\ Range(h) = {e \in Range(m.heap) : e.w # w} \cup {e0}
    BY <1>1, Started
<1>3. r = [m EXCEPT !.heap = h]
    BY <1>2
<1>a. e0.w = w /\ EntrySound(m, e0)
    OBVIOUS
<1> HIDE DEF e0
<1>4. Sound(r)
  <2>1. \A e \in Range(h) : EntrySound(m, e)
      BY <1>1, <1>2, <1>a DEF HeapSound
  <2> QED
      BY <1>1, <1>2, <1>3, <2>1, HeapChanges
<1>5. /\ r.heap = h /\ r.timer = m.timer /\ r.lists = m.lists
      /\ r.list = m.list /\ r.running = m.running /\ r.ticks = m.ticks
    BY <1>1, <1>3, OtherHeap
<1>6. \A l \in ListIds : Wakes(m, l) /\ w # OfList(l) => Wakes(r, l)
    BY <1>2, <1>5 DEF Wakes, Items
<1>7. ASSUME NEW t \in Objects, Kept(m, t) \/ w = OfTimer(t) PROVE Kept(r, t)
  <2>1. e0 \in Range(r.heap) /\ \A e \in Range(m.heap) : e \in Range(r.heap) \/ e.w = w
      BY <1>2, <1>5
  <2>2. \A e \in Range(m.heap) : e.w = OfTimer(t) => \E g \in Range(r.heap) : g.w = OfTimer(t)
      BY <1>a, <2>1
  <2>3. CASE w = OfTimer(t)
      BY <1>a, <2>1, <2>3 DEF Kept
  <2>4. CASE Kept(m, t)
      BY <1>5, <2>2, <2>4 DEF Kept, Items
  <2> QED
      BY <1>7, <2>3, <2>4
<1> QED
    BY <1>2, <1>4, <1>5, <1>6, <1>7, Zenon DEF e0, Starts

-----------------------------------------------------------------------------
(* The lists.                                                              *)

(* Lists from which timers were taken.                                     *)
Thinner(L, M, l) ==
    /\ L[l].open = M[l].open /\ L[l].msecs = M[l].msecs
    /\ Within(L[l].items, M[l].items) /\ Range(L[l].items) \subseteq Range(M[l].items)
LEMMA ThinSound ==
    ASSUME NEW m, Sound(m), NEW L \in [ListIds -> ListObject], NEW r, r = [m EXCEPT !.list = L],
           \A l \in ListIds : Thinner(L, m.list, l)
    PROVE  /\ Sound(r) /\ r.timer = m.timer /\ r.lists = m.lists /\ r.list = L
           /\ r.running = m.running /\ r.ticks = m.ticks /\ r.heap = m.heap
           /\ \A l \in ListIds : Wakes(m, l) => Wakes(r, l)
<1>1. m \in Machine
    BY DEF Sound
<1>2. /\ r \in Machine /\ r.heap = m.heap /\ r.timer = m.timer /\ r.lists = m.lists
      /\ r.list = L /\ r.running = m.running /\ r.ticks = m.ticks
    BY <1>1, OtherLists
<1>3. \A l \in ListIds : /\ r.list[l].open = m.list[l].open /\ r.list[l].msecs = m.list[l].msecs
                         /\ Items(r, l) \subseteq Items(m, l)
                         /\ Within(r.list[l].items, m.list[l].items)
    BY <1>2, Zenon DEF Thinner, Items
<1>4. Exclusive(r)
    BY <1>3 DEF Sound, Exclusive
<1>5. Collected(r)
  <2>1. ASSUME NEW k \in ListIds, NEW l \in ListIds, NEW t \in Items(r, k), NEW u \in Items(r, l),
               r.lists[r.list[k].msecs] = k, Follows(r, t, u)
        PROVE  k = l
    <3>1. t \in Items(m, k) /\ u \in Items(m, l) /\ m.lists[m.list[k].msecs] = k /\ Follows(m, t, u)
        BY <1>2, <1>3, <2>1 DEF Follows
    <3> QED
        BY <3>1 DEF Sound, Collected
  <2> QED
      BY <2>1 DEF Collected
<1>6. TableSound(r)
  <2>1. ASSUME NEW ms \in Delays, r.lists[ms] # NoList
        PROVE  r.list[r.lists[ms]].open /\ r.list[r.lists[ms]].msecs = ms
    <3>1. m.lists[ms] \in ListIds
        BY <1>1, <1>2, <2>1 DEF Machine
    <3> QED
        BY <1>2, <1>3, <2>1, <3>1 DEF Sound, TableSound
  <2> QED
      BY <2>1 DEF TableSound
<1>7. HeapSound(r)
  <2>1. ASSUME NEW e \in Range(r.heap) PROVE EntrySound(r, e)
    <3>1. EntrySound(m, e)
        BY <1>2 DEF Sound, HeapSound
    <3>2. e \in Entry
        BY <1>1, <1>2 DEF Machine, Range
    <3>3. e.w.of = "list" => e.w.id \in ListIds
        BY <3>2 DEF Entry, Watcher
    <3> QED
        BY <1>2, <1>3, <3>1, <3>3 DEF EntrySound
  <2> QED
      BY <1>2, <2>1 DEF Sound, HeapSound
<1>8. ASSUME NEW l \in ListIds PROVE ListSound(r, l)
  <2>1. ListSound(m, l)
      BY DEF Sound
  <2>2. ~r.list[l].open => r.list[l].items = <<>>
    <3>1. ASSUME ~r.list[l].open PROVE \A x : x \notin Range(r.list[l].items)
      <4>1. m.list[l].items \in Seq(Objects) /\ m.list[l].items = <<>>
          BY <1>1, <1>3, <2>1, <3>1 DEF ListSound, Machine, ListObject
      <4>2. \A x : x \notin Items(m, l)
          BY <4>1, NoItems, Zenon DEF Items
      <4> QED
          BY <1>3, <4>2, Zenon DEF Items
    <3>2. r.list[l].items \in Seq(Objects)
        BY <1>2 DEF ListObject
    <3> QED
        BY <3>1, <3>2, NoItems, Zenon
  <2>3. Ordered(r, l)
    <3>1. ASSUME NEW i \in DOMAIN r.list[l].items, NEW j \in DOMAIN r.list[l].items, i < j
          PROVE  Before(r, r.list[l].items[i], r.list[l].items[j])
      <4>1. PICK a, b \in DOMAIN m.list[l].items :
                   a < b /\ r.list[l].items[i] = m.list[l].items[a] /\ r.list[l].items[j] = m.list[l].items[b]
          BY <1>3, <3>1 DEF Within
      <4>2. Before(m, m.list[l].items[a], m.list[l].items[b])
          BY <2>1, <4>1 DEF ListSound, Ordered
      <4> QED
          BY <1>2, <4>1, <4>2 DEF Before
    <3> QED
        BY <3>1 DEF Ordered
  <2>4. \A t \in Items(r, l) : Held(r, l, t)
      BY <1>2, <1>3, <2>1 DEF ListSound, Held
  <2>5. r.list[l].open => r.list[l].msecs \in Delays
      BY <1>3, <2>1 DEF ListSound
  <2> QED
      BY <2>2, <2>3, <2>4, <2>5 DEF ListSound
<1>9. \A t \in Objects : TimerSound(r, t)
    BY <1>2 DEF Sound, TimerSound
<1>10. \A l \in ListIds : Wakes(m, l) => Wakes(r, l)
    BY <1>2, <1>3 DEF Wakes
<1> QED
    BY <1>2, <1>4, <1>5, <1>6, <1>7, <1>8, <1>9, <1>10 DEF Sound

(* What a list holds are timers.                                           *)
LEMMA ItemTimers ==
    ASSUME NEW m \in Machine, NEW l \in ListIds, NEW t \in Items(m, l) PROVE t \in Objects
<1>1. m.list[l].items \in Seq(Objects)
    BY DEF Machine, ListObject
<1> QED
    BY <1>1 DEF Items, Range

(* The items of a list differ.                                             *)
LEMMA ItemsDiffer ==
    ASSUME NEW m, Sound(m), NEW l \in ListIds
    PROVE  /\ m.list[l] \in ListObject /\ m.list[l].items \in Seq(Objects)
           /\ \A i, j \in DOMAIN m.list[l].items : i < j => m.list[l].items[i] # m.list[l].items[j]
<1>1. m.list[l] \in ListObject /\ m.list[l].items \in Seq(Objects)
    BY DEF Sound, Machine, ListObject
<1>2. Ordered(m, l)
    BY DEF Sound, ListSound
<1> QED
    BY <1>1, <1>2 DEF Ordered, Before

(* L.remove() takes a timer from the list that it is in.                   *)
LEMMA RemoveItemSound ==
    ASSUME NEW m, Sound(m), NEW t \in Objects, NEW r, r = RemoveItem(m, t)
    PROVE  /\ Sound(r) /\ r.timer = m.timer /\ r.lists = m.lists
           /\ r.running = m.running /\ r.ticks = m.ticks /\ r.heap = m.heap
           /\ \A l \in ListIds : /\ r.list[l].open = m.list[l].open /\ r.list[l].msecs = m.list[l].msecs
                                 /\ \A u : u \in Items(r, l) <=> u \in Items(m, l) /\ u # t
           /\ \A l \in ListIds : Wakes(m, l) => Wakes(r, l)
           /\ \A u \in Objects : Kept(m, u) /\ u # t => Kept(r, u)
<1> DEFINE L == [l \in ListIds |-> [m.list[l] EXCEPT !.items = RemoveFirst(@, t)]]
<1>1. r = [m EXCEPT !.list = L]
    BY DEF RemoveItem
<1>2. ASSUME NEW l \in ListIds
      PROVE  /\ L[l] \in ListObject /\ Thinner(L, m.list, l)
             /\ L[l].open = m.list[l].open /\ L[l].msecs = m.list[l].msecs
             /\ Range(L[l].items) = Items(m, l) \ {t}
  <2> DEFINE q == m.list[l].items
             s == RemoveFirst(q, t)
  <2>1. m.list[l] \in ListObject /\ q \in Seq(Objects) /\ \A i, j \in DOMAIN q : i < j => q[i] # q[j]
      BY ItemsDiffer
  <2>2. L[l] = [m.list[l] EXCEPT !.items = s]
      BY SMTT(30)
  <2>3. Spared(s, q, t, Objects)
    <3> HIDE DEF q
    <3> QED
        BY <2>1, RemovedFirst
  <2> HIDE DEF s, L
  <2>4. /\ L[l].items = s /\ L[l].open = m.list[l].open /\ L[l].msecs = m.list[l].msecs
        /\ s \in Seq(Objects) => L[l] \in ListObject
      BY <2>1, <2>2, SMTT(30) DEF ListObject
  <2> HIDE DEF q
  <2>5. s \in Seq(Objects) /\ Within(s, q) /\ Range(s) = Range(q) \ {t}
      BY <2>3 DEF Spared
  <2> QED
      BY <2>4, <2>5 DEF Thinner, Items, q
<1>3. L \in [ListIds -> ListObject]
    BY <1>2, Zenon
<1> HIDE DEF L
<1>4. /\ Sound(r) /\ r.timer = m.timer /\ r.lists = m.lists /\ r.list = L
      /\ r.running = m.running /\ r.ticks = m.ticks /\ r.heap = m.heap
      /\ \A l \in ListIds : Wakes(m, l) => Wakes(r, l)
    BY <1>1, <1>2, <1>3, ThinSound
<1>5. \A l \in ListIds : /\ r.list[l].open = m.list[l].open /\ r.list[l].msecs = m.list[l].msecs
                         /\ \A u : u \in Items(r, l) <=> u \in Items(m, l) /\ u # t
    BY <1>2, <1>4 DEF Items
<1>6. \A u \in Objects : Kept(m, u) /\ u # t => Kept(r, u)
    BY <1>4, <1>5 DEF Kept
<1> QED
    BY <1>4, <1>5, <1>6

(* The start of a timer alone changes, or what else a timer not in a list  *)
(* may change: the lists and the heap are as sound as before.              *)
LEMMA TimersChange ==
    ASSUME NEW m, Sound(m), NEW T \in [Objects -> TimerObject], NEW r, r = [m EXCEPT !.timer = T],
           \A t \in Objects : TimerSound(r, t),
           \A e \in Range(m.heap) : EntrySound(r, e),
           \A l \in ListIds : \A t \in Items(m, l) :
             /\ T[t].kind = m.timer[t].kind /\ T[t].after = m.timer[t].after
             /\ T[t].start = m.timer[t].start /\ T[t].since <= T[t].start
             /\ T[t].kind = "timeout" => T[t].fired = 0 /\ T[t].handle = "none"
    PROVE  /\ Sound(r) /\ r.timer = T /\ r.lists = m.lists /\ r.list = m.list
           /\ r.running = m.running /\ r.ticks = m.ticks /\ r.heap = m.heap
           /\ \A l \in ListIds : Wakes(m, l) => Wakes(r, l)
<1>1. m \in Machine
    BY DEF Sound
<1>2. /\ r \in Machine /\ r.heap = m.heap /\ r.timer = T /\ r.lists = m.lists
      /\ r.list = m.list /\ r.running = m.running /\ r.ticks = m.ticks
    BY <1>1, OtherTimers
<1>3. \A l \in ListIds : Items(r, l) = Items(m, l)
    BY <1>2 DEF Items
<1>4. Exclusive(r)
    BY <1>3 DEF Sound, Exclusive
<1>5. Collected(r)
  <2>1. ASSUME NEW k \in ListIds, NEW l \in ListIds, NEW t \in Items(r, k), NEW u \in Items(r, l),
               r.lists[r.list[k].msecs] = k, Follows(r, t, u)
        PROVE  k = l
    <3>1. t \in Items(m, k) /\ u \in Items(m, l) /\ m.lists[m.list[k].msecs] = k
        BY <1>2, <1>3, <2>1
    <3>2. Follows(m, t, u)
        BY <1>2, <2>1, <3>1 DEF Follows
    <3> QED
        BY <3>1, <3>2 DEF Sound, Collected
  <2> QED
      BY <2>1 DEF Collected
<1>6. TableSound(r)
    BY <1>2 DEF Sound, TableSound
<1>7. HeapSound(r)
    BY <1>2 DEF Sound, HeapSound
<1>8. ASSUME NEW l \in ListIds PROVE ListSound(r, l)
  <2>1. ListSound(m, l)
      BY DEF Sound
  <2>2. Ordered(r, l)
    <3>1. ASSUME NEW i \in DOMAIN r.list[l].items, NEW j \in DOMAIN r.list[l].items, i < j
          PROVE  Before(r, r.list[l].items[i], r.list[l].items[j])
      <4>1. Before(m, m.list[l].items[i], m.list[l].items[j])
          BY <1>2, <2>1, <3>1 DEF ListSound, Ordered
      <4>2. m.list[l].items[i] \in Items(m, l) /\ m.list[l].items[j] \in Items(m, l)
          BY <1>2, <3>1 DEF Items, Range
      <4> QED
          BY <1>2, <4>1, <4>2 DEF Before
    <3> QED
        BY <3>1 DEF Ordered
  <2>3. ASSUME NEW t \in Items(r, l) PROVE Held(r, l, t)
    <3>1. t \in Items(m, l) /\ Held(m, l, t)
        BY <1>3, <2>1 DEF ListSound
    <3> QED
        BY <1>2, <3>1 DEF Held
  <2> QED
      BY <1>2, <2>1, <2>2, <2>3 DEF ListSound
<1>9. ASSUME NEW l \in ListIds, Wakes(m, l) PROVE Wakes(r, l)
  <2>1. \A t \in Items(m, l) : T[t].start = m.timer[t].start
      OBVIOUS
  <2> QED
      BY <1>2, <1>3, <1>9, <2>1 DEF Wakes
<1> QED
    BY <1>2, <1>4, <1>5, <1>6, <1>7, <1>8, <1>9 DEF Sound

(* A timer that may be put into a list.                                    *)
MayEnter(m, t) ==
    /\ m.timer[t].kind # "none" /\ m.timer[t].since <= now
    /\ m.timer[t].kind = "timeout" =>
         /\ m.timer[t].fired = 0 /\ m.timer[t].handle = "none"
         /\ \A l \in ListIds : \A u \in Items(m, l) : m.timer[u].kind = "timeout" => u < t

(* It is put at the end of its delay's list and bears the time.            *)
Entered(m, t, l) == [m EXCEPT !.list[l].items = AtEnd(@, t), !.timer[t].start = now]
Enters(m, r, t, l) ==
    /\ Sound(r) /\ r.lists = m.lists /\ r.running = m.running /\ r.ticks = m.ticks
    /\ r.heap = m.heap /\ r.timer = [m.timer EXCEPT ![t].start = now]
    /\ \A k \in ListIds : /\ r.list[k].open = m.list[k].open /\ r.list[k].msecs = m.list[k].msecs
                          /\ \A u : u \in Items(r, k) <=> u \in Items(m, k) \/ (k = l /\ u = t)
    /\ \A k \in ListIds : Wakes(m, k) => Wakes(r, k)
    /\ \A u \in Objects : Kept(m, u) \/ u = t => Kept(r, u)
LEMMA EnterSound ==
    ASSUME now \in Nat, NEW m, Sound(m), NEW t \in Objects, \A k \in ListIds : t \notin Items(m, k),
           NEW l \in ListIds, m.list[l].open, m.lists[m.list[l].msecs] = l,
           MayEnter(m, t), m.timer[t].after = m.list[l].msecs,
           NEW r, r = Entered(m, t, l)
    PROVE  Enters(m, r, t, l)
<1> DEFINE q == m.list[l].items
           s == Append(q, t)
           T == [m.timer EXCEPT ![t].start = now]
           L == [m.list EXCEPT ![l].items = s]
<1>1. m \in Machine
    BY DEF Sound
<1>2. m.list[l] \in ListObject /\ q \in Seq(Objects)
    BY <1>1 DEF Machine, ListObject
<1>3. Grown(s, q, t, Objects)
  <2> HIDE DEF q
  <2> QED
      BY <1>2, Appended
<1>4. T \in [Objects -> TimerObject] /\ L \in [ListIds -> ListObject]
  <2>1. s \in Seq(Objects)
      BY <1>3 DEF Grown
  <2> HIDE DEF s, q
  <2>2. T \in [Objects -> TimerObject]
    <3> DEFINE o == [m.timer[t] EXCEPT !.start = now]
    <3>1. m.timer \in [Objects -> TimerObject] /\ m.timer[t] \in TimerObject
        BY <1>1 DEF Machine
    <3>2. o \in TimerObject
        BY <3>1 DEF TimerObject
    <3>3. T = [m.timer EXCEPT ![t] = o]
        OBVIOUS
    <3> HIDE DEF o, T
    <3> QED
        BY <3>1, <3>2, <3>3
  <2>3. L \in [ListIds -> ListObject]
      BY <1>1, <2>1, Zenon DEF Machine, ListObject
  <2> QED
      BY <2>2, <2>3
<1>5. r \in Machine /\ r.timer = T /\ r.list = L /\ r.lists = m.lists /\ r.heap = m.heap
      /\ r.running = m.running /\ r.ticks = m.ticks
  <2>1. r = [[m EXCEPT !.list = L] EXCEPT !.timer = T]
      BY <1>1 DEF Entered, AtEnd, Machine
  <2> HIDE DEF L, T
  <2> QED
      BY <1>1, <1>4, <2>1, Zenon DEF Machine
<1>6. ASSUME NEW k \in ListIds
      PROVE  /\ r.list[k].open = m.list[k].open /\ r.list[k].msecs = m.list[k].msecs
             /\ \A u : u \in Items(r, k) <=> u \in Items(m, k) \/ (k = l /\ u = t)
             /\ r.list[k].items = IF k = l THEN s ELSE m.list[k].items
  <2>1. \A u : u \in Range(s) <=> u \in Range(q) \/ u = t
      BY <1>3 DEF Grown
  <2> HIDE DEF s
  <2>2. /\ r.list[k].open = m.list[k].open /\ r.list[k].msecs = m.list[k].msecs
        /\ r.list[k].items = IF k = l THEN s ELSE m.list[k].items
      BY <1>1, <1>2, <1>5 DEF Machine, ListObject
  <2>3. ASSUME NEW u PROVE u \in Items(r, k) <=> u \in Items(m, k) \/ (k = l /\ u = t)
    <3>1. CASE k = l
        BY <2>1, <2>2, <3>1 DEF Items
    <3>2. CASE k # l
        BY <2>2, <3>2 DEF Items
    <3> QED
        BY <3>1, <3>2
  <2> QED
      BY <2>2, <2>3
<1>7. /\ \A u \in Objects : u # t => r.timer[u] = m.timer[u]
      /\ r.timer[t] = [m.timer[t] EXCEPT !.start = now]
      /\ m.timer[t] \in TimerObject /\ r.timer[t].start = now
  <2>1. m.timer \in [Objects -> TimerObject] /\ m.timer[t] \in TimerObject
      BY <1>1 DEF Machine
  <2> QED
      BY <1>5, <2>1 DEF TimerObject
<1>8. /\ r.timer[t].kind = m.timer[t].kind /\ r.timer[t].after = m.timer[t].after
      /\ r.timer[t].since = m.timer[t].since /\ r.timer[t].fired = m.timer[t].fired /\ r.timer[t].threw = m.timer[t].threw
      /\ r.timer[t].handle = m.timer[t].handle /\ r.timer[t].cleared = m.timer[t].cleared
      /\ r.timer[t].hcb = m.timer[t].hcb /\ r.timer[t].idle = m.timer[t].idle
      /\ r.timer[t].cb = m.timer[t].cb /\ r.timer[t].repeat = m.timer[t].repeat
    BY <1>7 DEF TimerObject
<1> HIDE DEF L, T, s
<1>9. Exclusive(r)
    BY <1>6 DEF Sound, Exclusive
<1>10. ASSUME NEW k \in ListIds, NEW u \in Items(m, k)
       PROVE  u # t /\ u \in Objects /\ r.timer[u] = m.timer[u] /\ Held(m, k, u)
  <2>1. u \in Objects
      BY <1>1 DEF Items, Range, Machine, ListObject
  <2> QED
      BY <1>7, <2>1 DEF Sound, ListSound
<1>11. Collected(r)
  <2>1. ASSUME NEW j \in ListIds, NEW k \in ListIds, NEW u \in Items(r, j), NEW v \in Items(r, k),
               r.lists[r.list[j].msecs] = j, Follows(r, u, v)
        PROVE  j = k
    <3>1. m.lists[m.list[j].msecs] = j
        BY <1>5, <1>6, <2>1
    <3>2. CASE u \in Items(m, j) /\ v \in Items(m, k)
      <4>1. Follows(m, u, v)
          BY <1>10, <2>1, <3>2 DEF Follows
      <4> QED
          BY <3>1, <3>2, <4>1 DEF Sound, Collected
    <3>3. CASE u \in Items(m, j) /\ v = t /\ k = l
      <4>1. m.timer[u].after = m.timer[t].after
          BY <1>8, <1>10, <2>1, <3>3 DEF Follows
      <4>2. m.timer[u].after = m.list[j].msecs
          BY <1>10, <3>3 DEF Held
      <4> QED
          BY <3>1, <3>3, <4>1, <4>2
    <3>4. CASE u = t /\ v \in Items(m, k)
      <4>1. m.timer[t].kind = "timeout" /\ m.timer[v].kind = "timeout" /\ t < v
          BY <1>8, <1>10, <2>1, <3>4 DEF Follows
      <4>2. v < t
          BY <3>4, <4>1 DEF MayEnter
      <4>3. v \in Nat /\ t \in Nat
          BY <1>10, <3>4, TimersAssumption
      <4> QED
          BY <4>1, <4>2, <4>3
    <3>5. CASE u = t /\ v = t
      <4>1. t < t /\ t \in Nat
          BY <2>1, <3>5, TimersAssumption DEF Follows
      <4> QED
          BY <4>1
    <3> QED
        BY <1>6, <2>1, <3>2, <3>3, <3>4, <3>5
  <2> QED
      BY <2>1 DEF Collected
<1>12. TableSound(r)
  <2>1. ASSUME NEW ms \in Delays, r.lists[ms] # NoList
        PROVE  r.list[r.lists[ms]].open /\ r.list[r.lists[ms]].msecs = ms
    <3>1. m.lists[ms] \in ListIds
        BY <1>1, <1>5, <2>1 DEF Machine
    <3> QED
        BY <1>5, <1>6, <2>1, <3>1 DEF Sound, TableSound
  <2> QED
      BY <2>1 DEF TableSound
<1>13. HeapSound(r)
  <2>1. ASSUME NEW e \in Range(r.heap) PROVE EntrySound(r, e)
    <3>1. EntrySound(m, e)
        BY <1>5 DEF Sound, HeapSound
    <3>2. e \in Entry
        BY <1>1, <1>5 DEF Machine, Range
    <3>3. CASE e.w.of = "list"
      <4>1. e.w.id \in ListIds
          BY <3>2, <3>3 DEF Entry, Watcher
      <4> QED
          BY <1>6, <3>1, <3>3, <4>1 DEF EntrySound
    <3>4. CASE e.w.of = "timer"
      <4>1. e.w.id \in Objects
          BY <3>2, <3>4 DEF Entry, Watcher
      <4>2. CASE e.w.id = t
          BY <1>8, <3>1, <3>4, <4>2 DEF EntrySound
      <4>3. CASE e.w.id # t
          BY <1>7, <3>1, <3>4, <4>1, <4>3 DEF EntrySound
      <4> QED
          BY <4>2, <4>3
    <3>5. e.w.of \in {"list", "timer"}
        BY <3>2 DEF Entry, Watcher
    <3> QED
        BY <3>3, <3>4, <3>5
  <2> QED
      BY <1>5, <2>1 DEF Sound, HeapSound
<1>14. ASSUME NEW k \in ListIds PROVE ListSound(r, k)
  <2>1. ListSound(m, k)
      BY DEF Sound
  <2>2. Ordered(r, k)
    <3> DEFINE rq == r.list[k].items
               mq == m.list[k].items
    <3>1. ASSUME NEW i \in DOMAIN rq, NEW j \in DOMAIN rq, i < j PROVE Before(r, rq[i], rq[j])
      <4>1. CASE \E a, b \in DOMAIN mq : a < b /\ rq[i] = mq[a] /\ rq[j] = mq[b]
        <5>1. PICK a, b \in DOMAIN mq : a < b /\ rq[i] = mq[a] /\ rq[j] = mq[b]
            BY <4>1
        <5>2. Before(m, mq[a], mq[b]) /\ mq[a] \in Items(m, k) /\ mq[b] \in Items(m, k)
            BY <2>1, <5>1 DEF ListSound, Ordered, Items, Range
        <5> HIDE DEF rq, mq
        <5> QED
            BY <1>10, <5>1, <5>2 DEF Before
      <4>2. CASE rq[i] \in Range(mq) /\ rq[j] = t
        <5> DEFINE u == rq[i]
        <5>1. u \in Items(m, k) /\ rq[j] = t
            BY <4>2 DEF Items
        <5> HIDE DEF rq, mq, u
        <5>2. u # t /\ u \in Objects /\ r.timer[u] = m.timer[u] /\ m.timer[u].kind # "none"
            BY <1>10, <5>1 DEF Held
        <5>3. m.timer[u].start <= now
            BY <5>2 DEF Sound, TimerSound
        <5>4. Before(r, u, t)
            BY <1>7, <1>8, <5>1, <5>2, <5>3 DEF Before, MayEnter
        <5> QED
            BY <5>1, <5>4 DEF u
      <4>3. k = l \/ rq = mq
          BY <1>6
      <4>4. CASE k = l
        <5>1. rq = s /\ mq = q
            BY <1>6, <4>4
        <5> HIDE DEF rq, mq, q
        <5>2. Grown(rq, mq, t, Objects)
            BY <1>3, <5>1
        <5>3. \/ \E a, b \in DOMAIN mq : a < b /\ rq[i] = mq[a] /\ rq[j] = mq[b]
              \/ rq[i] \in Range(mq) /\ rq[j] = t
            BY <3>1, <5>2 DEF Grown
        <5> QED
            BY <4>1, <4>2, <5>3
      <4> QED
          BY <3>1, <4>1, <4>3, <4>4
    <3> QED
        BY <3>1 DEF Ordered
  <2>3. ASSUME NEW u \in Items(r, k) PROVE Held(r, k, u)
    <3>1. CASE u \in Items(m, k)
        BY <1>6, <1>10, <3>1 DEF Held
    <3>2. CASE u = t /\ k = l
      <4>1. r.timer[t].since <= r.timer[t].start
          BY <1>7, <1>8 DEF MayEnter
      <4> QED
          BY <1>6, <1>8, <3>2, <4>1 DEF Held, MayEnter
    <3> QED
        BY <1>6, <3>1, <3>2
  <2>4. IF r.list[k].open THEN r.list[k].msecs \in Delays ELSE r.list[k].items = <<>>
      BY <1>6, <2>1 DEF ListSound
  <2> QED
      BY <2>2, <2>3, <2>4 DEF ListSound
<1>15. ASSUME NEW u \in Objects PROVE TimerSound(r, u)
  <2>1. TimerSound(m, u)
      BY DEF Sound
  <2>2. CASE u # t
      BY <1>7, <2>1, <2>2 DEF TimerSound
  <2>3. CASE u = t
    <3>1. m.timer[t].kind # "none"
        BY DEF MayEnter
    <3>2. /\ m.timer[t].after \in Delays /\ m.timer[t].idle \in {m.timer[t].after, -1}
          /\ r.timer[t].kind # "none" /\ now <= now
        BY <1>8, <2>1, <2>3, <3>1 DEF TimerSound
    <3> QED
        BY <1>7, <1>8, <2>3, <3>2, Zenon DEF TimerSound
  <2> QED
      BY <2>2, <2>3
<1>16. ASSUME NEW k \in ListIds, Wakes(m, k) PROVE Wakes(r, k)
  <2>1. PICK e \in Range(m.heap) :
               /\ e.w = OfList(k) /\ e.due <= now + m.list[k].msecs
               /\ \A u \in Items(m, k) : e.due <= m.timer[u].start + m.list[k].msecs
      BY <1>16 DEF Wakes
  <2>2. ASSUME NEW u \in Items(r, k) PROVE e.due <= r.timer[u].start + r.list[k].msecs
    <3>1. CASE u \in Items(m, k)
        BY <1>6, <1>10, <2>1, <3>1
    <3>2. CASE u = t
        BY <1>6, <1>7, <2>1, <3>2, Zenon
    <3> QED
        BY <1>6, <3>1, <3>2
  <2> QED
      BY <1>5, <1>6, <2>1, <2>2 DEF Wakes
<1>17. ASSUME NEW u \in Objects, Kept(m, u) \/ u = t PROVE Kept(r, u)
  <2>1. CASE u = t
      BY <1>6, <2>1 DEF Kept
  <2>2. CASE u # t
    <3>1. r.timer[u] = m.timer[u] /\ r.heap = m.heap /\ Kept(m, u)
        BY <1>5, <1>7, <1>17, <2>2
    <3>2. \A k \in ListIds : u \in Items(m, k) => u \in Items(r, k)
        BY <1>6
    <3> QED
        BY <3>1, <3>2 DEF Kept
  <2> QED
      BY <2>1, <2>2
<1> QED
    BY <1>5, <1>6, <1>9, <1>11, <1>12, <1>13, <1>14, <1>15, <1>16, <1>17 DEF Sound, T, Enters

(* A list object that is not in use is taken for a delay.                  *)
Taken(m, ms, l) ==
    [m EXCEPT !.lists[ms] = l, !.list[l] = [open |-> TRUE, msecs |-> ms, items |-> <<>>]]
LEMMA FreshSound ==
    ASSUME NEW m, Sound(m), NEW ms \in Delays, NEW l \in ListIds, ~m.list[l].open,
           NEW r, r = Taken(m, ms, l)
    PROVE  /\ Sound(r) /\ r.running = m.running /\ r.ticks = m.ticks
           /\ r.heap = m.heap /\ r.timer = m.timer
           /\ r.lists = [m.lists EXCEPT ![ms] = l]
           /\ r.list[l].open /\ r.list[l].msecs = ms
           /\ \A k \in ListIds : k # l => r.list[k] = m.list[k]
           /\ \A k \in ListIds : \A u : u \in Items(r, k) <=> u \in Items(m, k)
           /\ \A u : u \notin Items(r, l)
<1> DEFINE o == [open |-> TRUE, msecs |-> ms, items |-> <<>>]
           L == [m.list EXCEPT ![l] = o]
           X == [m.lists EXCEPT ![ms] = l]
<1>1. m \in Machine
    BY DEF Sound
<1>2. o \in ListObject /\ o.open /\ o.msecs = ms /\ o.items = <<>>
  <2>1. <<>> \in Seq(Objects)
      OBVIOUS
  <2> QED
      BY <2>1 DEF ListObject
<1> HIDE DEF o
<1>3. L \in [ListIds -> ListObject] /\ X \in [Delays -> ListIds \cup {NoList}]
    BY <1>1, <1>2 DEF Machine
<1>4. r \in Machine /\ r.timer = m.timer /\ r.list = L /\ r.lists = X /\ r.heap = m.heap
      /\ r.running = m.running /\ r.ticks = m.ticks
  <2>1. r = [[m EXCEPT !.list = L] EXCEPT !.lists = X]
      BY <1>1, Zenon DEF Machine, Taken, o
  <2> HIDE DEF L, X
  <2> QED
      BY <1>1, <1>3, <2>1, Zenon DEF Machine
<1>5. /\ r.list[l] = o
      /\ \A k \in ListIds : k # l => r.list[k] = m.list[k]
      /\ \A x \in Delays : r.lists[x] = IF x = ms THEN l ELSE m.lists[x]
    BY <1>1, <1>4 DEF Machine
<1> HIDE DEF L, X
<1>6. \A u : u \notin Items(r, l)
  <2>1. r.list[l].items = <<>> /\ <<>> \in Seq(Objects)
      BY <1>2, <1>5
  <2> QED
      BY <2>1, NoItems, Zenon DEF Items
<1>7. \A u : u \notin Items(m, l)
  <2>1. ListSound(m, l)
      BY DEF Sound
  <2>2. m.list[l].items = <<>> /\ <<>> \in Seq(Objects)
      BY <2>1 DEF ListSound
  <2> QED
      BY <2>2, NoItems, Zenon DEF Items
<1>8. \A k \in ListIds : \A u : u \in Items(r, k) <=> u \in Items(m, k)
    BY <1>5, <1>6, <1>7 DEF Items
<1>9. Exclusive(r)
    BY <1>8 DEF Sound, Exclusive
<1>10. Collected(r)
  <2>1. ASSUME NEW j \in ListIds, NEW k \in ListIds, NEW u \in Items(r, j), NEW v \in Items(r, k),
               r.lists[r.list[j].msecs] = j, Follows(r, u, v)
        PROVE  j = k
    <3>1. u \in Items(m, j) /\ v \in Items(m, k) /\ Follows(m, u, v)
        BY <1>4, <1>8, <2>1 DEF Follows
    <3>2. j # l /\ r.list[j] = m.list[j]
        BY <1>5, <1>7, <3>1
    <3>3. m.list[j].open /\ m.list[j].msecs \in Delays
      <4>1. ListSound(m, j) /\ m.list[j] \in ListObject
          BY <1>1 DEF Sound, Machine
      <4>2. m.list[j].items # <<>>
          BY <3>1, <4>1, NoItems DEF Items, ListObject
      <4> QED
          BY <4>1, <4>2 DEF ListSound
    <3>4. m.lists[m.list[j].msecs] = j
        BY <1>5, <2>1, <3>2, <3>3
    <3> QED
        BY <3>1, <3>4 DEF Sound, Collected
  <2> QED
      BY <2>1 DEF Collected
<1>11. TableSound(r)
  <2>1. ASSUME NEW x \in Delays, r.lists[x] # NoList
        PROVE  r.list[r.lists[x]].open /\ r.list[r.lists[x]].msecs = x
    <3>1. CASE x = ms
        BY <1>2, <1>5, <3>1
    <3>2. CASE x # ms
      <4>1. m.lists[x] \in ListIds /\ r.lists[x] = m.lists[x]
          BY <1>1, <1>5, <2>1, <3>2 DEF Machine
      <4>2. m.list[m.lists[x]].open /\ m.list[m.lists[x]].msecs = x
          BY <2>1, <4>1 DEF Sound, TableSound
      <4>3. m.lists[x] # l
          BY <4>2
      <4> QED
          BY <1>5, <4>1, <4>2, <4>3
    <3> QED
        BY <3>1, <3>2
  <2> QED
      BY <2>1 DEF TableSound
<1>12. HeapSound(r)
  <2>1. ASSUME NEW e \in Range(r.heap) PROVE EntrySound(r, e)
    <3>1. EntrySound(m, e)
        BY <1>4 DEF Sound, HeapSound
    <3>2. e \in Entry
        BY <1>1, <1>4 DEF Machine, Range
    <3>3. e.w.of = "list" => e.w.id \in ListIds
        BY <3>2 DEF Entry, Watcher
    <3> QED
        BY <1>2, <1>4, <1>5, <3>1, <3>3 DEF EntrySound
  <2> QED
      BY <1>4, <2>1 DEF Sound, HeapSound
<1>13. ASSUME NEW k \in ListIds PROVE ListSound(r, k)
  <2>1. CASE k # l
    <3>1. ListSound(m, k) /\ r.list[k] = m.list[k]
        BY <1>5, <2>1 DEF Sound
    <3> QED
        BY <1>4, <3>1 DEF ListSound, Ordered, Before, Items, Held
  <2>2. CASE k = l
    <3>1. r.list[k].items = <<>> /\ r.list[k].open /\ r.list[k].msecs = ms
        BY <1>2, <1>5, <2>2
    <3>2. Ordered(r, k)
        BY <3>1 DEF Ordered
    <3> QED
        BY <1>6, <2>2, <3>1, <3>2 DEF ListSound
  <2> QED
      BY <2>1, <2>2
<1>14. \A t \in Objects : TimerSound(r, t)
    BY <1>4 DEF Sound, TimerSound
<1> QED
    BY <1>2, <1>4, <1>5, <1>6, <1>8, <1>9, <1>10, <1>11, <1>12, <1>13, <1>14 DEF Sound, X

(* NewList(): the list is empty and its watcher is started for its delay.  *)
LEMMA NewListSound ==
    ASSUME now \in Nat, NEW m, Sound(m), NEW ms \in Delays, Free(m) # {}, NEW r, r = NewList(m, ms)
    PROVE  /\ Sound(r) /\ r.running = m.running /\ r.ticks = m.ticks /\ r.timer = m.timer
           /\ \A k \in ListIds : \A u : u \in Items(r, k) <=> u \in Items(m, k)
           /\ r.lists[ms] \in ListIds /\ r.list[r.lists[ms]].open /\ r.list[r.lists[ms]].msecs = ms
           /\ \A x \in Delays : x # ms => r.lists[x] = m.lists[x]
           /\ Wakes(r, r.lists[ms])
           /\ \A k \in ListIds : k # r.lists[ms] => r.list[k] = m.list[k] /\ (Wakes(m, k) => Wakes(r, k))
           /\ \A t \in Objects : Kept(m, t) => Kept(r, t)
           /\ \A e \in Range(r.heap) : e.w.of = "timer" => e \in Range(m.heap)
           /\ r.lists[ms] # m.running.list
<1> DEFINE l == CHOOSE k \in Free(m) : TRUE
           s == Taken(m, ms, l)
<1>1. l \in Free(m)
    OBVIOUS
<1>2. r = StartWatcher(s, OfList(l), ms)
    BY DEF NewList, Taken
<1> HIDE DEF l
<1>3. l \in ListIds /\ ~m.list[l].open /\ l # m.running.list /\ l # NoList
    BY <1>1, TimersAssumption DEF Free, NoList
<1>m. m \in Machine
    BY DEF Sound
<1>4. /\ Sound(s) /\ s.running = m.running /\ s.ticks = m.ticks
      /\ s.heap = m.heap /\ s.timer = m.timer
      /\ s.lists = [m.lists EXCEPT ![ms] = l]
      /\ s.list[l].open /\ s.list[l].msecs = ms
      /\ \A k \in ListIds : k # l => s.list[k] = m.list[k]
      /\ \A k \in ListIds : \A u : u \in Items(s, k) <=> u \in Items(m, k)
      /\ \A u : u \notin Items(s, l)
    BY <1>3, FreshSound
<1> HIDE DEF s
<1>5. OfList(l) \in Watcher /\ now + ms \in Nat
    BY <1>3, TimersAssumption DEF OfList, Watcher
<1> DEFINE e0 == [w |-> OfList(l), due |-> now + ms]
<1>6. EntrySound(s, e0)
    BY <1>4 DEF EntrySound, OfList
<1>7. /\ Sound(r) /\ r.timer = s.timer /\ r.lists = s.lists /\ r.list = s.list
      /\ r.running = s.running /\ r.ticks = s.ticks
      /\ Range(r.heap) = {e \in Range(s.heap) : e.w # OfList(l)} \cup {e0}
      /\ \A k \in ListIds : Wakes(s, k) /\ OfList(l) # OfList(k) => Wakes(r, k)
      /\ \A t \in Objects : Kept(s, t) \/ OfList(l) = OfTimer(t) => Kept(r, t)
  <2>1. Starts(s, r, OfList(l), ms)
      BY <1>2, <1>4, <1>5, <1>6, StartSound
  <2> QED
      BY <2>1 DEF Starts
<1>8. r.lists[ms] = l /\ \A x \in Delays : x # ms => r.lists[x] = m.lists[x]
    BY <1>m, <1>4, <1>7 DEF Machine
<1>9. \A k \in ListIds : \A u : u \in Items(r, k) <=> u \in Items(m, k)
    BY <1>4, <1>7 DEF Items
<1>10. e0 \in Range(r.heap) /\ e0.w = OfList(l) /\ e0.due = now + ms
       /\ \A e \in Range(r.heap) : e \in Range(m.heap) \/ e = e0
    BY <1>4, <1>7
<1> HIDE DEF e0
<1>11. Wakes(r, l)
  <2>1. \A u : u \notin Items(r, l)
      BY <1>4, <1>7 DEF Items
  <2>2. e0.due <= now + ms
      BY <1>5, <1>10
  <2> QED
      BY <1>4, <1>7, <1>10, <2>1, <2>2 DEF Wakes
<1>12. ASSUME NEW k \in ListIds, k # l
       PROVE  r.list[k] = m.list[k] /\ (Wakes(m, k) => Wakes(r, k))
  <2>1. r.list[k] = m.list[k] /\ s.list[k] = m.list[k]
      BY <1>4, <1>7, <1>12
  <2>2. Wakes(m, k) => Wakes(s, k)
      BY <1>4, <2>1 DEF Wakes
  <2>3. OfList(l) # OfList(k)
      BY <1>12 DEF OfList
  <2> QED
      BY <1>7, <2>1, <2>2, <2>3
<1>13. \A t \in Objects : Kept(m, t) => Kept(r, t)
    BY <1>4, <1>7 DEF Kept
<1>14. \A e \in Range(r.heap) : e.w.of = "timer" => e \in Range(m.heap)
    BY <1>10 DEF OfList
<1> QED
    BY <1>3, <1>4, <1>7, <1>8, <1>9, <1>11, <1>12, <1>13, <1>14

(* CloseList(): an empty list is closed.                                   *)
Closes(m, r, l) ==
    /\ Sound(r) /\ r.running = m.running /\ r.ticks = m.ticks /\ r.timer = m.timer
    /\ \A x \in Delays : r.lists[x] \in {m.lists[x], NoList}
    /\ ~r.list[l].open
    /\ \A k \in ListIds : /\ k # l => r.list[k] = m.list[k]
                          /\ r.list[k].msecs = m.list[k].msecs
                          /\ \A u : u \in Items(r, k) <=> u \in Items(m, k)
                          /\ k # l /\ Wakes(m, k) => Wakes(r, k)
    /\ \A t \in Objects : Kept(m, t) => Kept(r, t)
    /\ \A e \in Range(r.heap) : e \in Range(m.heap)
LEMMA CloseListSound ==
    ASSUME NEW m, Sound(m), NEW l \in ListIds, m.list[l].items = <<>>,
           NEW ms, ms = m.list[l].msecs, NEW r, r = CloseList(m, l, ms)
    PROVE  Closes(m, r, l)
<1> DEFINE s == StopWatcher(m, OfList(l))
           L == [s.list EXCEPT ![l].open = FALSE]
           X == [s.lists EXCEPT ![ms] = NoList]
<1>m. m \in Machine
    BY DEF Sound
<1>1. /\ Sound(s) /\ s.timer = m.timer /\ s.lists = m.lists /\ s.list = m.list
      /\ s.running = m.running /\ s.ticks = m.ticks
      /\ \A e \in Range(s.heap) : e \in Range(m.heap) /\ e.w # OfList(l)
      /\ \A k \in ListIds : Wakes(m, k) /\ OfList(l) # OfList(k) => Wakes(s, k)
      /\ \A t \in Objects : Kept(m, t) /\ OfList(l) # OfTimer(t) => Kept(s, t)
    BY StopSound
<1>2. r = [s EXCEPT !.list[l].open = FALSE, !.lists[ms] = NoList]
    BY DEF CloseList
<1> HIDE DEF s
<1>3. s \in Machine /\ s.list[l] \in ListObject
    BY <1>1 DEF Sound, Machine
<1>4. L \in [ListIds -> ListObject] /\ X \in [Delays -> ListIds \cup {NoList}]
    BY <1>3, Zenon DEF Machine, ListObject
<1>5. r \in Machine /\ r.timer = s.timer /\ r.list = L /\ r.lists = X /\ r.heap = s.heap
      /\ r.running = s.running /\ r.ticks = s.ticks
  <2>1. r = [[s EXCEPT !.list = L] EXCEPT !.lists = X]
      BY <1>2, <1>3 DEF Machine
  <2> HIDE DEF L, X
  <2> QED
      BY <1>3, <1>4, <2>1, Zenon DEF Machine
<1>6. /\ \A k \in ListIds : k # l => r.list[k] = m.list[k]
      /\ ~r.list[l].open /\ r.list[l].msecs = ms /\ r.list[l].items = m.list[l].items
      /\ \A x \in Delays : r.lists[x] = IF x = ms THEN NoList ELSE m.lists[x]
    BY <1>1, <1>3, <1>5 DEF Machine, ListObject
<1> HIDE DEF L, X
<1>7. \A k \in ListIds : /\ r.list[k].msecs = m.list[k].msecs /\ r.list[k].items = m.list[k].items
                         /\ \A u : u \in Items(r, k) <=> u \in Items(m, k)
    BY <1>6 DEF Items
<1>8. Exclusive(r)
    BY <1>7 DEF Sound, Exclusive
<1>9. Collected(r)
  <2>1. ASSUME NEW j \in ListIds, NEW k \in ListIds, NEW u \in Items(r, j), NEW v \in Items(r, k),
               r.lists[r.list[j].msecs] = j, Follows(r, u, v)
        PROVE  j = k
    <3>1. u \in Items(m, j) /\ v \in Items(m, k) /\ Follows(m, u, v)
        BY <1>1, <1>5, <1>7, <2>1 DEF Follows
    <3>2. m.list[j].msecs \in Delays
      <4>1. ListSound(m, j) /\ m.list[j] \in ListObject
          BY <1>m DEF Sound, Machine
      <4>2. m.list[j].items # <<>>
          BY <3>1, <4>1, NoItems DEF Items, ListObject
      <4> QED
          BY <4>1, <4>2 DEF ListSound
    <3>3. j # NoList
        BY TimersAssumption DEF NoList
    <3>4. m.lists[m.list[j].msecs] = j
        BY <1>6, <1>7, <2>1, <3>2, <3>3
    <3> QED
        BY <3>1, <3>4 DEF Sound, Collected
  <2> QED
      BY <2>1 DEF Collected
<1>10. TableSound(r)
  <2>1. ASSUME NEW x \in Delays, r.lists[x] # NoList
        PROVE  r.list[r.lists[x]].open /\ r.list[r.lists[x]].msecs = x
    <3>1. x # ms /\ r.lists[x] = m.lists[x] /\ m.lists[x] \in ListIds
        BY <1>m, <1>6, <2>1 DEF Machine
    <3>2. m.list[m.lists[x]].open /\ m.list[m.lists[x]].msecs = x
        BY <2>1, <3>1 DEF Sound, TableSound
    <3>3. m.lists[x] # l
        BY <3>1, <3>2
    <3> QED
        BY <1>6, <3>1, <3>2, <3>3
  <2> QED
      BY <2>1 DEF TableSound
<1>11. HeapSound(r)
  <2>1. ASSUME NEW e \in Range(r.heap) PROVE EntrySound(r, e)
    <3>1. EntrySound(s, e) /\ e.w # OfList(l)
        BY <1>1, <1>5 DEF Sound, HeapSound
    <3>2. e \in Entry
        BY <1>3, <1>5 DEF Machine, Range
    <3>3. e.w.of = "list" => e.w.id \in ListIds /\ e.w.id # l
        BY <3>1, <3>2 DEF Entry, Watcher, OfList
    <3> QED
        BY <1>1, <1>5, <1>6, <3>1, <3>3 DEF EntrySound
  <2> QED
      BY <1>1, <1>5, <2>1 DEF Sound, HeapSound
<1>12. ASSUME NEW k \in ListIds PROVE ListSound(r, k)
  <2>1. ListSound(m, k)
      BY DEF Sound
  <2>2. Ordered(r, k)
      BY <1>1, <1>5, <1>7, <2>1 DEF ListSound, Ordered, Before
  <2>3. \A t \in Items(r, k) : Held(r, k, t)
      BY <1>1, <1>5, <1>7, <2>1 DEF ListSound, Held
  <2>4. CASE k # l
      BY <1>6, <2>1, <2>2, <2>3, <2>4 DEF ListSound
  <2>5. CASE k = l
      BY <1>6, <2>2, <2>3, <2>5 DEF ListSound
  <2> QED
      BY <2>4, <2>5
<1>13. \A t \in Objects : TimerSound(r, t)
    BY <1>1, <1>5 DEF Sound, TimerSound
<1>14. ASSUME NEW k \in ListIds, k # l, Wakes(m, k) PROVE Wakes(r, k)
  <2>1. OfList(l) # OfList(k)
      BY <1>14 DEF OfList
  <2>2. Wakes(s, k)
      BY <1>1, <1>14, <2>1
  <2> QED
      BY <1>1, <1>5, <1>6, <1>14, <2>2 DEF Wakes, Items
<1>15. ASSUME NEW t \in Objects, Kept(m, t) PROVE Kept(r, t)
  <2>1. Kept(s, t)
      BY <1>1, <1>15, Zenon DEF OfList, OfTimer
  <2> QED
      BY <1>1, <1>5, <1>7, <2>1 DEF Kept, Items
<1> QED
    BY <1>1, <1>5, <1>6, <1>7, <1>8, <1>9, <1>10, <1>11, <1>12, <1>13, <1>14, <1>15 DEF Sound, Closes

-----------------------------------------------------------------------------
(* insert(), active() and unenroll().                                      *)

(* Another Timeout object, or another state of it.                         *)
Changed(m, t, o) == [m EXCEPT !.timer[t] = o]
Changes(m, r, t, o) ==
    /\ Sound(r) /\ r.timer = [m.timer EXCEPT ![t] = o] /\ r.lists = m.lists /\ r.list = m.list
    /\ r.running = m.running /\ r.ticks = m.ticks /\ r.heap = m.heap
    /\ r.timer[t] = o /\ \A u \in Objects : u # t => r.timer[u] = m.timer[u]
    /\ \A l \in ListIds : Wakes(m, l) => Wakes(r, l)
    /\ \A u \in Objects : Kept(m, u) /\ u # t => Kept(r, u)
LEMMA TimerChanges ==
    ASSUME NEW m, Sound(m), NEW t \in Objects, NEW o \in TimerObject, NEW r, r = Changed(m, t, o),
           o.kind # "none", o.after \in Delays, o.idle \in {o.after, -1}, o.start <= now,
           \A e \in Range(m.heap) : e.w = OfTimer(t) =>
             o.handle = "open" /\ (o.hcb => o.since + o.after <= e.due),
           (\E l \in ListIds : t \in Items(m, l)) =>
             /\ o.kind = m.timer[t].kind /\ o.after = m.timer[t].after
             /\ o.start = m.timer[t].start /\ o.since <= o.start
             /\ o.kind = "timeout" => o.fired = 0 /\ o.handle = "none"
    PROVE  Changes(m, r, t, o)
<1> DEFINE T == [m.timer EXCEPT ![t] = o]
<1>1. m \in Machine
    BY DEF Sound
<1>2. T \in [Objects -> TimerObject] /\ T[t] = o /\ \A u \in Objects : u # t => T[u] = m.timer[u]
    BY <1>1 DEF Machine
<1>3. r = [m EXCEPT !.timer = T]
    BY DEF Changed
<1> HIDE DEF T
<1>4. r \in Machine /\ r.timer = T /\ r.list = m.list /\ r.lists = m.lists /\ r.heap = m.heap
    BY <1>1, <1>2, <1>3, OtherTimers
<1>5. ASSUME NEW u \in Objects PROVE TimerSound(r, u)
  <2>1. CASE u = t
      BY <1>2, <1>4, <2>1 DEF TimerSound
  <2>2. CASE u # t
      BY <1>2, <1>4, <2>2 DEF Sound, TimerSound
  <2> QED
      BY <2>1, <2>2
<1>6. ASSUME NEW e \in Range(m.heap) PROVE EntrySound(r, e)
  <2>1. EntrySound(m, e)
      BY DEF Sound, HeapSound
  <2>2. e \in Entry
      BY <1>1 DEF Machine, Range
  <2>3. CASE e.w.of = "list"
      BY <1>4, <2>1, <2>3 DEF EntrySound
  <2>4. CASE e.w.of = "timer"
    <3>1. e.w.id \in Objects /\ e.w = OfTimer(e.w.id)
        BY <2>2, <2>4 DEF Entry, Watcher, OfTimer
    <3>2. CASE e.w.id = t
        BY <1>2, <1>4, <2>4, <3>1, <3>2 DEF EntrySound
    <3>3. CASE e.w.id # t
        BY <1>2, <1>4, <2>1, <2>4, <3>1, <3>3 DEF EntrySound
    <3> QED
        BY <3>2, <3>3
  <2>5. e.w.of \in {"list", "timer"}
      BY <2>2 DEF Entry, Watcher
  <2> QED
      BY <2>3, <2>4, <2>5
<1>7. ASSUME NEW l \in ListIds, NEW u \in Items(m, l)
      PROVE  /\ T[u].kind = m.timer[u].kind /\ T[u].after = m.timer[u].after
             /\ T[u].start = m.timer[u].start /\ T[u].since <= T[u].start
             /\ T[u].kind = "timeout" => T[u].fired = 0 /\ T[u].handle = "none"
  <2>1. Held(m, l, u) /\ u \in Objects
      BY <1>1 DEF Sound, ListSound, Items, Range, Machine, ListObject
  <2>2. CASE u = t
      BY <1>2, <1>7, <2>2
  <2>3. CASE u # t
      BY <1>2, <2>1, <2>3 DEF Held
  <2> QED
      BY <2>2, <2>3
<1>8. /\ Sound(r) /\ r.running = m.running /\ r.ticks = m.ticks
      /\ \A l \in ListIds : Wakes(m, l) => Wakes(r, l)
    BY <1>2, <1>3, <1>5, <1>6, <1>7, TimersChange
<1>9. \A u \in Objects : Kept(m, u) /\ u # t => Kept(r, u)
    BY <1>2, <1>4 DEF Kept, Items
<1> QED
    BY <1>2, <1>4, <1>8, <1>9 DEF T, Changes

(* A timer is in the list of its delay alone.                              *)
Inserts(m, r, t) ==
    /\ Sound(r) /\ r.running = m.running /\ r.ticks = m.ticks
    /\ r.timer = [m.timer EXCEPT ![t].start = now]
    /\ \A but : Awake(m, but) => Awake(r, but)
    /\ \A u \in Objects : Kept(m, u) \/ u = t => Kept(r, u)
    /\ \A k \in ListIds : \A u : u # t => (u \in Items(r, k) <=> u \in Items(m, k))
    /\ \A e \in Range(r.heap) : e.w.of = "timer" => e \in Range(m.heap)
    /\ \A x \in Delays : m.lists[x] # NoList => r.lists[x] = m.lists[x]
LEMMA InsertSound ==
    ASSUME now \in Nat, NEW m, Sound(m), NEW t \in Objects, MayEnter(m, t), NEW ms \in Delays,
           m.timer[t].after = ms, Free(m) # {}, NEW r, r = Insert(m, t, ms)
    PROVE  Inserts(m, r, t)
<1> DEFINE m1 == IF m.lists[ms] = NoList THEN NewList(m, ms) ELSE m
           m2 == RemoveItem(m1, t)
           l == m1.lists[ms]
<1>1. r = Entered(m2, t, l)
    BY DEF Insert, Entered
<1>m. m \in Machine
    BY DEF Sound
<1>2. /\ Sound(m1) /\ m1.running = m.running /\ m1.ticks = m.ticks /\ m1.timer = m.timer
      /\ \A k \in ListIds : \A u : u \in Items(m1, k) <=> u \in Items(m, k)
      /\ m1.lists[ms] \in ListIds /\ m1.list[m1.lists[ms]].open /\ m1.list[m1.lists[ms]].msecs = ms
      /\ \A x \in Delays : m.lists[x] # NoList => m1.lists[x] = m.lists[x]
      /\ \A k \in ListIds : /\ m1.list[k].open => m.list[k].open \/ Wakes(m1, k)
                            /\ Wakes(m, k) => Wakes(m1, k)
      /\ \A u \in Objects : Kept(m, u) => Kept(m1, u)
      /\ \A e \in Range(m1.heap) : e.w.of = "timer" => e \in Range(m.heap)
  <2>1. CASE m.lists[ms] = NoList
    <3>1. m1 = NewList(m, ms)
        BY <2>1
    <3> HIDE DEF m1
    <3>2. /\ Sound(m1) /\ m1.running = m.running /\ m1.ticks = m.ticks /\ m1.timer = m.timer
          /\ \A k \in ListIds : \A u : u \in Items(m1, k) <=> u \in Items(m, k)
          /\ m1.lists[ms] \in ListIds /\ m1.list[m1.lists[ms]].open /\ m1.list[m1.lists[ms]].msecs = ms
          /\ \A x \in Delays : x # ms => m1.lists[x] = m.lists[x]
          /\ Wakes(m1, m1.lists[ms])
          /\ \A k \in ListIds : k # m1.lists[ms] => m1.list[k] = m.list[k] /\ (Wakes(m, k) => Wakes(m1, k))
          /\ \A u \in Objects : Kept(m, u) => Kept(m1, u)
          /\ \A e \in Range(m1.heap) : e.w.of = "timer" => e \in Range(m.heap)
        BY <3>1, NewListSound
    <3>3. \A x \in Delays : m.lists[x] # NoList => m1.lists[x] = m.lists[x]
        BY <2>1, <3>2
    <3>4. \A k \in ListIds : /\ m1.list[k].open => m.list[k].open \/ Wakes(m1, k)
                             /\ Wakes(m, k) => Wakes(m1, k)
        BY <3>2
    <3> QED
        BY <3>2, <3>3, <3>4
  <2>2. CASE m.lists[ms] # NoList
    <3>1. m1 = m
        BY <2>2
    <3>2. m.lists[ms] \in ListIds /\ m.list[m.lists[ms]].open /\ m.list[m.lists[ms]].msecs = ms
        BY <1>m, <2>2 DEF Sound, TableSound, Machine
    <3> QED
        BY <3>1, <3>2
  <2> QED
      BY <2>1, <2>2
<1> HIDE DEF m1
<1>3. /\ Sound(m2) /\ m2.timer = m1.timer /\ m2.lists = m1.lists
      /\ m2.running = m1.running /\ m2.ticks = m1.ticks /\ m2.heap = m1.heap
      /\ \A k \in ListIds : /\ m2.list[k].open = m1.list[k].open /\ m2.list[k].msecs = m1.list[k].msecs
                            /\ \A u : u \in Items(m2, k) <=> u \in Items(m1, k) /\ u # t
      /\ \A k \in ListIds : Wakes(m1, k) => Wakes(m2, k)
      /\ \A u \in Objects : Kept(m1, u) /\ u # t => Kept(m2, u)
    BY <1>2, RemoveItemSound
<1> HIDE DEF m2
<1>4. l \in ListIds /\ m2.list[l].open /\ m2.list[l].msecs = ms /\ m2.lists[m2.list[l].msecs] = l
    BY <1>2, <1>3
<1>5. MayEnter(m2, t) /\ m2.timer[t].after = m2.list[l].msecs
    BY <1>2, <1>3, <1>4 DEF MayEnter
<1>6. \A k \in ListIds : t \notin Items(m2, k)
    BY <1>3
<1> HIDE DEF l
<1>7. /\ Sound(r) /\ r.lists = m2.lists /\ r.running = m2.running /\ r.ticks = m2.ticks
      /\ r.heap = m2.heap /\ r.timer = [m2.timer EXCEPT ![t].start = now]
      /\ \A k \in ListIds : /\ r.list[k].open = m2.list[k].open /\ r.list[k].msecs = m2.list[k].msecs
                            /\ \A u : u \in Items(r, k) <=> u \in Items(m2, k) \/ (k = l /\ u = t)
      /\ \A k \in ListIds : Wakes(m2, k) => Wakes(r, k)
      /\ \A u \in Objects : Kept(m2, u) \/ u = t => Kept(r, u)
  <2>1. Enters(m2, r, t, l)
      BY <1>1, <1>3, <1>4, <1>5, <1>6, EnterSound
  <2> QED
      BY <2>1 DEF Enters
<1>8. ASSUME NEW but, Awake(m, but) PROVE Awake(r, but)
  <2>1. ASSUME NEW k \in ListIds, r.list[k].open, k # but, k \notin Range(r.ticks) PROVE Wakes(r, k)
    <3>1. m1.list[k].open /\ k \notin Range(m.ticks)
        BY <1>2, <1>3, <1>7, <2>1
    <3>2. Wakes(m, k) \/ Wakes(m1, k)
        BY <1>2, <1>8, <2>1, <3>1 DEF Awake
    <3> QED
        BY <1>2, <1>3, <1>7, <3>2
  <2> QED
      BY <2>1 DEF Awake
<1>9. \A u \in Objects : Kept(m, u) \/ u = t => Kept(r, u)
    BY <1>2, <1>3, <1>7
<1>10. \A k \in ListIds : \A u : u # t => (u \in Items(r, k) <=> u \in Items(m, k))
    BY <1>2, <1>3, <1>7
<1> QED
    BY <1>2, <1>3, <1>7, <1>8, <1>9, <1>10 DEF Inserts

(* unenroll(): the timer is in no list, and its list is closed if it was   *)
(* the last.                                                               *)
Unenrolls(m, r, t) ==
    /\ Sound(r) /\ r.running = m.running /\ r.ticks = m.ticks
    /\ r.timer = [m.timer EXCEPT ![t].idle = -1]
    /\ \A but : Awake(m, but) => Awake(r, but)
    /\ \A u \in Objects : Kept(m, u) /\ u # t => Kept(r, u)
    /\ \A k \in ListIds : \A u : u \in Items(r, k) <=> u \in Items(m, k) /\ u # t
    /\ \A e \in Range(r.heap) : e \in Range(m.heap)
LEMMA UnenrollSound ==
    ASSUME NEW m, Sound(m), NEW t \in Objects, m.timer[t].kind # "none", NEW r, r = Unenroll(m, t)
    PROVE  Unenrolls(m, r, t)
<1> DEFINE m1 == RemoveItem(m, t)
           ms == m.timer[t].idle
           l  == m1.lists[ms]
           m2 == IF ms < 0 \/ m1.lists[ms] = NoList THEN m1
                 ELSE IF m1.list[m1.lists[ms]].items # <<>> THEN m1
                 ELSE CloseList(m1, m1.lists[ms], ms)
           o == [m2.timer[t] EXCEPT !.idle = -1]
<1>m. m \in Machine /\ m.timer[t] \in TimerObject
    BY DEF Sound, Machine
<1>1. r = [m2 EXCEPT !.timer[t].idle = -1]
    BY Zenon DEF Unenroll
<1>2. /\ Sound(m1) /\ m1.timer = m.timer /\ m1.lists = m.lists
      /\ m1.running = m.running /\ m1.ticks = m.ticks /\ m1.heap = m.heap
      /\ \A k \in ListIds : /\ m1.list[k].open = m.list[k].open /\ m1.list[k].msecs = m.list[k].msecs
                            /\ \A u : u \in Items(m1, k) <=> u \in Items(m, k) /\ u # t
      /\ \A k \in ListIds : Wakes(m, k) => Wakes(m1, k)
      /\ \A u \in Objects : Kept(m, u) /\ u # t => Kept(m1, u)
    BY RemoveItemSound
<1> HIDE DEF m1
<1>3. /\ Sound(m2) /\ m2.running = m1.running /\ m2.ticks = m1.ticks /\ m2.timer = m1.timer
      /\ \A k \in ListIds : \A u : u \in Items(m2, k) <=> u \in Items(m1, k)
      /\ \A k \in ListIds : m2.list[k].open => m1.list[k].open /\ (Wakes(m1, k) => Wakes(m2, k))
      /\ \A u \in Objects : Kept(m1, u) => Kept(m2, u)
      /\ \A e \in Range(m2.heap) : e \in Range(m1.heap)
  <2>1. CASE m2 = m1
      BY <1>2, <2>1, Zenon
  <2>2. CASE ~(ms < 0) /\ l # NoList /\ m1.list[l].items = <<>>
    <3>1. m2 = CloseList(m1, l, ms)
        BY <2>2
    <3>2. ms \in Delays
      <4>1. TimerSound(m, t)
          BY DEF Sound
      <4> QED
          BY <2>2, <4>1 DEF TimerSound
    <3>3. l \in ListIds
        BY <1>2, <2>2, <3>2 DEF Sound, Machine
    <3>4. m1.list[l].msecs = ms /\ m1.list[l].open
        BY <1>2, <2>2, <3>2 DEF Sound, TableSound
    <3> HIDE DEF l, ms, m2
    <3>5. /\ Sound(m2) /\ m2.running = m1.running /\ m2.ticks = m1.ticks /\ m2.timer = m1.timer
          /\ ~m2.list[l].open
          /\ \A k \in ListIds : /\ k # l => m2.list[k] = m1.list[k]
                                /\ \A u : u \in Items(m2, k) <=> u \in Items(m1, k)
                                /\ k # l /\ Wakes(m1, k) => Wakes(m2, k)
          /\ \A u \in Objects : Kept(m1, u) => Kept(m2, u)
          /\ \A e \in Range(m2.heap) : e \in Range(m1.heap)
      <4>1. Closes(m1, m2, l)
          BY <1>2, <2>2, <3>1, <3>3, <3>4, CloseListSound
      <4> QED
          BY <4>1 DEF Closes
    <3>6. \A k \in ListIds : m2.list[k].open => m1.list[k].open /\ (Wakes(m1, k) => Wakes(m2, k))
        BY <3>5
    <3> QED
        BY <3>5, <3>6
  <2> QED
      BY <2>1, <2>2, Zenon
<1> HIDE DEF m2
<1>4. m2.timer[t] = m.timer[t] /\ m2 \in Machine
    BY <1>2, <1>3 DEF Sound
<1>5. /\ o \in TimerObject /\ o.kind = m.timer[t].kind /\ o.after = m.timer[t].after
      /\ o.start = m.timer[t].start /\ o.since = m.timer[t].since /\ o.idle = -1
      /\ o.handle = m.timer[t].handle /\ o.hcb = m.timer[t].hcb /\ o.fired = m.timer[t].fired /\ o.threw = m.timer[t].threw
    BY <1>m, <1>4 DEF TimerObject
<1>6. r = Changed(m2, t, o)
    BY <1>1, <1>4 DEF Changed, Machine
<1> HIDE DEF o
<1>7. o.after \in Delays /\ o.start <= now
    BY <1>5 DEF Sound, TimerSound
<1>8. \A k \in ListIds : t \notin Items(m2, k)
    BY <1>2, <1>3
<1>9. ASSUME NEW e \in Range(m2.heap), e.w = OfTimer(t)
      PROVE  o.handle = "open" /\ (o.hcb => o.since + o.after <= e.due)
  <2>1. EntrySound(m2, e)
      BY <1>3 DEF Sound, HeapSound
  <2> QED
      BY <1>4, <1>5, <1>9, <2>1 DEF EntrySound, OfTimer
<1>10. /\ Sound(r) /\ r.timer = [m2.timer EXCEPT ![t] = o] /\ r.lists = m2.lists /\ r.list = m2.list
       /\ r.running = m2.running /\ r.ticks = m2.ticks /\ r.heap = m2.heap
       /\ \A k \in ListIds : Wakes(m2, k) => Wakes(r, k)
       /\ \A u \in Objects : Kept(m2, u) /\ u # t => Kept(r, u)
  <2>1. Changes(m2, r, t, o)
      BY <1>3, <1>5, <1>6, <1>7, <1>8, <1>9, TimerChanges
  <2> QED
      BY <2>1 DEF Changes
<1>11. r.timer = [m.timer EXCEPT ![t].idle = -1]
    BY <1>2, <1>3, <1>10 DEF o
<1>12. ASSUME NEW but, Awake(m, but) PROVE Awake(r, but)
  <2>1. ASSUME NEW k \in ListIds, r.list[k].open, k # but, k \notin Range(r.ticks) PROVE Wakes(r, k)
    <3>1. m1.list[k].open /\ m.list[k].open /\ m2.list[k].open /\ k \notin Range(m.ticks)
        BY <1>2, <1>3, <1>10, <2>1
    <3>2. Wakes(m, k)
        BY <1>12, <2>1, <3>1 DEF Awake
    <3> QED
        BY <1>2, <1>3, <1>10, <3>1, <3>2
  <2> QED
      BY <2>1 DEF Awake
<1>13. \A k \in ListIds : \A u : u \in Items(r, k) <=> u \in Items(m, k) /\ u # t
    BY <1>2, <1>3, <1>10 DEF Items
<1> QED
    BY <1>2, <1>3, <1>10, <1>11, <1>12, <1>13 DEF Unenrolls

-----------------------------------------------------------------------------
(* The public functions.                                                   *)

(* A running timer goes on to be what it is.                               *)
LEMMA StillRunning ==
    ASSUME NEW m, m \in Machine, RunningSound(m), NEW r, r.running = m.running,
           \A t \in Objects : m.running # NotRunning /\ t = m.running.timer =>
             /\ r.timer[t].kind = m.timer[t].kind /\ r.timer[t].fired = m.timer[t].fired
             /\ m.timer[t].handle # "none" => r.timer[t].handle # "none"
             /\ \A l \in ListIds : t \in Items(r, l) => t \in Items(m, l)
             /\ m.running.by = "handle" =>
                  \A e \in Range(r.heap) : e.w = OfTimer(t) => e \in Range(m.heap)
    PROVE  RunningSound(r)
<1>1. CASE m.running = NotRunning
    BY <1>1 DEF RunningSound
<1>2. CASE m.running # NotRunning
    BY <1>2 DEF RunningSound
<1> QED
    BY <1>1, <1>2

(* A timer that is not in use is in no list and has no watcher.            *)
LEMMA UnusedIsNowhere ==
    ASSUME NEW m, Sound(m), NEW t \in Objects, m.timer[t].kind = "none"
    PROVE  /\ \A l \in ListIds : t \notin Items(m, l)
           /\ \A e \in Range(m.heap) : e.w # OfTimer(t)
<1>1. \A l \in ListIds : t \notin Items(m, l)
    BY DEF Sound, ListSound, Held
<1>2. m.timer[t] = Unused
    BY DEF Sound, TimerSound
<1>3. m.timer[t].handle = "none"
    BY <1>2 DEF Unused
<1>4. ASSUME NEW e \in Range(m.heap), e.w = OfTimer(t) PROVE FALSE
  <2>1. EntrySound(m, e)
      BY DEF Sound, HeapSound
  <2> QED
      BY <1>3, <1>4, <2>1 DEF EntrySound, OfTimer
<1> QED
    BY <1>1, <1>4

(* setTimeout() and setInterval().                                         *)
Fresh(kind, after) ==
    [kind |-> kind, after |-> after, idle |-> after, start |-> 0,
     cb |-> TRUE, repeat |-> kind = "interval", handle |-> "none",
     hcb |-> FALSE, ref |-> TRUE,
     since |-> now, fired |-> 0, threw |-> FALSE, cleared |-> FALSE]
LEMMA NewTimerWhole ==
    ASSUME now \in Nat, NEW m, Whole(m), NEW t \in Objects, m.timer[t].kind = "none",
           \A u \in Objects : m.timer[u].kind = "none" => t <= u,
           NEW kind \in Kinds, NEW after \in Delays, Free(m) # {},
           NEW r, r = NewTimer(m, t, kind, after)
    PROVE  /\ Whole(r) /\ r.running = m.running
           /\ \A u \in Objects : r.timer[u].fired > m.timer[u].fired => FALSE
<1> DEFINE o == Fresh(kind, after)
           m1 == Changed(m, t, o)
<1>s. Sound(m) /\ m \in Machine /\ Flagged(m) /\ Numbered(m) /\ Apart(m) /\ RunningSound(m)
    BY DEF Whole, State, Sound
<1>1. /\ o \in TimerObject /\ o.kind = kind /\ o.after = after /\ o.idle = after /\ o.start = 0
      /\ o.since = now /\ o.fired = 0 /\ o.handle = "none" /\ ~o.cleared /\ kind # "none"
      /\ Calls(o)
  <2>1. kind \in {"timeout", "interval"}
      BY TimersAssumption
  <2>2. /\ o.kind = kind /\ o.after = after /\ o.idle = after /\ o.start = 0
        /\ o.since = now /\ o.fired = 0 /\ o.handle = "none" /\ ~o.cleared /\ kind # "none"
      BY <2>1 DEF Fresh
  <2>3. o \in TimerObject
      BY <2>1 DEF Fresh, TimerObject
  <2>4. Calls(o)
    <3>1. o.cb /\ (o.repeat <=> kind = "interval") /\ ~o.hcb /\ ~o.cleared
        BY Zenon DEF Fresh
    <3> HIDE DEF o
    <3> QED
        BY <2>2, <3>1 DEF Calls
  <2> QED
      BY <2>2, <2>3, <2>4
<1>2. r = Active(m1, t)
    BY DEF NewTimer, Changed, Fresh
<1> HIDE DEF o
<1>3. /\ \A l \in ListIds : t \notin Items(m, l)
      /\ \A e \in Range(m.heap) : e.w # OfTimer(t)
    BY <1>s, UnusedIsNowhere
<1>4. o.kind # "none" /\ o.after \in Delays /\ o.idle \in {o.after, -1} /\ o.start <= now
    BY <1>1
<1>5. /\ Sound(m1) /\ m1.timer = [m.timer EXCEPT ![t] = o] /\ m1.lists = m.lists /\ m1.list = m.list
      /\ m1.running = m.running /\ m1.ticks = m.ticks /\ m1.heap = m.heap
      /\ m1.timer[t] = o /\ \A u \in Objects : u # t => m1.timer[u] = m.timer[u]
      /\ \A l \in ListIds : Wakes(m, l) => Wakes(m1, l)
      /\ \A u \in Objects : Kept(m, u) /\ u # t => Kept(m1, u)
  <2>1. Changes(m, m1, t, o)
      BY <1>s, <1>1, <1>3, <1>4, TimerChanges
  <2> QED
      BY <2>1 DEF Changes
<1> HIDE DEF m1
<1>6. r = Insert(m1, t, after)
  <2>1. ~(after < 0)
      BY TimersAssumption
  <2> QED
      BY <1>1, <1>2, <1>5, <2>1 DEF Active
<1>7. Free(m1) # {}
    BY <1>5 DEF Free
<1>8. MayEnter(m1, t)
  <2>1. ASSUME NEW l \in ListIds, NEW u \in Items(m1, l) PROVE u < t
    <3>1. u \in Items(m, l) /\ u \in Objects
      <4>1. u \in Items(m, l)
          BY <1>5 DEF Items
      <4> QED
          BY <1>s, <4>1, ItemTimers
    <3>2. m.timer[u].kind # "none" /\ u # t
        BY <1>s, <1>3, <3>1 DEF Sound, ListSound, Held
    <3>3. ~(t < u)
        BY <1>s, <3>1, <3>2 DEF Numbered
    <3> QED
        BY <3>1, <3>2, <3>3, TimersAssumption
  <2>2. now <= now
      OBVIOUS
  <2> QED
      BY <1>1, <1>5, <2>1, <2>2 DEF MayEnter
<1>9. /\ Sound(r) /\ r.running = m1.running /\ r.ticks = m1.ticks
      /\ r.timer = [m1.timer EXCEPT ![t].start = now]
      /\ \A but : Awake(m1, but) => Awake(r, but)
      /\ \A u \in Objects : Kept(m1, u) \/ u = t => Kept(r, u)
      /\ \A k \in ListIds : \A u : u # t => (u \in Items(r, k) <=> u \in Items(m1, k))
      /\ \A e \in Range(r.heap) : e.w.of = "timer" => e \in Range(m1.heap)
  <2>1. m1.timer[t].after = after
      BY <1>1, <1>5
  <2>2. Inserts(m1, r, t)
      BY <1>5, <1>6, <1>7, <1>8, <2>1, InsertSound, Zenon
  <2> QED
      BY <2>2 DEF Inserts
<1>10. /\ \A u \in Objects : u # t => r.timer[u] = m.timer[u]
       /\ r.timer[t] = [o EXCEPT !.start = now]
    BY <1>s, <1>5, <1>9 DEF Machine, Sound
<1>11. /\ r.timer[t].kind = kind /\ ~r.timer[t].cleared /\ r.timer[t].fired = 0
       /\ Flags(r.timer[t])
  <2>1. /\ r.timer[t].kind = kind /\ ~r.timer[t].cleared /\ r.timer[t].fired = 0
        /\ r.timer[t].handle = "none" /\ r.timer[t].start = now /\ r.timer[t].since = now
        /\ r.timer[t].idle = after /\ r.timer[t].after = after
        /\ r.timer[t].cb = o.cb /\ r.timer[t].repeat = o.repeat /\ r.timer[t].hcb = o.hcb
      BY <1>1, <1>10 DEF TimerObject
  <2>2. r.timer[t].since <= r.timer[t].start
      BY <2>1
  <2> QED
      BY <1>1, <2>1, <2>2 DEF Flags, Calls
<1>12. \A k \in ListIds : \A u \in Items(r, k) : u # t => u \in Items(m, k)
    BY <1>5, <1>9, Zenon DEF Items
<1>13. Flagged(r)
  <2>1. \A u \in Objects : Flags(r.timer[u])
      BY <1>s, <1>10, <1>11 DEF Flagged
  <2>2. ASSUME NEW k \in ListIds, NEW u \in Items(r, k), r.timer[u].kind = "timeout"
        PROVE  ~r.timer[u].cleared
    <3>1. CASE u = t
        BY <1>11, <3>1
    <3>2. CASE u # t
      <4>1. u \in Items(m, k) /\ u \in Objects
          BY <1>s, <1>12, <3>2, ItemTimers
      <4> QED
          BY <1>s, <1>10, <2>2, <3>2, <4>1 DEF Flagged
    <3> QED
        BY <3>1, <3>2
  <2> QED
      BY <2>1, <2>2 DEF Flagged
<1>14. Numbered(r)
  <2>1. ASSUME NEW u \in Objects, NEW v \in Objects, u < v, r.timer[v].kind # "none"
        PROVE  r.timer[u].kind # "none"
    <3>1. CASE u = t
        BY <1>1, <1>11, <3>1
    <3>2. CASE u # t /\ v = t
      <4>1. ~(t <= u)
          BY <2>1, <3>2, TimersAssumption
      <4> QED
          BY <1>10, <3>2, <4>1
    <3>3. CASE u # t /\ v # t
        BY <1>s, <1>10, <2>1, <3>3 DEF Numbered
    <3> QED
        BY <3>1, <3>2, <3>3
  <2> QED
      BY <2>1 DEF Numbered
<1>15. RunningSound(r)
  <2>1. ASSUME NEW u \in Objects, m.running # NotRunning, u = m.running.timer
        PROVE  /\ r.timer[u].kind = m.timer[u].kind /\ r.timer[u].fired = m.timer[u].fired /\ r.timer[u].threw = m.timer[u].threw
               /\ m.timer[u].handle # "none" => r.timer[u].handle # "none"
               /\ \A l \in ListIds : u \in Items(r, l) => u \in Items(m, l)
               /\ \A e \in Range(r.heap) : e.w = OfTimer(u) => e \in Range(m.heap)
    <3>1. u # t
        BY <1>s, <2>1 DEF RunningSound
    <3>2. \A e \in Range(r.heap) : e.w = OfTimer(u) => e \in Range(m.heap)
        BY <1>5, <1>9 DEF OfTimer
    <3> QED
        BY <1>10, <1>12, <3>1, <3>2
  <2>2. r.running = m.running
      BY <1>5, <1>9
  <2> QED
      BY <1>s, <2>1, <2>2, StillRunning
<1>16. Awake(r, m.running.list)
  <2>1. Awake(m, m.running.list)
      BY DEF Whole
  <2>2. Awake(m1, m.running.list)
      BY <1>5, <2>1 DEF Awake
  <2> QED
      BY <1>9, <2>2
<1>17. AllKept(r, m.running.timer)
  <2>1. ASSUME NEW u \in Objects, u # m.running.timer PROVE Kept(r, u)
    <3>1. Kept(m, u)
        BY <2>1 DEF Whole, AllKept
    <3> QED
        BY <1>5, <1>9, <3>1
  <2> QED
      BY <2>1 DEF AllKept
<1>18. \A u \in Objects : ~(r.timer[u].fired > m.timer[u].fired)
  <2>1. \A u \in Objects : m.timer[u].fired \in Nat
      BY <1>s DEF Machine, TimerObject
  <2>2. ASSUME NEW u \in Objects PROVE ~(r.timer[u].fired > m.timer[u].fired)
    <3>1. CASE u = t
        BY <1>11, <2>1, <3>1
    <3>2. CASE u # t
        BY <1>10, <2>1, <3>2
    <3> QED
        BY <3>1, <3>2
  <2> QED
      BY <2>2
<1>19. Apart(r)
  <2>1. ASSUME NEW e \in Range(r.heap), NEW u \in Objects, e.w = OfTimer(u), NEW l \in ListIds
        PROVE  u \notin Items(r, l)
    <3>1. e \in Range(m.heap)
        BY <1>5, <1>9, <2>1 DEF OfTimer
    <3>2. u # t
        BY <1>3, <2>1, <3>1
    <3> QED
        BY <1>s, <1>12, <2>1, <3>1, <3>2 DEF Apart
  <2> QED
      BY <2>1 DEF Apart
<1> QED
    BY <1>5, <1>9, <1>13, <1>14, <1>15, <1>16, <1>17, <1>18, <1>19 DEF Whole, State

(* One timer was changed, and taken out of lists or given a watcher.       *)
Again(m, r, t) ==
    /\ r.running = m.running
    /\ \A u \in Objects : u # t => r.timer[u] = m.timer[u]
    /\ r.timer[t].kind = m.timer[t].kind /\ r.timer[t].fired = m.timer[t].fired
    /\ m.timer[t].handle # "none" => r.timer[t].handle # "none"
    /\ Flags(r.timer[t])
    /\ \A l \in ListIds : \A u : u \in Items(r, l) => u \in Items(m, l)
    /\ r.timer[t].cleared /\ r.timer[t].kind = "timeout" => \A l \in ListIds : t \notin Items(r, l)
    /\ \A e \in Range(r.heap) :
         \/ e \in Range(m.heap)
         \/ /\ e.w = OfTimer(t) /\ m.timer[t].handle = "none"
            /\ \A l \in ListIds : t \notin Items(r, l)
    /\ \A but : Awake(m, but) => Awake(r, but)
    /\ \A u \in Objects : Kept(m, u) => Kept(r, u)
Still(m, r) ==
    /\ Whole(r) /\ r.running = m.running
    /\ \A u \in Objects : ~(r.timer[u].fired > m.timer[u].fired)
LEMMA WholeAgain ==
    ASSUME NEW m, Whole(m), NEW t \in Objects, m.timer[t].kind # "none",
           NEW r, Sound(r), Again(m, r, t)
    PROVE  Still(m, r)
<1>a. /\ r.running = m.running
      /\ \A u \in Objects : u # t => r.timer[u] = m.timer[u]
      /\ r.timer[t].kind = m.timer[t].kind /\ r.timer[t].fired = m.timer[t].fired
      /\ m.timer[t].handle # "none" => r.timer[t].handle # "none"
      /\ Flags(r.timer[t])
      /\ \A l \in ListIds : \A u : u \in Items(r, l) => u \in Items(m, l)
      /\ r.timer[t].cleared /\ r.timer[t].kind = "timeout" => \A l \in ListIds : t \notin Items(r, l)
      /\ \A e \in Range(r.heap) :
           \/ e \in Range(m.heap)
           \/ /\ e.w = OfTimer(t) /\ m.timer[t].handle = "none"
              /\ \A l \in ListIds : t \notin Items(r, l)
      /\ \A but : Awake(m, but) => Awake(r, but)
      /\ \A u \in Objects : Kept(m, u) => Kept(r, u)
    BY DEF Again
<1>s. m \in Machine /\ r \in Machine /\ Flagged(m) /\ Numbered(m) /\ Apart(m)
      /\ RunningSound(m)
    BY DEF Whole, State, Sound
<1>1. Flagged(r)
  <2>1. \A u \in Objects : Flags(r.timer[u])
    <3>1. ASSUME NEW u \in Objects PROVE Flags(r.timer[u])
      <4>1. CASE u = t
          BY <1>a, <4>1
      <4>2. CASE u # t
          BY <1>a, <1>s, <4>2 DEF Flagged
      <4> QED
          BY <4>1, <4>2
    <3> QED
        BY <3>1
  <2>2. ASSUME NEW k \in ListIds, NEW u \in Items(r, k), r.timer[u].kind = "timeout"
        PROVE  ~r.timer[u].cleared
    <3>1. u \in Items(m, k) /\ u \in Objects
        BY <1>a, <1>s, ItemTimers
    <3>2. CASE u = t
        BY <1>a, <2>2, <3>2
    <3>3. CASE u # t
        BY <1>a, <1>s, <2>2, <3>1, <3>3 DEF Flagged
    <3> QED
        BY <3>2, <3>3
  <2> QED
      BY <2>1, <2>2 DEF Flagged
<1>2. \A u \in Objects : r.timer[u].kind = m.timer[u].kind /\ r.timer[u].fired = m.timer[u].fired
    BY <1>a
<1>3. Numbered(r)
    BY <1>s, <1>2 DEF Numbered
<1>4. RunningSound(r)
  <2>1. ASSUME NEW u \in Objects, m.running # NotRunning, u = m.running.timer
        PROVE  /\ r.timer[u].kind = m.timer[u].kind /\ r.timer[u].fired = m.timer[u].fired
               /\ m.timer[u].handle # "none" => r.timer[u].handle # "none"
               /\ \A l \in ListIds : u \in Items(r, l) => u \in Items(m, l)
               /\ m.running.by = "handle" =>
                    \A e \in Range(r.heap) : e.w = OfTimer(u) => e \in Range(m.heap)
    <3>1. m.timer[u].handle # "none" => r.timer[u].handle # "none"
      <4>1. CASE u = t
          BY <1>a, <4>1
      <4>2. CASE u # t
          BY <1>a, <4>2
      <4> QED
          BY <4>1, <4>2
    <3>2. ASSUME m.running.by = "handle", NEW e \in Range(r.heap), e.w = OfTimer(u)
          PROVE  e \in Range(m.heap)
      <4>1. m.timer[u].handle # "none"
          BY <1>s, <2>1, <3>2 DEF RunningSound
      <4>2. e.w = OfTimer(t) => u = t
          BY <3>2 DEF OfTimer
      <4> QED
          BY <1>a, <3>2, <4>1, <4>2
    <3> QED
        BY <1>a, <1>2, <3>1, <3>2
  <2> QED
      BY <1>a, <1>s, <2>1, StillRunning
<1>5. Awake(r, r.running.list)
    BY <1>a DEF Whole
<1>6. AllKept(r, r.running.timer)
    BY <1>a DEF Whole, AllKept
<1>7. \A u \in Objects : ~(r.timer[u].fired > m.timer[u].fired)
  <2>1. \A u \in Objects : m.timer[u].fired \in Nat
      BY <1>s DEF Machine, TimerObject
  <2> QED
      BY <1>2, <2>1
<1>8. Apart(r)
  <2>1. ASSUME NEW e \in Range(r.heap), NEW u \in Objects, e.w = OfTimer(u), NEW l \in ListIds
        PROVE  u \notin Items(r, l)
    <3>1. CASE e \in Range(m.heap)
        BY <1>a, <1>s, <2>1, <3>1 DEF Apart
    <3>2. CASE e.w = OfTimer(t) /\ \A k \in ListIds : t \notin Items(r, k)
        BY <2>1, <3>2 DEF OfTimer
    <3> QED
        BY <1>a, <3>1, <3>2
  <2> QED
      BY <2>1 DEF Apart
<1> QED
    BY <1>a, <1>1, <1>3, <1>4, <1>5, <1>6, <1>7, <1>8 DEF Whole, State, Still

(* A change of a changed timer.                                            *)
ChangesAgain(m, t, o) ==
    /\ Changed(m, t, o).timer[t] = o
    /\ Changed(m, t, o).heap = m.heap
    /\ \A b : [Changed(m, t, o) EXCEPT !.timer[t].cb = b] = Changed(m, t, [o EXCEPT !.cb = b])
    /\ \A b : [Changed(m, t, o) EXCEPT !.timer[t].repeat = b] = Changed(m, t, [o EXCEPT !.repeat = b])
    /\ [Changed(m, t, o) EXCEPT !.timer[t].hcb = FALSE, !.timer[t].handle = "closed"]
         = Changed(m, t, [o EXCEPT !.hcb = FALSE, !.handle = "closed"])
LEMMA ChangedAgain ==
    ASSUME NEW m \in Machine, NEW t \in Objects, NEW o PROVE ChangesAgain(m, t, o)
<1>1. m.timer \in [Objects -> TimerObject]
    BY DEF Machine
<1> DEFINE T == [m.timer EXCEPT ![t] = o]
           c == Changed(m, t, o)
<1>2. c = [m EXCEPT !.timer = T] /\ T[t] = o
    BY <1>1 DEF Changed
<1>3. c.timer[t] = o /\ c.heap = m.heap /\ c.timer = T
    BY <1>2 DEF Machine
<1>4. ASSUME NEW b
      PROVE  [c EXCEPT !.timer[t].cb = b] = Changed(m, t, [o EXCEPT !.cb = b])
  <2>1. [c EXCEPT !.timer[t].cb = b] = [c EXCEPT !.timer = [T EXCEPT ![t] = [o EXCEPT !.cb = b]]]
      BY <1>1, <1>2, <1>3, Zenon
  <2>2. [T EXCEPT ![t] = [o EXCEPT !.cb = b]] = [m.timer EXCEPT ![t] = [o EXCEPT !.cb = b]]
      BY <1>1
  <2> HIDE DEF T, c
  <2> QED
      BY <1>2, <2>1, <2>2, Zenon DEF Changed, Machine
<1>5. ASSUME NEW b
      PROVE  [c EXCEPT !.timer[t].repeat = b] = Changed(m, t, [o EXCEPT !.repeat = b])
  <2>1. [c EXCEPT !.timer[t].repeat = b] = [c EXCEPT !.timer = [T EXCEPT ![t] = [o EXCEPT !.repeat = b]]]
      BY <1>1, <1>2, <1>3, Zenon
  <2>2. [T EXCEPT ![t] = [o EXCEPT !.repeat = b]] = [m.timer EXCEPT ![t] = [o EXCEPT !.repeat = b]]
      BY <1>1
  <2> HIDE DEF T, c
  <2> QED
      BY <1>2, <2>1, <2>2, Zenon DEF Changed, Machine
<1>6. [c EXCEPT !.timer[t].hcb = FALSE, !.timer[t].handle = "closed"]
        = Changed(m, t, [o EXCEPT !.hcb = FALSE, !.handle = "closed"])
  <2> DEFINE p == [o EXCEPT !.hcb = FALSE, !.handle = "closed"]
  <2>1. [c EXCEPT !.timer[t].hcb = FALSE, !.timer[t].handle = "closed"]
          = [c EXCEPT !.timer = [T EXCEPT ![t] = p]]
      BY <1>1, <1>2, <1>3, Zenon
  <2> HIDE DEF p
  <2>2. [T EXCEPT ![t] = p] = [m.timer EXCEPT ![t] = p]
      BY <1>1
  <2> HIDE DEF T, c
  <2>3. [c EXCEPT !.timer[t].hcb = FALSE, !.timer[t].handle = "closed"] = Changed(m, t, p)
      BY <1>2, <2>1, <2>2, Zenon DEF Changed, Machine
  <2> QED
      BY <2>3 DEF p
<1> QED
    BY <1>3, <1>4, <1>5, <1>6 DEF ChangesAgain

(* A watcher that is not that of a changed timer, stopped or before that.  *)
LEMMA StopChanged ==
    ASSUME NEW m \in Machine, NEW t \in Objects, NEW o, NEW w
    PROVE  StopWatcher(Changed(m, t, o), w) = Changed(StopWatcher(m, w), t, o)
<1> DEFINE T == [m.timer EXCEPT ![t] = o]
           h == RemoveFirstMatch(m.heap, LAMBDA e : e.w = w)
           c == Changed(m, t, o)
           s == StopWatcher(m, w)
<1>1. c = [m EXCEPT !.timer = T] /\ s = [m EXCEPT !.heap = h]
    BY DEF Changed, StopWatcher
<1>2. c.heap = m.heap /\ s.timer = m.timer
    BY <1>1 DEF Machine
<1>3. StopWatcher(c, w) = [c EXCEPT !.heap = RemoveFirstMatch(c.heap, LAMBDA e : e.w = w)]
    BY DEF StopWatcher
<1>4. StopWatcher(c, w) = [c EXCEPT !.heap = h]
    BY <1>2, <1>3
<1>5. Changed(s, t, o) = [s EXCEPT !.timer = T]
  <2>1. Changed(s, t, o) = [s EXCEPT !.timer = [s.timer EXCEPT ![t] = o]]
      BY DEF Changed
  <2> HIDE DEF s
  <2> QED
      BY <1>2, <2>1
<1> HIDE DEF T, h, c, s
<1>6. [[m EXCEPT !.timer = T] EXCEPT !.heap = h] = [[m EXCEPT !.heap = h] EXCEPT !.timer = T]
    BY Zenon DEF Machine
<1> QED
    BY <1>1, <1>4, <1>5, <1>6 DEF c, s

(* clearTimeout() and clearInterval() of a timer that was not cleared.     *)
Cleared(o) == [o EXCEPT !.cleared = TRUE, !.repeat = FALSE, !.cb = FALSE]
Closed(o) == [Cleared(o) EXCEPT !.hcb = FALSE, !.handle = "closed"]
LEMMA ClearedFields ==
    ASSUME NEW o \in TimerObject
    PROVE  /\ Cleared(o) \in TimerObject /\ Closed(o) \in TimerObject
           /\ \A c \in {Cleared(o), Closed(o)} :
                /\ c.kind = o.kind /\ c.after = o.after /\ c.idle = o.idle /\ c.start = o.start
                /\ c.since = o.since /\ c.fired = o.fired /\ c.threw = o.threw
                /\ c.cleared /\ ~c.repeat /\ ~c.cb
           /\ Cleared(o).handle = o.handle /\ Cleared(o).hcb = o.hcb
           /\ Closed(o).handle = "closed" /\ ~Closed(o).hcb
<1> DEFINE c == Cleared(o)
<1>1. /\ c \in TimerObject
      /\ c.kind = o.kind /\ c.after = o.after /\ c.idle = o.idle /\ c.start = o.start
      /\ c.since = o.since /\ c.fired = o.fired /\ c.threw = o.threw /\ c.handle = o.handle /\ c.hcb = o.hcb
      /\ c.cleared /\ ~c.repeat /\ ~c.cb
    BY Zenon DEF Cleared, TimerObject
<1>2. Closed(o) = [c EXCEPT !.hcb = FALSE, !.handle = "closed"]
    BY DEF Closed
<1> HIDE DEF c
<1> DEFINE d == [c EXCEPT !.hcb = FALSE, !.handle = "closed"]
<1>3. /\ d \in TimerObject
      /\ d.kind = c.kind /\ d.after = c.after /\ d.idle = c.idle /\ d.start = c.start
      /\ d.since = c.since /\ d.fired = c.fired /\ d.threw = c.threw /\ d.handle = "closed" /\ ~d.hcb
    BY <1>1, Zenon DEF TimerObject
<1>4. d.cleared = c.cleared /\ d.repeat = c.repeat /\ d.cb = c.cb
    BY <1>1, Zenon DEF TimerObject
<1> HIDE DEF d
<1> QED
    BY <1>1, <1>2, <1>3, <1>4 DEF c, d

ClearIs(m, t, r) ==
    LET o == m.timer[t]
    IN  /\ o.cleared => r = m
        /\ ~o.cleared /\ o.handle = "none" => r = Unenroll(Changed(m, t, Cleared(o)), t)
        /\ ~o.cleared /\ o.handle # "none" => r = Changed(StopWatcher(m, OfTimer(t)), t, Closed(o))
LEMMA ClearCases ==
    ASSUME NEW m \in Machine, NEW t \in Objects, m.timer[t].kind # "none", Flags(m.timer[t])
    PROVE  ClearIs(m, t, Clear(m, t))
<1> DEFINE o  == m.timer[t]
           p  == [o EXCEPT !.cleared = TRUE]
           p2 == [p EXCEPT !.repeat = FALSE]
           m1 == [m EXCEPT !.timer[t].cleared = TRUE]
<1>1. o \in TimerObject /\ m.timer \in [Objects -> TimerObject] /\ Calls(o)
      /\ o.kind \in {"timeout", "interval"} /\ o.cleared \in BOOLEAN
    BY TimersAssumption, Zenon DEF Machine, TimerObject, Flags
<1>2. m1 = Changed(m, t, p)
    BY <1>1 DEF Changed, Machine
<1>3. /\ p.cb = o.cb /\ p.repeat = o.repeat /\ p.kind = o.kind /\ p.handle = o.handle
      /\ p2.cb = o.cb /\ p2.handle = o.handle
    BY <1>1 DEF TimerObject
<1>c. ChangesAgain(m, t, p) /\ ChangesAgain(m, t, p2)
    BY ChangedAgain
<1>4. m1.timer[t] = p
  <2> HIDE DEF p, m1
  <2> QED
    BY <1>2, <1>c, Zenon DEF ChangesAgain
<1>5. Clear(m, t) = IF o.kind = "interval" THEN ClearInterval(m1, t) ELSE ClearTimeout(m1, t)
    BY DEF Clear
<1>6. ClearInterval(m1, t) = IF o.repeat THEN ClearTimeout(Changed(m, t, p2), t) ELSE m1
  <2>1. [m1 EXCEPT !.timer[t].repeat = FALSE] = Changed(m, t, p2)
    <3> HIDE DEF p, m1
    <3> QED
      BY <1>2, <1>c, Zenon DEF ChangesAgain
  <2> HIDE DEF m1, p, p2
  <2> QED
      BY <1>3, <1>4, <2>1, Zenon DEF ClearInterval
<1>7. Changed(m, t, p2).timer[t] = p2
  <2> HIDE DEF p2
  <2> QED
    BY <1>c, Zenon DEF ChangesAgain
<1>8. CASE o.cleared
  <2>1. ~o.cb /\ ~o.repeat
      BY <1>1, <1>8 DEF Calls
  <2>2. p = o
      BY <1>1, <1>8, Zenon DEF TimerObject
  <2>3. m1 = m
      BY <1>1, <1>2, <2>2 DEF Changed, Machine
  <2>4. ClearTimeout(m1, t) = m1
      BY <1>3, <1>4, <2>1 DEF ClearTimeout
  <2> HIDE DEF m1, o, p
  <2>5. Clear(m, t) = m
      BY <1>5, <1>6, <2>1, <2>3, <2>4
  <2> QED
      BY <1>8, <2>5 DEF ClearIs, o
<1>9. CASE ~o.cleared
  <2>1. o.cb /\ (o.repeat <=> o.kind = "interval")
      BY <1>1, <1>9 DEF Calls
  <2>2. [p EXCEPT !.cb = FALSE] = Cleared(o) \/ o.kind = "interval"
    <3>1. CASE o.kind = "timeout"
      <4>1. o.repeat = FALSE
          BY <1>1, <2>1, <3>1 DEF TimerObject
      <4> QED
          BY <1>1, <4>1, Zenon DEF TimerObject, Cleared
    <3> QED
        BY <1>1, <3>1
  <2>3. [p2 EXCEPT !.cb = FALSE] = Cleared(o)
      BY <1>1 DEF TimerObject, Cleared
  <2>4. PICK q : /\ Clear(m, t) = CloseTimer(Changed(m, t, q), t)
                 /\ q.handle = o.handle /\ [q EXCEPT !.cb = FALSE] = Cleared(o)
    <3>1. CASE o.kind = "interval"
      <4>1. Clear(m, t) = ClearTimeout(Changed(m, t, p2), t)
        <5> HIDE DEF m1, p, p2, o
        <5> QED
          BY <1>5, <1>6, <2>1, <3>1
      <4>2. ClearTimeout(Changed(m, t, p2), t) = CloseTimer(Changed(m, t, p2), t)
        <5> HIDE DEF m1, p, p2, o
        <5> QED
          BY <1>3, <1>7, <2>1, Zenon DEF ClearTimeout
      <4> HIDE DEF m1, p, p2, o
      <4> QED
          BY <1>3, <2>3, <4>1, <4>2
    <3>2. CASE o.kind # "interval"
      <4>1. Clear(m, t) = ClearTimeout(m1, t)
          BY <1>5, <3>2
      <4>2. ClearTimeout(m1, t) = CloseTimer(m1, t)
        <5> HIDE DEF m1, p, p2, o
        <5> QED
          BY <1>3, <1>4, <2>1, Zenon DEF ClearTimeout
      <4> HIDE DEF m1, p, p2, o
      <4> QED
          BY <1>2, <1>3, <2>2, <3>2, <4>1, <4>2
    <3> QED
        BY <3>1, <3>2
  <2> HIDE DEF m1, p, p2, o
  <2> DEFINE n == Changed(m, t, q)
             n1 == [n EXCEPT !.timer[t].cb = FALSE]
  <2>c. ChangesAgain(m, t, q) /\ ChangesAgain(m, t, Cleared(o))
      BY ChangedAgain
  <2>5. n.timer[t] = q /\ n1 = Changed(m, t, Cleared(o))
      BY <2>4, <2>c, Zenon DEF ChangesAgain
  <2>6. CloseTimer(n, t) = IF n.timer[t].handle = "none" THEN Unenroll(n1, t)
                           ELSE StopWatcher([n1 EXCEPT !.timer[t].hcb = FALSE,
                                                       !.timer[t].handle = "closed"], OfTimer(t))
      BY DEF CloseTimer
  <2> HIDE DEF n, n1
  <2>7. [n1 EXCEPT !.timer[t].hcb = FALSE, !.timer[t].handle = "closed"] = Changed(m, t, Closed(o))
    <3>1. [Changed(m, t, Cleared(o)) EXCEPT !.timer[t].hcb = FALSE, !.timer[t].handle = "closed"]
            = Changed(m, t, [Cleared(o) EXCEPT !.hcb = FALSE, !.handle = "closed"])
        BY <2>c DEF ChangesAgain
    <3> QED
        BY <2>5, <3>1 DEF Closed
  <2>8. StopWatcher(Changed(m, t, Closed(o)), OfTimer(t))
          = Changed(StopWatcher(m, OfTimer(t)), t, Closed(o))
      BY StopChanged
  <2>9. Clear(m, t) = CloseTimer(n, t)
      BY <2>4 DEF n
  <2>10. o.handle = "none" => Clear(m, t) = Unenroll(Changed(m, t, Cleared(o)), t)
      BY <2>4, <2>5, <2>6, <2>9
  <2>11. o.handle # "none" => Clear(m, t) = Changed(StopWatcher(m, OfTimer(t)), t, Closed(o))
      BY <2>4, <2>5, <2>6, <2>7, <2>8, <2>9
  <2> QED
      BY <1>9, <2>10, <2>11 DEF ClearIs, o
<1> QED
    BY <1>1, <1>8, <1>9

LEMMA ClearWhole ==
    ASSUME NEW m, Whole(m), NEW t \in Objects, m.timer[t].kind # "none", NEW r, r = Clear(m, t)
    PROVE  Still(m, r)
<1> DEFINE o == m.timer[t]
<1>s. Sound(m) /\ m \in Machine /\ Flagged(m) /\ Flags(o)
    BY DEF Whole, State, Sound, Flagged
<1>1. o \in TimerObject /\ o.kind # "none" /\ o.after \in Delays /\ o.idle \in {o.after, -1} /\ o.start <= now
    BY <1>s DEF Sound, TimerSound, Machine
<1>2. ClearIs(m, t, r)
    BY <1>s, ClearCases
<1>3. /\ Cleared(o) \in TimerObject /\ Closed(o) \in TimerObject
      /\ \A c \in {Cleared(o), Closed(o)} :
           /\ c.kind = o.kind /\ c.after = o.after /\ c.idle = o.idle /\ c.start = o.start
           /\ c.since = o.since /\ c.fired = o.fired /\ c.threw = o.threw
           /\ c.cleared /\ ~c.repeat /\ ~c.cb
      /\ Cleared(o).handle = o.handle /\ Cleared(o).hcb = o.hcb
      /\ Closed(o).handle = "closed" /\ ~Closed(o).hcb
    BY <1>1, ClearedFields
<1>4. ASSUME NEW l \in ListIds, t \in Items(m, l)
      PROVE  o.since <= o.start /\ (o.kind = "timeout" => o.fired = 0 /\ o.handle = "none")
    BY <1>s, <1>4 DEF Sound, ListSound, Held
<1>5. ASSUME NEW e \in Range(m.heap), e.w = OfTimer(t) PROVE o.handle = "open"
  <2>1. EntrySound(m, e)
      BY <1>s DEF Sound, HeapSound
  <2> QED
      BY <1>5, <2>1 DEF EntrySound, OfTimer
<1>6. CASE o.cleared
  <2>1. r = m
      BY <1>2, <1>6 DEF ClearIs
  <2>2. \A u \in Objects : m.timer[u].fired \in Nat
      BY <1>s DEF Machine, TimerObject
  <2> QED
      BY <2>1, <2>2 DEF Still
<1>7. CASE ~o.cleared /\ o.handle = "none"
  <2> DEFINE c == Cleared(o)
             m1 == Changed(m, t, c)
  <2>1. r = Unenroll(m1, t)
      BY <1>2, <1>7 DEF ClearIs
  <2>c. /\ c \in TimerObject /\ c.kind = o.kind /\ c.after = o.after /\ c.idle = o.idle /\ c.start = o.start
        /\ c.since = o.since /\ c.fired = o.fired /\ c.threw = o.threw /\ c.cleared /\ ~c.repeat /\ ~c.cb
        /\ c.handle = "none" /\ c.hcb = o.hcb
      BY <1>3, <1>7
  <2> HIDE DEF c
  <2>2. Changes(m, m1, t, c)
      BY <1>s, <1>1, <1>4, <1>5, <1>7, <2>c, TimerChanges
  <2>3. /\ Sound(m1) /\ m1.timer = [m.timer EXCEPT ![t] = c] /\ m1.list = m.list
        /\ m1.running = m.running /\ m1.ticks = m.ticks /\ m1.heap = m.heap
        /\ m1.timer[t] = c /\ \A u \in Objects : u # t => m1.timer[u] = m.timer[u]
        /\ \A l \in ListIds : Wakes(m, l) => Wakes(m1, l)
        /\ \A u \in Objects : Kept(m, u) /\ u # t => Kept(m1, u)
      BY <2>2 DEF Changes
  <2> HIDE DEF m1
  <2>4. Unenrolls(m1, r, t)
      BY <1>1, <2>1, <2>3, <2>c, UnenrollSound, Zenon
  <2>5. /\ Sound(r) /\ r.running = m1.running /\ r.ticks = m1.ticks
        /\ r.timer = [m1.timer EXCEPT ![t].idle = -1]
        /\ \A but : Awake(m1, but) => Awake(r, but)
        /\ \A u \in Objects : Kept(m1, u) /\ u # t => Kept(r, u)
        /\ \A k \in ListIds : \A u : u \in Items(r, k) <=> u \in Items(m1, k) /\ u # t
        /\ \A e \in Range(r.heap) : e \in Range(m1.heap)
      BY <2>4 DEF Unenrolls
  <2>6. r.timer[t] = [c EXCEPT !.idle = -1] /\ \A u \in Objects : u # t => r.timer[u] = m.timer[u]
      BY <1>s, <2>3, <2>5 DEF Machine
  <2>7. /\ r.timer[t].kind = o.kind /\ r.timer[t].fired = o.fired /\ r.timer[t].threw = o.threw /\ r.timer[t].handle = "none"
        /\ r.timer[t].since = o.since /\ r.timer[t].start = o.start /\ r.timer[t].cleared
        /\ r.timer[t].cb = c.cb /\ r.timer[t].repeat = c.repeat /\ r.timer[t].hcb = c.hcb
      BY <2>c, <2>6 DEF TimerObject
  <2>8. Flags(r.timer[t])
    <3>1. ~o.hcb /\ o.since <= o.start /\ (o.kind = "timeout" => o.fired <= 1)
        BY <1>s, <1>1, <1>7 DEF Flags, Calls
    <3> QED
        BY <2>c, <2>7, <3>1 DEF Flags, Calls
  <2>9. ASSUME NEW but, Awake(m, but) PROVE Awake(r, but)
    <3>1. Awake(m1, but)
        BY <2>3, <2>9 DEF Awake
    <3> QED
        BY <2>5, <3>1
  <2>10. \A u \in Objects : Kept(m, u) => Kept(r, u)
    <3>1. Kept(r, t)
        BY <2>7 DEF Kept
    <3> QED
        BY <2>3, <2>5, <3>1
  <2>11. \A l \in ListIds : \A u : u \in Items(r, l) => u \in Items(m, l) /\ u # t
      BY <2>3, <2>5 DEF Items
  <2>12. r.running = m.running /\ \A e \in Range(r.heap) : e \in Range(m.heap)
      BY <2>3, <2>5
  <2>13. Again(m, r, t)
      BY <1>7, <2>6, <2>7, <2>8, <2>9, <2>10, <2>11, <2>12 DEF Again
  <2> QED
      BY <1>1, <2>5, <2>13, WholeAgain
<1>8. CASE ~o.cleared /\ o.handle # "none"
  <2> DEFINE d == Closed(o)
             s == StopWatcher(m, OfTimer(t))
  <2>1. r = Changed(s, t, d)
      BY <1>2, <1>8 DEF ClearIs
  <2>c. /\ d \in TimerObject /\ d.kind = o.kind /\ d.after = o.after /\ d.idle = o.idle /\ d.start = o.start
        /\ d.since = o.since /\ d.fired = o.fired /\ d.threw = o.threw /\ d.cleared /\ ~d.repeat /\ ~d.cb
        /\ d.handle = "closed" /\ ~d.hcb
      BY <1>3
  <2> HIDE DEF d
  <2>2. /\ Sound(s) /\ s.timer = m.timer /\ s.lists = m.lists /\ s.list = m.list
        /\ s.running = m.running /\ s.ticks = m.ticks
        /\ \A e \in Range(s.heap) : e \in Range(m.heap) /\ e.w # OfTimer(t)
        /\ \A l \in ListIds : Wakes(m, l) /\ OfTimer(t) # OfList(l) => Wakes(s, l)
        /\ \A u \in Objects : Kept(m, u) /\ OfTimer(t) # OfTimer(u) => Kept(s, u)
      BY <1>s, StopSound
  <2> HIDE DEF s
  <2>3. Changes(s, r, t, d)
    <3>1. \A l \in ListIds : t \in Items(s, l) => t \in Items(m, l)
        BY <2>2 DEF Items
    <3>2. (\E l \in ListIds : t \in Items(s, l)) =>
             o.since <= o.start /\ (o.kind = "timeout" => o.fired = 0 /\ o.handle = "none")
        BY <1>4, <3>1
    <3> QED
        BY <1>1, <1>8, <2>1, <2>2, <2>c, <3>2, TimerChanges
  <2>4. /\ Sound(r) /\ r.timer = [s.timer EXCEPT ![t] = d] /\ r.list = s.list
        /\ r.running = s.running /\ r.ticks = s.ticks /\ r.heap = s.heap
        /\ r.timer[t] = d /\ \A u \in Objects : u # t => r.timer[u] = s.timer[u]
        /\ \A l \in ListIds : Wakes(s, l) => Wakes(r, l)
        /\ \A u \in Objects : Kept(s, u) /\ u # t => Kept(r, u)
      BY <2>3 DEF Changes
  <2>5. Flags(r.timer[t])
      BY <2>4, <2>c DEF Flags, Calls
  <2>6. ASSUME NEW but, Awake(m, but) PROVE Awake(r, but)
      BY <2>2, <2>4, <2>6, Zenon DEF Awake, OfTimer, OfList
  <2>7. \A u \in Objects : Kept(m, u) => Kept(r, u)
    <3>1. Kept(r, t)
        BY <2>4, <2>c DEF Kept
    <3>2. \A u \in Objects : u # t => OfTimer(t) # OfTimer(u)
        BY DEF OfTimer
    <3> QED
        BY <2>2, <2>4, <3>1, <3>2
  <2>8. \A l \in ListIds : \A u : u \in Items(r, l) => u \in Items(m, l)
      BY <2>2, <2>4 DEF Items
  <2>9. r.timer[t].kind = "timeout" => \A l \in ListIds : t \notin Items(r, l)
      BY <1>4, <1>8, <2>4, <2>8, <2>c
  <2>10. r.running = m.running /\ (\A e \in Range(r.heap) : e \in Range(m.heap))
         /\ \A u \in Objects : u # t => r.timer[u] = m.timer[u]
      BY <2>2, <2>4
  <2>11. /\ r.timer[t].kind = m.timer[t].kind /\ r.timer[t].fired = m.timer[t].fired /\ r.timer[t].threw = m.timer[t].threw
         /\ r.timer[t].handle # "none"
      BY <2>4, <2>c
  <2>12. Again(m, r, t)
      BY <2>5, <2>6, <2>7, <2>8, <2>9, <2>10, <2>11 DEF Again
  <2> QED
      BY <1>1, <2>4, <2>12, WholeAgain
<1> QED
    BY <1>6, <1>7, <1>8

(* ref(), and unref() of a timer that has its own watcher.                 *)
LEMMA RefChanges ==
    ASSUME NEW m, Whole(m), NEW t \in Objects, m.timer[t].kind # "none", NEW b \in BOOLEAN,
           NEW r, r = [m EXCEPT !.timer[t].ref = b]
    PROVE  Still(m, r)
<1> DEFINE o == m.timer[t]
           c == [o EXCEPT !.ref = b]
<1>s. Sound(m) /\ m \in Machine /\ Flagged(m) /\ Flags(o)
    BY DEF Whole, State, Sound, Flagged
<1>1. o \in TimerObject /\ o.kind # "none" /\ o.after \in Delays /\ o.idle \in {o.after, -1} /\ o.start <= now
    BY <1>s DEF Sound, TimerSound, Machine
<1>2. r = Changed(m, t, c)
    BY <1>1 DEF Changed
<1>3. /\ c \in TimerObject /\ c.kind = o.kind /\ c.after = o.after /\ c.idle = o.idle /\ c.start = o.start
      /\ c.since = o.since /\ c.fired = o.fired /\ c.threw = o.threw /\ c.handle = o.handle
    BY <1>1 DEF TimerObject
<1>4. c.hcb = o.hcb /\ c.cleared = o.cleared /\ c.repeat = o.repeat /\ c.cb = o.cb
    BY <1>1 DEF TimerObject
<1> HIDE DEF c
<1>5. ASSUME NEW l \in ListIds, t \in Items(m, l)
      PROVE  /\ o.since <= o.start /\ (o.kind = "timeout" => o.fired = 0 /\ o.handle = "none")
             /\ o.kind = "timeout" => ~o.cleared
    BY <1>s, <1>5 DEF Sound, ListSound, Held, Flagged
<1>6. ASSUME NEW e \in Range(m.heap), e.w = OfTimer(t)
      PROVE  o.handle = "open" /\ (o.hcb => o.since + o.after <= e.due)
  <2>1. EntrySound(m, e)
      BY <1>s DEF Sound, HeapSound
  <2> QED
      BY <1>6, <2>1 DEF EntrySound, OfTimer
<1>7. Changes(m, r, t, c)
    BY <1>s, <1>1, <1>2, <1>3, <1>4, <1>5, <1>6, TimerChanges
<1>8. /\ Sound(r) /\ r.list = m.list
      /\ r.running = m.running /\ r.ticks = m.ticks /\ r.heap = m.heap
      /\ r.timer[t] = c /\ \A u \in Objects : u # t => r.timer[u] = m.timer[u]
      /\ \A l \in ListIds : Wakes(m, l) => Wakes(r, l)
      /\ \A u \in Objects : Kept(m, u) /\ u # t => Kept(r, u)
    BY <1>7, Zenon DEF Changes
<1>9. Flags(r.timer[t])
    BY <1>s, <1>3, <1>4, <1>8 DEF Flags, Calls
<1>10. \A but : Awake(m, but) => Awake(r, but)
    BY <1>8 DEF Awake
<1>11. \A u \in Objects : Kept(m, u) => Kept(r, u)
  <2>1. Kept(m, t) => Kept(r, t)
      BY <1>3, <1>4, <1>8 DEF Kept, Items
  <2> QED
      BY <1>8, <2>1
<1>12. \A l \in ListIds : \A u : u \in Items(r, l) <=> u \in Items(m, l)
    BY <1>8 DEF Items
<1>13. r.timer[t].cleared /\ r.timer[t].kind = "timeout" => \A l \in ListIds : t \notin Items(r, l)
    BY <1>3, <1>4, <1>5, <1>8, <1>12
<1>14. Again(m, r, t)
    BY <1>3, <1>8, <1>9, <1>10, <1>11, <1>12, <1>13, Zenon DEF Again
<1> QED
    BY <1>1, <1>8, <1>14, WholeAgain

(* A timer's callback threw.                                               *)
Threw(m, t) == [m EXCEPT !.timer[t].threw = TRUE]
LEMMA ThrewChanges ==
    ASSUME NEW m, Whole(m), NEW t \in Objects, m.timer[t].kind # "none",
           NEW r, r = Threw(m, t)
    PROVE  /\ Still(m, r) /\ r \in Machine /\ r.timer[t].threw
           /\ r.lists = m.lists /\ r.list = m.list /\ r.heap = m.heap /\ r.ticks = m.ticks
<1> DEFINE o == m.timer[t]
           c == [o EXCEPT !.threw = TRUE]
<1>s. Sound(m) /\ m \in Machine /\ Flagged(m) /\ Flags(o)
    BY DEF Whole, State, Sound, Flagged
<1>1. o \in TimerObject /\ o.kind # "none" /\ o.after \in Delays /\ o.idle \in {o.after, -1} /\ o.start <= now
    BY <1>s DEF Sound, TimerSound, Machine
<1>2. r = Changed(m, t, c)
    BY <1>1 DEF Changed, Threw
<1>3. /\ c \in TimerObject /\ c.kind = o.kind /\ c.after = o.after /\ c.idle = o.idle /\ c.start = o.start
      /\ c.since = o.since /\ c.fired = o.fired /\ c.threw /\ c.handle = o.handle
    BY <1>1 DEF TimerObject
<1>4. c.hcb = o.hcb /\ c.cleared = o.cleared /\ c.repeat = o.repeat /\ c.cb = o.cb
    BY <1>1 DEF TimerObject
<1> HIDE DEF c
<1>5. ASSUME NEW l \in ListIds, t \in Items(m, l)
      PROVE  /\ o.since <= o.start /\ (o.kind = "timeout" => o.fired = 0 /\ o.handle = "none")
             /\ o.kind = "timeout" => ~o.cleared
    BY <1>s, <1>5 DEF Sound, ListSound, Held, Flagged
<1>6. ASSUME NEW e \in Range(m.heap), e.w = OfTimer(t)
      PROVE  o.handle = "open" /\ (o.hcb => o.since + o.after <= e.due)
  <2>1. EntrySound(m, e)
      BY <1>s DEF Sound, HeapSound
  <2> QED
      BY <1>6, <2>1 DEF EntrySound, OfTimer
<1>7. Changes(m, r, t, c)
    BY <1>s, <1>1, <1>2, <1>3, <1>4, <1>5, <1>6, TimerChanges
<1>8. /\ Sound(r) /\ r.list = m.list /\ r.lists = m.lists
      /\ r.running = m.running /\ r.ticks = m.ticks /\ r.heap = m.heap
      /\ r.timer[t] = c /\ \A u \in Objects : u # t => r.timer[u] = m.timer[u]
      /\ \A l \in ListIds : Wakes(m, l) => Wakes(r, l)
      /\ \A u \in Objects : Kept(m, u) /\ u # t => Kept(r, u)
    BY <1>7, Zenon DEF Changes
<1>9. Flags(r.timer[t])
    BY <1>s, <1>3, <1>4, <1>8 DEF Flags, Calls
<1>10. \A but : Awake(m, but) => Awake(r, but)
    BY <1>8 DEF Awake
<1>11. \A u \in Objects : Kept(m, u) => Kept(r, u)
  <2>1. Kept(m, t) => Kept(r, t)
      BY <1>3, <1>4, <1>8 DEF Kept, Items
  <2> QED
      BY <1>8, <2>1
<1>12. \A l \in ListIds : \A u : u \in Items(r, l) <=> u \in Items(m, l)
    BY <1>8 DEF Items
<1>13. r.timer[t].cleared /\ r.timer[t].kind = "timeout" => \A l \in ListIds : t \notin Items(r, l)
    BY <1>3, <1>4, <1>5, <1>8, <1>12
<1>14. Again(m, r, t)
    BY <1>3, <1>8, <1>9, <1>10, <1>11, <1>12, <1>13, Zenon DEF Again
<1> QED
    BY <1>1, <1>3, <1>8, <1>14, WholeAgain DEF Sound
LEMMA RefWhole ==
    ASSUME NEW m, Whole(m), NEW t \in Objects, m.timer[t].kind # "none", NEW r, r = Ref(m, t)
    PROVE  Still(m, r)
<1>1. CASE m.timer[t].handle = "none"
  <2>1. r = m
      BY <1>1 DEF Ref
  <2>2. \A u \in Objects : m.timer[u].fired \in Nat
      BY DEF Whole, State, Sound, Machine, TimerObject
  <2> QED
      BY <2>1, <2>2 DEF Still
<1>2. CASE m.timer[t].handle # "none"
  <2>1. r = [m EXCEPT !.timer[t].ref = TRUE]
      BY <1>2 DEF Ref
  <2> QED
      BY <2>1, RefChanges, Zenon
<1> QED
    BY <1>1, <1>2

(* unref() takes a timer from its list and gives it a watcher of its own,  *)
(* which keeps its time.                                                   *)
LEMMA UnrefWhole ==
    ASSUME now \in Nat, NEW m, Whole(m), NEW t \in Objects, m.timer[t].kind # "none",
           NEW r, r = Unref(m, t)
    PROVE  Still(m, r)
<1> DEFINE o == m.timer[t]
           n == Unenroll(m, t)
           p == n.timer[t]
           d == [p EXCEPT !.handle = "open", !.ref = FALSE, !.hcb = o.cb]
           s == Changed(n, t, d)
           left == DelayLeft(m, t)
           e0 == [w |-> OfTimer(t), due |-> now + left]
<1>s. Sound(m) /\ m \in Machine /\ Flagged(m) /\ Flags(o)
    BY DEF Whole, State, Sound, Flagged
<1>1. o \in TimerObject /\ o.kind # "none" /\ o.after \in Delays /\ o.idle \in {o.after, -1} /\ o.start <= now
    BY <1>s DEF Sound, TimerSound, Machine
<1>2. CASE o.handle # "none"
  <2>1. r = [m EXCEPT !.timer[t].ref = FALSE]
      BY <1>2 DEF Unref
  <2> QED
      BY <2>1, RefChanges, Zenon
<1>3. CASE o.handle = "none"
  <2>1. Unenrolls(m, n, t)
      BY <1>s, UnenrollSound
  <2>2. r = StartWatcher([n EXCEPT !.timer[t].handle = "open", !.timer[t].ref = FALSE,
                                   !.timer[t].hcb = o.cb], OfTimer(t), left)
      BY <1>3 DEF Unref
  <2> HIDE DEF n
  <2>3. /\ Sound(n) /\ n.running = m.running /\ n.ticks = m.ticks
        /\ n.timer = [m.timer EXCEPT ![t].idle = -1]
        /\ \A but : Awake(m, but) => Awake(n, but)
        /\ \A u \in Objects : Kept(m, u) /\ u # t => Kept(n, u)
        /\ \A k \in ListIds : \A u : u \in Items(n, k) <=> u \in Items(m, k) /\ u # t
        /\ \A e \in Range(n.heap) : e \in Range(m.heap)
      BY <2>1 DEF Unenrolls
  <2>4. p = [o EXCEPT !.idle = -1] /\ \A u \in Objects : u # t => n.timer[u] = m.timer[u]
      BY <1>s, <2>3 DEF Machine
  <2>5. /\ p \in TimerObject /\ p.kind = o.kind /\ p.after = o.after /\ p.start = o.start
        /\ p.since = o.since /\ p.fired = o.fired /\ p.threw = o.threw /\ p.idle = -1
      BY <1>1, <2>4 DEF TimerObject
  <2>6. p.cb = o.cb /\ p.repeat = o.repeat /\ p.cleared = o.cleared
      BY <1>1, <2>4 DEF TimerObject
  <2>7. [n EXCEPT !.timer[t].handle = "open", !.timer[t].ref = FALSE, !.timer[t].hcb = o.cb] = s
      BY <2>3, Zenon DEF Changed, Sound, Machine
  <2> HIDE DEF p
  <2>8. /\ d \in TimerObject /\ d.kind = o.kind /\ d.after = o.after /\ d.start = o.start
        /\ d.since = o.since /\ d.fired = o.fired /\ d.threw = o.threw /\ d.idle = -1 /\ d.handle = "open"
    <3>1. o.cb \in BOOLEAN
        BY <1>1 DEF TimerObject
    <3> QED
        BY <2>5, <3>1, Zenon DEF TimerObject
  <2>9. d.cb = o.cb /\ d.repeat = o.repeat /\ d.cleared = o.cleared /\ d.hcb = o.cb
      BY <2>5, <2>6 DEF TimerObject
  <2> HIDE DEF d
  <2>10. Calls(o) /\ o.since <= o.start /\ (~o.cleared => o.idle = o.after)
      BY <1>s, <1>1, <1>3 DEF Flags
  <2>11. now + left \in Nat /\ left \in Nat /\ (~o.cleared => o.since + o.after <= now + left)
    <3>1. left = IF o.start + o.idle - now < 0 THEN 0 ELSE o.start + o.idle - now
        BY DEF DelayLeft
    <3>2. o.start \in Nat /\ o.idle \in Int /\ o.since \in Nat /\ o.after \in Nat
      <4> HIDE DEF o
      <4>1. o.start \in Nat /\ o.since \in Nat
          BY <1>1 DEF TimerObject
      <4>2. o.after \in Nat /\ o.idle \in {o.after, -1}
          BY <1>1, TimersAssumption, Zenon
      <4> QED
          BY <4>1, <4>2
    <3> HIDE DEF o, left
    <3> QED
        BY <2>10, <3>1, <3>2
  <2> HIDE DEF left
  <2>12. ASSUME NEW e \in Range(m.heap), e.w = OfTimer(t) PROVE FALSE
    <3>1. EntrySound(m, e)
        BY <1>s DEF Sound, HeapSound
    <3> QED
        BY <1>3, <2>12, <3>1 DEF EntrySound, OfTimer
  <2>13. Changes(n, s, t, d)
    <3>1. \A l \in ListIds : t \notin Items(n, l)
        BY <2>3
    <3>2. \A e \in Range(n.heap) : e.w # OfTimer(t)
        BY <2>3, <2>12
    <3> QED
        BY <1>1, <2>3, <2>8, <3>1, <3>2, TimerChanges
  <2>14. /\ Sound(s) /\ s.list = n.list
         /\ s.running = n.running /\ s.ticks = n.ticks /\ s.heap = n.heap
         /\ s.timer[t] = d /\ \A u \in Objects : u # t => s.timer[u] = n.timer[u]
         /\ \A l \in ListIds : Wakes(n, l) => Wakes(s, l)
         /\ \A u \in Objects : Kept(n, u) /\ u # t => Kept(s, u)
      BY <2>13 DEF Changes
  <2> HIDE DEF s
  <2>15. EntrySound(s, e0) /\ OfTimer(t) \in Watcher
    <3>1. e0.w = OfTimer(t) /\ e0.due = now + left
        OBVIOUS
    <3>2. d.hcb => d.since + d.after <= e0.due
        BY <2>8, <2>9, <2>10, <2>11, <3>1 DEF Calls
    <3> HIDE DEF e0
    <3> QED
        BY <2>8, <2>14, <3>1, <3>2 DEF EntrySound, OfTimer, Watcher
  <2>16. r = StartWatcher(s, OfTimer(t), left)
      BY <2>2, <2>7
  <2>17. /\ Sound(r) /\ r.timer = s.timer /\ r.lists = s.lists /\ r.list = s.list
         /\ r.running = s.running /\ r.ticks = s.ticks
         /\ Range(r.heap) = {e \in Range(s.heap) : e.w # OfTimer(t)} \cup {e0}
         /\ \A l \in ListIds : Wakes(s, l) /\ OfTimer(t) # OfList(l) => Wakes(r, l)
         /\ \A u \in Objects : Kept(s, u) \/ OfTimer(t) = OfTimer(u) => Kept(r, u)
    <3>1. Starts(s, r, OfTimer(t), left)
        BY <2>11, <2>14, <2>15, <2>16, StartSound
    <3> QED
        BY <3>1 DEF Starts
  <2>18. Flags(r.timer[t])
      BY <2>8, <2>9, <2>10, <2>14, <2>17 DEF Flags, Calls
  <2>19. ASSUME NEW but, Awake(m, but) PROVE Awake(r, but)
    <3>1. Awake(n, but)
        BY <2>3, <2>19
    <3> QED
        BY <2>14, <2>17, <3>1, Zenon DEF Awake, OfTimer, OfList
  <2>20. \A u \in Objects : Kept(m, u) => Kept(r, u)
      BY <2>3, <2>14, <2>17
  <2>21. \A l \in ListIds : \A u : u \in Items(r, l) => u \in Items(m, l) /\ u # t
      BY <2>3, <2>14, <2>17 DEF Items
  <2>22. /\ \A e \in Range(r.heap) : e \in Range(m.heap) \/ e.w = OfTimer(t)
         /\ \A l \in ListIds : t \notin Items(r, l)
      BY <2>3, <2>14, <2>17, <2>21
  <2>23. r.running = m.running /\ \A u \in Objects : u # t => r.timer[u] = m.timer[u]
      BY <2>3, <2>4, <2>14, <2>17
  <2>24. r.timer[t].kind = o.kind /\ r.timer[t].fired = o.fired /\ r.timer[t].threw = o.threw /\ r.timer[t].handle # "none"
      BY <2>8, <2>14, <2>17
  <2>25. Again(m, r, t)
      BY <1>3, <2>18, <2>19, <2>20, <2>21, <2>22, <2>23, <2>24 DEF Again
  <2> QED
      BY <1>1, <2>17, <2>25, WholeAgain
<1> QED
    BY <1>2, <1>3

-----------------------------------------------------------------------------
(* The end of a callback.                                                  *)

(* What setInterval's wrapper leaves: every timer is kept, and timeouts    *)
(* are where they were.                                                    *)
Rearms(m, r) ==
    /\ State(r) /\ r.running = m.running /\ r.ticks = m.ticks
    /\ Awake(r, m.running.list) /\ AllKept(r, NoTimer)
    /\ \A u \in Objects :
         /\ r.timer[u].kind = m.timer[u].kind /\ r.timer[u].after = m.timer[u].after
         /\ r.timer[u].fired = m.timer[u].fired /\ r.timer[u].threw = m.timer[u].threw /\ r.timer[u].cleared = m.timer[u].cleared
         /\ r.timer[u].since \in {m.timer[u].since, now}
         /\ m.timer[u].kind = "timeout" =>
              \A k \in ListIds : u \in Items(r, k) <=> u \in Items(m, k)
    /\ \A x \in Delays : m.lists[x] # NoList => r.lists[x] = m.lists[x]

(* An interval was set again.                                              *)
SetAgain(m, r, t) ==
    /\ r.running = m.running /\ r.ticks = m.ticks
    /\ \A u \in Objects : u # t => r.timer[u] = m.timer[u]
    /\ r.timer[t].kind = "interval" /\ r.timer[t].after = m.timer[t].after
    /\ r.timer[t].fired = m.timer[t].fired /\ r.timer[t].threw = m.timer[t].threw /\ r.timer[t].cleared = m.timer[t].cleared
    /\ r.timer[t].since = now
    /\ Flags(r.timer[t])
    /\ \A k \in ListIds : \A u : u # t => (u \in Items(r, k) <=> u \in Items(m, k))
    /\ \A x \in Delays : m.lists[x] # NoList => r.lists[x] = m.lists[x]
    /\ \A but : Awake(m, but) => Awake(r, but)
    /\ \A u \in Objects : Kept(m, u) \/ u = t => Kept(r, u)
    /\ \A e \in Range(r.heap) :
         /\ e.w = OfTimer(t) => \A l \in ListIds : t \notin Items(r, l)
         /\ e.w.of = "timer" => e \in Range(m.heap) \/ e.w = OfTimer(t)
LEMMA SetAgainSound ==
    ASSUME NEW m, Whole(m), NEW t \in Objects, t = m.running.timer, m.timer[t].kind = "interval",
           NEW r, Sound(r), SetAgain(m, r, t)
    PROVE  Rearms(m, r)
<1>s. /\ m \in Machine /\ r \in Machine /\ Flagged(m) /\ Numbered(m) /\ Apart(m)
      /\ Awake(m, m.running.list) /\ AllKept(m, t)
    BY DEF Whole, State, Sound
<1>a. /\ r.running = m.running /\ r.ticks = m.ticks
      /\ \A u \in Objects : u # t => r.timer[u] = m.timer[u]
      /\ r.timer[t].kind = "interval" /\ r.timer[t].after = m.timer[t].after
      /\ r.timer[t].fired = m.timer[t].fired /\ r.timer[t].threw = m.timer[t].threw /\ r.timer[t].cleared = m.timer[t].cleared
      /\ r.timer[t].since = now
      /\ Flags(r.timer[t])
      /\ \A k \in ListIds : \A u : u # t => (u \in Items(r, k) <=> u \in Items(m, k))
      /\ \A x \in Delays : m.lists[x] # NoList => r.lists[x] = m.lists[x]
      /\ \A but : Awake(m, but) => Awake(r, but)
      /\ \A u \in Objects : Kept(m, u) \/ u = t => Kept(r, u)
      /\ \A e \in Range(r.heap) :
           /\ e.w = OfTimer(t) => \A l \in ListIds : t \notin Items(r, l)
           /\ e.w.of = "timer" => e \in Range(m.heap) \/ e.w = OfTimer(t)
    BY DEF SetAgain
<1>1. Flagged(r)
  <2>1. ASSUME NEW u \in Objects PROVE Flags(r.timer[u])
    <3>1. CASE u = t
        BY <1>a, <3>1
    <3>2. CASE u # t
        BY <1>s, <1>a, <3>2 DEF Flagged
    <3> QED
        BY <3>1, <3>2
  <2>2. ASSUME NEW k \in ListIds, NEW u \in Items(r, k), r.timer[u].kind = "timeout"
        PROVE  ~r.timer[u].cleared
    <3>1. u # t
        BY <1>a, <2>2
    <3>2. u \in Items(m, k) /\ u \in Objects
        BY <1>s, <1>a, <3>1, ItemTimers
    <3> QED
        BY <1>s, <1>a, <2>2, <3>1, <3>2 DEF Flagged
  <2> QED
      BY <2>1, <2>2 DEF Flagged
<1>2. Numbered(r)
  <2>1. \A u \in Objects : r.timer[u].kind = m.timer[u].kind
      BY <1>a
  <2> QED
      BY <1>s, <2>1 DEF Numbered
<1>3. Apart(r)
  <2>1. ASSUME NEW e \in Range(r.heap), NEW u \in Objects, e.w = OfTimer(u), NEW l \in ListIds
        PROVE  u \notin Items(r, l)
    <3>1. CASE u = t
        BY <1>a, <2>1, <3>1
    <3>2. CASE u # t
      <4>1. e \in Range(m.heap)
          BY <1>a, <2>1, <3>2 DEF OfTimer
      <4> QED
          BY <1>s, <1>a, <2>1, <3>2, <4>1 DEF Apart
    <3> QED
        BY <3>1, <3>2
  <2> QED
      BY <2>1 DEF Apart
<1>4. AllKept(r, NoTimer)
  <2>1. \A u \in Objects : Kept(r, u)
      BY <1>s, <1>a DEF AllKept
  <2> QED
      BY <2>1 DEF AllKept
<1>5. ASSUME NEW u \in Objects
      PROVE  /\ r.timer[u].kind = m.timer[u].kind /\ r.timer[u].after = m.timer[u].after
             /\ r.timer[u].fired = m.timer[u].fired /\ r.timer[u].threw = m.timer[u].threw /\ r.timer[u].cleared = m.timer[u].cleared
             /\ r.timer[u].since \in {m.timer[u].since, now}
             /\ m.timer[u].kind = "timeout" =>
                  \A k \in ListIds : u \in Items(r, k) <=> u \in Items(m, k)
  <2>1. CASE u = t
      BY <1>a, <2>1
  <2>2. CASE u # t
      BY <1>a, <2>2
  <2> QED
      BY <2>1, <2>2
<1>6. State(r)
    BY <1>1, <1>2, <1>3 DEF State
<1>7. Awake(r, m.running.list)
    BY <1>s, <1>a
<1> QED
    BY <1>a, <1>4, <1>5, <1>6, <1>7 DEF Rearms

(* A watcher that is not started need not be stopped.                      *)
LEMMA NothingStopped ==
    ASSUME NEW m \in Machine, NEW w, \A e \in Range(m.heap) : e.w # w
    PROVE  StopWatcher(m, w) = m
<1> DEFINE h == RemoveFirstMatch(m.heap, LAMBDA e : e.w = w)
<1>1. ~\E i \in 1 .. Len(m.heap) : m.heap[i].w = w
    BY DEF Machine, Range
<1>2. h = m.heap
    BY <1>1 DEF RemoveFirstMatch
<1>3. StopWatcher(m, w) = [m EXCEPT !.heap = h]
    BY DEF StopWatcher
<1> HIDE DEF h
<1> QED
    BY <1>2, <1>3 DEF Machine

(* A timer changes and its watcher is started again.                       *)
LEMMA StartChanged ==
    ASSUME NEW m, Sound(m), NEW t \in Objects, NEW o, NEW after, NEW w,
           NEW s, s = Changed(StopWatcher(m, w), t, o), s \in Machine
    PROVE  StartWatcher(Changed(m, t, o), w, after) = StartWatcher(s, w, after)
<1> DEFINE c == Changed(m, t, o)
           e0 == [w |-> w, due |-> now + after]
           n == StopWatcher(m, w)
<1>1. StopWatcher(c, w) = s
    BY StopChanged DEF Sound
<1>2. /\ Sound(n) /\ \A e \in Range(n.heap) : e \in Range(m.heap) /\ e.w # w
    BY StopSound
<1> HIDE DEF n
<1>3. s.heap = n.heap
    BY <1>2 DEF Changed, Sound, Machine, n
<1>4. StopWatcher(s, w) = s
    BY <1>2, <1>3, NothingStopped
<1>5. /\ StartWatcher(c, w, after) = [StopWatcher(c, w) EXCEPT !.heap = Append(@, e0)]
      /\ StartWatcher(s, w, after) = [StopWatcher(s, w) EXCEPT !.heap = Append(@, e0)]
    BY DEF StartWatcher
<1> QED
    BY <1>1, <1>4, <1>5

LEMMA RearmSound ==
    ASSUME now \in Nat, NEW m, Whole(m), m.running # NotRunning, Free(m) # {},
           NEW r, r = Rearm(m, m.running.timer, m.running.by)
    PROVE  Rearms(m, r)
<1> DEFINE t == m.running.timer
           by == m.running.by
           o  == m.timer[t]
<1>s. /\ Sound(m) /\ m \in Machine /\ Flagged(m) /\ Numbered(m) /\ Apart(m)
      /\ Awake(m, m.running.list) /\ AllKept(m, t) /\ State(m)
    BY DEF Whole, State, Sound
<1>1. /\ t \in Objects /\ by \in {"list", "handle"} /\ o.kind # "none" /\ o.fired > 0
      /\ \A l \in ListIds : t \notin Items(m, l)
      /\ by = "handle" => o.handle # "none" /\ \A e \in Range(m.heap) : e.w # OfTimer(t)
  <2>1. m.running.by \in {"none", "list", "handle"}
      BY <1>s DEF Machine, Running
  <2> QED
      BY <2>1 DEF Whole, RunningSound
<1>2. o \in TimerObject /\ o.after \in Delays /\ o.start <= now /\ Flags(o) /\ Calls(o)
    BY <1>s, <1>1 DEF Machine, Sound, TimerSound, Flagged, Flags
<1>3. ASSUME NEW e \in Range(m.heap), e.w = OfTimer(t) PROVE o.handle = "open"
  <2>1. EntrySound(m, e)
      BY <1>s DEF Sound, HeapSound
  <2> QED
      BY <1>3, <2>1 DEF EntrySound, OfTimer
<1>d. \A x \in Delays : x \in Nat /\ ~(x < 0) /\ now + x \in Nat
    BY TimersAssumption
<1>r. r = Rearm(m, t, by)
    OBVIOUS
<1>t. t = m.running.timer
    OBVIOUS
<1> HIDE DEF t, by
<1>4. CASE o.kind # "interval" \/ ~o.repeat
  <2>1. r = m
      BY <1>r, <1>4 DEF Rearm
  <2>2. o.kind \in {"timeout", "interval"} /\ o.fired \in Nat
      BY <1>1, <1>2, TimersAssumption, Zenon DEF TimerObject
  <2>3. Kept(m, t)
      BY <1>1, <1>2, <1>4, <2>2 DEF Calls, Kept
  <2>4. AllKept(m, NoTimer)
      BY <1>s, <2>3 DEF AllKept
  <2> QED
      BY <1>s, <2>1, <2>4 DEF Rearms
<1>5. CASE o.kind = "interval" /\ o.repeat /\ by = "list" /\ o.handle # "none"
  <2> DEFINE c == [o EXCEPT !.since = now]
             w == OfTimer(t)
             n == StopWatcher(m, w)
             s == Changed(n, t, c)
             e0 == [w |-> w, due |-> now + o.after]
  <2>1. r = StartWatcher(Changed(m, t, c), w, o.after)
    <3>1. r = StartWatcher([m EXCEPT !.timer[t].since = now], OfTimer(t), m.timer[t].after)
        BY <1>r, <1>5 DEF Rearm
    <3>2. [m EXCEPT !.timer[t].since = now] = Changed(m, t, c)
        BY <1>s, <1>1 DEF Changed, Machine
    <3> QED
        BY <3>1, <3>2
  <2>2. ~o.cleared /\ o.handle = "open" /\ o.hcb
    <3>1. ~o.cleared
        BY <1>2, <1>5 DEF Calls
    <3>2. o.handle \in {"none", "open", "closed"}
        BY <1>2 DEF TimerObject
    <3>3. o.handle = "open"
        BY <1>1, <1>2, <1>5, <3>1, <3>2 DEF Flags
    <3> QED
        BY <1>2, <3>1, <3>3 DEF Calls
  <2>3. /\ c \in TimerObject /\ c.kind = "interval" /\ c.after = o.after /\ c.start = o.start
        /\ c.since = now /\ c.fired = o.fired /\ c.threw = o.threw /\ c.idle = o.idle /\ c.handle = o.handle
      BY <1>2, <1>5 DEF TimerObject
  <2>4. c.cb = o.cb /\ c.repeat = o.repeat /\ c.cleared = o.cleared /\ c.hcb = o.hcb
      BY <1>2 DEF TimerObject
  <2>5. o.idle \in {o.after, -1}
      BY <1>s, <1>1 DEF Sound, TimerSound
  <2> HIDE DEF c
  <2>6. /\ Sound(n) /\ n.timer = m.timer /\ n.lists = m.lists /\ n.list = m.list
        /\ n.running = m.running /\ n.ticks = m.ticks
        /\ \A e \in Range(n.heap) : e \in Range(m.heap) /\ e.w # w
        /\ \A l \in ListIds : Wakes(m, l) /\ w # OfList(l) => Wakes(n, l)
        /\ \A u \in Objects : Kept(m, u) /\ w # OfTimer(u) => Kept(n, u)
      BY <1>s, StopSound
  <2> HIDE DEF n
  <2>7. Changes(n, s, t, c)
    <3>1. \A l \in ListIds : t \notin Items(n, l)
        BY <1>1, <2>6 DEF Items
    <3> QED
        BY <1>1, <1>2, <2>3, <2>5, <2>6, <3>1, TimerChanges
  <2>8. /\ Sound(s) /\ s.lists = n.lists /\ s.list = n.list
        /\ s.running = n.running /\ s.ticks = n.ticks /\ s.heap = n.heap
        /\ s.timer[t] = c /\ \A u \in Objects : u # t => s.timer[u] = n.timer[u]
        /\ \A l \in ListIds : Wakes(n, l) => Wakes(s, l)
        /\ \A u \in Objects : Kept(n, u) /\ u # t => Kept(s, u)
      BY <2>7 DEF Changes
  <2>9. r = StartWatcher(s, w, o.after)
    <3>1. s = Changed(StopWatcher(m, w), t, c)
        BY DEF n
    <3>2. s \in Machine
        BY <2>8 DEF Sound
    <3> HIDE DEF s
    <3>3. StartWatcher(Changed(m, t, c), w, o.after) = StartWatcher(s, w, o.after)
        BY <1>s, <1>1, <3>1, <3>2, StartChanged
    <3> QED
        BY <2>1, <3>3
  <2> HIDE DEF s
  <2>10. now + o.after \in Nat /\ w \in Watcher /\ EntrySound(s, e0)
    <3>1. now + o.after \in Nat /\ w \in Watcher
        BY <1>1, <1>2, <1>d DEF OfTimer, Watcher
    <3>2. e0.w = w /\ e0.due = now + o.after
        OBVIOUS
    <3>3. c.since + c.after <= now + o.after
        BY <2>3, <3>1
    <3> HIDE DEF e0
    <3> QED
        BY <2>2, <2>3, <2>8, <3>1, <3>2, <3>3 DEF EntrySound, OfTimer
  <2>11. /\ Sound(r) /\ r.timer = s.timer /\ r.lists = s.lists /\ r.list = s.list
         /\ r.running = s.running /\ r.ticks = s.ticks
         /\ Range(r.heap) = {e \in Range(s.heap) : e.w # w} \cup {e0}
         /\ \A l \in ListIds : Wakes(s, l) /\ w # OfList(l) => Wakes(r, l)
         /\ \A u \in Objects : Kept(s, u) \/ w = OfTimer(u) => Kept(r, u)
    <3>1. Starts(s, r, w, o.after)
        BY <2>8, <2>9, <2>10, StartSound
    <3> QED
        BY <3>1 DEF Starts
  <2>12. Flags(r.timer[t])
    <3>1. r.timer[t] = c
        BY <2>8, <2>11
    <3>2. Calls(c) /\ c.handle = "open" /\ c.kind = "interval"
        BY <1>2, <1>5, <2>2, <2>3, <2>4 DEF Calls
    <3> HIDE DEF o
    <3> QED
        BY <3>1, <3>2 DEF Flags
  <2>13. ASSUME NEW but, Awake(m, but) PROVE Awake(r, but)
      BY <2>6, <2>8, <2>11, <2>13, Zenon DEF Awake, OfTimer, OfList
  <2>14. \A u \in Objects : Kept(m, u) \/ u = t => Kept(r, u)
    <3>1. Kept(r, t)
        BY <1>1, <2>11
    <3>2. \A u \in Objects : u # t => w # OfTimer(u)
        BY DEF OfTimer
    <3> QED
        BY <2>6, <2>8, <2>11, <3>1, <3>2
  <2>15. \A k \in ListIds : \A u : u \in Items(r, k) <=> u \in Items(m, k)
      BY <2>6, <2>8, <2>11 DEF Items
  <2>16. \A e \in Range(r.heap) : e \in Range(m.heap) \/ e.w = OfTimer(t)
      BY <2>6, <2>8, <2>11
  <2>17. r.running = m.running /\ r.ticks = m.ticks /\ r.lists = m.lists
         /\ \A u \in Objects : u # t => r.timer[u] = m.timer[u]
      BY <2>6, <2>8, <2>11
  <2>18. SetAgain(m, r, t)
    <3>1. \A l \in ListIds : t \notin Items(r, l)
        BY <1>1, <2>15
    <3> QED
        BY <2>3, <2>4, <2>8, <2>11, <2>12, <2>13, <2>14, <2>15, <2>16, <2>17, <3>1 DEF SetAgain
  <2> QED
      BY <1>1, <1>5, <1>t, <2>11, <2>18, SetAgainSound
<1>6. CASE o.kind = "interval" /\ o.repeat /\ ~(by = "list" /\ o.handle # "none")
  <2> DEFINE c == [o EXCEPT !.idle = o.after, !.since = now]
             n == Changed(m, t, c)
  <2>1. r = Active(n, t)
    <3>1. r = Active([m EXCEPT !.timer[t].idle = m.timer[t].after, !.timer[t].since = now], t)
        BY <1>r, <1>6 DEF Rearm
    <3>2. [m EXCEPT !.timer[t].idle = m.timer[t].after, !.timer[t].since = now] = n
        BY <1>s, <1>1, Zenon DEF Changed, Machine
    <3> QED
        BY <3>1, <3>2
  <2>2. ~o.cleared
      BY <1>2, <1>6 DEF Calls
  <2>3. /\ c \in TimerObject /\ c.kind = "interval" /\ c.after = o.after /\ c.start = o.start
        /\ c.since = now /\ c.fired = o.fired /\ c.threw = o.threw /\ c.idle = o.after /\ c.handle = o.handle
      BY <1>2, <1>6, Zenon DEF TimerObject
  <2>4. c.cb = o.cb /\ c.repeat = o.repeat /\ c.cleared = o.cleared /\ c.hcb = o.hcb
      BY <1>2 DEF TimerObject
  <2> HIDE DEF c
  <2>5. \A e \in Range(m.heap) : e.w # OfTimer(t)
      BY <1>1, <1>3, <1>6
  <2>6. Changes(m, n, t, c)
      BY <1>s, <1>1, <1>2, <2>3, <2>5, TimerChanges
  <2>7. /\ Sound(n) /\ n.lists = m.lists /\ n.list = m.list
        /\ n.running = m.running /\ n.ticks = m.ticks /\ n.heap = m.heap
        /\ n.timer[t] = c /\ \A u \in Objects : u # t => n.timer[u] = m.timer[u]
        /\ \A l \in ListIds : Wakes(m, l) => Wakes(n, l)
        /\ \A u \in Objects : Kept(m, u) /\ u # t => Kept(n, u)
      BY <2>6 DEF Changes
  <2> HIDE DEF n
  <2>8. r = Insert(n, t, o.after)
    <3>1. ~(o.after < 0)
        BY <1>2, <1>d
    <3> QED
        BY <2>1, <2>3, <2>7, <3>1 DEF Active
  <2>9. MayEnter(n, t)
    <3>1. now <= now
        OBVIOUS
    <3> QED
        BY <2>3, <2>7, <3>1 DEF MayEnter
  <2>10. Free(n) # {}
      BY <2>7 DEF Free
  <2>11. Inserts(n, r, t)
      BY <1>1, <1>2, <2>3, <2>7, <2>8, <2>9, <2>10, InsertSound
  <2>12. /\ Sound(r) /\ r.running = n.running /\ r.ticks = n.ticks
         /\ r.timer = [n.timer EXCEPT ![t].start = now]
         /\ \A but : Awake(n, but) => Awake(r, but)
         /\ \A u \in Objects : Kept(n, u) \/ u = t => Kept(r, u)
         /\ \A k \in ListIds : \A u : u # t => (u \in Items(r, k) <=> u \in Items(n, k))
         /\ \A e \in Range(r.heap) : e.w.of = "timer" => e \in Range(n.heap)
         /\ \A x \in Delays : n.lists[x] # NoList => r.lists[x] = n.lists[x]
      BY <2>11 DEF Inserts
  <2>13. r.timer[t] = [c EXCEPT !.start = now] /\ \A u \in Objects : u # t => r.timer[u] = m.timer[u]
      BY <1>1, <2>7, <2>12 DEF Sound, Machine
  <2>14. /\ r.timer[t].kind = "interval" /\ r.timer[t].after = o.after
         /\ r.timer[t].fired = o.fired /\ r.timer[t].threw = o.threw /\ r.timer[t].since = now /\ r.timer[t].start = now
         /\ r.timer[t].idle = o.after /\ r.timer[t].handle = o.handle
      BY <2>3, <2>13 DEF TimerObject
  <2>15. /\ r.timer[t].cb = o.cb /\ r.timer[t].repeat = o.repeat
         /\ r.timer[t].cleared = o.cleared /\ r.timer[t].hcb = o.hcb
      BY <2>3, <2>4, <2>13 DEF TimerObject
  <2>16. Flags(r.timer[t])
    <3>1. now <= now
        OBVIOUS
    <3> QED
        BY <1>1, <1>2, <1>6, <2>14, <2>15, <3>1 DEF Flags, Calls
  <2>17. ASSUME NEW but, Awake(m, but) PROVE Awake(r, but)
    <3>1. Awake(n, but)
        BY <2>7, <2>17 DEF Awake
    <3> QED
        BY <2>12, <3>1
  <2>18. \A u \in Objects : Kept(m, u) \/ u = t => Kept(r, u)
      BY <2>7, <2>12
  <2>19. \A k \in ListIds : \A u : u # t => (u \in Items(r, k) <=> u \in Items(m, k))
      BY <2>7, <2>12, Zenon DEF Items
  <2>20. \A e \in Range(r.heap) : /\ e.w # OfTimer(t)
                                  /\ e.w.of = "timer" => e \in Range(m.heap)
      BY <2>5, <2>7, <2>12 DEF OfTimer
  <2>21. r.running = m.running /\ r.ticks = m.ticks
         /\ \A x \in Delays : m.lists[x] # NoList => r.lists[x] = m.lists[x]
      BY <2>7, <2>12
  <2>22. SetAgain(m, r, t)
      BY <2>13, <2>14, <2>15, <2>16, <2>17, <2>18, <2>19, <2>20, <2>21 DEF SetAgain
  <2> QED
      BY <1>1, <1>6, <1>t, <2>12, <2>22, SetAgainSound
<1> QED
    BY <1>4, <1>5, <1>6

-----------------------------------------------------------------------------
(* listOnTimeout().                                                        *)

(* Nothing enters a list, and no timer's watcher is started.               *)
Lessens(m, r) ==
    /\ \A u \in Objects : /\ r.timer[u].kind = m.timer[u].kind
                          /\ r.timer[u].cleared = m.timer[u].cleared
                          /\ Flags(m.timer[u]) => Flags(r.timer[u])
    /\ \A k \in ListIds : \A u \in Items(r, k) : u \in Items(m, k)
    /\ \A e \in Range(r.heap) : e.w.of = "timer" => e \in Range(m.heap)
LEMMA LessIsSound ==
    ASSUME NEW m, State(m), NEW r, Sound(r), Lessens(m, r) PROVE State(r)
<1>s. Flagged(m) /\ Numbered(m) /\ Apart(m) /\ m \in Machine
    BY DEF State, Sound
<1>1. Flagged(r)
  <2>1. \A u \in Objects : Flags(r.timer[u])
      BY <1>s DEF Lessens, Flagged
  <2>2. ASSUME NEW k \in ListIds, NEW u \in Items(r, k), r.timer[u].kind = "timeout"
        PROVE  ~r.timer[u].cleared
    <3>1. u \in Items(m, k)
        BY DEF Lessens
    <3>2. u \in Objects
        BY <1>s, <3>1, ItemTimers
    <3> QED
        BY <1>s, <2>2, <3>1, <3>2 DEF Lessens, Flagged
  <2> QED
      BY <2>1, <2>2 DEF Flagged
<1>2. Numbered(r)
    BY <1>s DEF Lessens, Numbered
<1>3. Apart(r)
  <2>1. ASSUME NEW e \in Range(r.heap), NEW u \in Objects, e.w = OfTimer(u), NEW l \in ListIds
        PROVE  u \notin Items(r, l)
    <3>1. e \in Range(m.heap)
        BY <2>1 DEF Lessens, OfTimer
    <3>2. u \notin Items(m, l)
        BY <1>s, <2>1, <3>1 DEF Apart
    <3> QED
        BY <3>2 DEF Lessens
  <2> QED
      BY <2>1 DEF Apart
<1> QED
    BY <1>1, <1>2, <1>3 DEF State

(* The first timers of a list leave it, and a callback runs or none.       *)
Shortened(m, l, q, w) == [m EXCEPT !.list[l].items = q, !.running = w]
Shortens(m, r, l, q, w) ==
    /\ State(r) /\ r.running = w /\ r.ticks = m.ticks /\ r.timer = m.timer
    /\ r.lists = m.lists /\ r.heap = m.heap
    /\ r.list[l].items = q /\ r.list[l].open = m.list[l].open /\ r.list[l].msecs = m.list[l].msecs
    /\ Items(r, l) = Range(q)
    /\ \A k \in ListIds : /\ k # l => r.list[k] = m.list[k]
                          /\ \A u : u \in Items(r, k) => u \in Items(m, k)
                          /\ Wakes(m, k) => Wakes(r, k)
    /\ \A u \in Objects : Kept(m, u) /\ (u \in Items(m, l) => u \in Range(q)) => Kept(r, u)
LEMMA ShortSound ==
    ASSUME NEW m, State(m), NEW l \in ListIds, NEW q \in Seq(Objects),
           Within(q, m.list[l].items), \A u \in Range(q) : u \in Items(m, l),
           NEW w \in Running, NEW r, r = Shortened(m, l, q, w)
    PROVE  Shortens(m, r, l, q, w)
<1> DEFINE L == [m.list EXCEPT ![l].items = q]
           n == [m EXCEPT !.list = L]
<1>1. Sound(m) /\ m \in Machine /\ m.list[l] \in ListObject /\ m.list \in [ListIds -> ListObject]
    BY DEF State, Sound, Machine
<1>2. L \in [ListIds -> ListObject]
    BY <1>1, Zenon DEF ListObject
<1>3. /\ L[l].items = q /\ L[l].open = m.list[l].open /\ L[l].msecs = m.list[l].msecs
      /\ \A k \in ListIds : k # l => L[k] = m.list[k]
    BY <1>1 DEF ListObject
<1> HIDE DEF L
<1>4. ASSUME NEW k \in ListIds PROVE Thinner(L, m.list, k)
  <2>1. CASE k = l
      BY <1>3, <2>1 DEF Thinner, Items
  <2>2. CASE k # l
      BY <1>3, <2>2, WithinSelf DEF Thinner
  <2> QED
      BY <2>1, <2>2
<1>5. /\ Sound(n) /\ n.timer = m.timer /\ n.lists = m.lists /\ n.list = L
      /\ n.running = m.running /\ n.ticks = m.ticks /\ n.heap = m.heap
      /\ \A k \in ListIds : Wakes(m, k) => Wakes(n, k)
    BY <1>1, <1>2, <1>4, ThinSound
<1>6. r = [n EXCEPT !.running = w]
    BY <1>1 DEF Shortened, L, Machine
<1> HIDE DEF n
<1>7. /\ r \in Machine /\ r.running = w /\ r.timer = n.timer /\ r.lists = n.lists
      /\ r.list = n.list /\ r.ticks = n.ticks /\ r.heap = n.heap
    BY <1>5, <1>6, Zenon DEF Sound, Machine
<1>8. Sound(r)
  <2>1. Exclusive(r) /\ Collected(r) /\ TableSound(r) /\ HeapSound(r)
      BY <1>5, <1>7 DEF Sound, Exclusive, Collected, Follows, TableSound, Items, HeapSound, EntrySound
  <2>2. \A k \in ListIds : ListSound(r, k)
      BY <1>5, <1>7 DEF Sound, ListSound, Ordered, Before, Held, Items
  <2>3. \A u \in Objects : TimerSound(r, u)
      BY <1>5, <1>7 DEF Sound, TimerSound
  <2> QED
      BY <1>7, <2>1, <2>2, <2>3 DEF Sound
<1>9. \A k \in ListIds : Wakes(m, k) => Wakes(r, k)
    BY <1>5, <1>7 DEF Wakes, Items
<1>10. Items(r, l) = Range(q) /\ \A k \in ListIds : k # l => Items(r, k) = Items(m, k)
    BY <1>3, <1>5, <1>7 DEF Items
<1>11. \A k \in ListIds : \A u : u \in Items(r, k) => u \in Items(m, k)
    BY <1>10
<1>12. State(r)
  <2>1. Lessens(m, r)
      BY <1>5, <1>7, <1>11 DEF Lessens
  <2> QED
      BY <1>8, <2>1, LessIsSound
<1>13. ASSUME NEW u \in Objects, Kept(m, u), u \in Items(m, l) => u \in Range(q) PROVE Kept(r, u)
  <2>1. (\E k \in ListIds : u \in Items(m, k)) => \E k \in ListIds : u \in Items(r, k)
      BY <1>10, <1>13
  <2> QED
      BY <1>5, <1>7, <1>13, <2>1 DEF Kept
<1> QED
    BY <1>3, <1>5, <1>7, <1>9, <1>10, <1>11, <1>12, <1>13 DEF Shortens

(* The first timers of a list are done for: when they are gone, the others *)
(* are still kept.                                                         *)
LEMMA DoneFor ==
    ASSUME NEW m, State(m), NEW l \in ListIds, NEW n \in 1 .. Len(m.list[l].items) + 1,
           \A j \in DOMAIN m.list[l].items : j < n => ~Callable(m, m.list[l].items[j]),
           NEW q, Range(q) = {m.list[l].items[k] : k \in n .. Len(m.list[l].items)},
           NEW u \in Objects, Kept(m, u)
    PROVE  \/ u \in Items(m, l) => u \in Range(q)
           \/ m.timer[u].cleared
<1> DEFINE items == m.list[l].items
<1>1. items \in Seq(Objects) /\ Flagged(m) /\ Sound(m) /\ m \in Machine
    BY DEF State, Sound, Machine, ListObject
<1> SUFFICES ASSUME u \in Items(m, l), u \notin Range(q) PROVE m.timer[u].cleared
    OBVIOUS
<1>2. PICK j \in DOMAIN items : items[j] = u
    BY DEF Items, Range
<1>3. j \notin n .. Len(items)
    BY <1>2
<1>4. j < n
  <2> HIDE DEF items
  <2> QED
      BY <1>1, <1>3
<1>5. ~m.timer[u].cb
    BY <1>2, <1>4 DEF Callable
<1>6. Held(m, l, u) /\ Flags(m.timer[u])
    BY <1>1 DEF Sound, ListSound, Flagged
<1> QED
    BY <1>5, <1>6 DEF Held, Flags, Calls

(* A callback that listOnTimeout() calls is due, was not cleared, and that *)
(* of the list's first timeout.                                            *)
Fires(m, l, u) ==
    /\ ~m.timer[u].cleared /\ now >= m.timer[u].since + m.timer[u].after
    /\ u \in Items(m, l) /\ \A t \in Items(m, l) : ~Follows(m, t, u)
Runs(m, r, l) ==
    /\ Whole(r)
    /\ \A u \in Objects : r.timer[u].fired > m.timer[u].fired => Fires(m, l, u)

(* All timers of the list were cleared.                                    *)
LEMMA RunToEnd ==
    ASSUME now \in Nat, NEW m, State(m), NEW l \in ListIds, Awake(m, l), AllKept(m, NoTimer),
           \A j \in DOMAIN m.list[l].items : ~Callable(m, m.list[l].items[j]),
           NEW r, r = ListEmpty(Shortened(m, l, <<>>, NotRunning), l)
    PROVE  Runs(m, r, l)
<1> DEFINE n == Shortened(m, l, <<>>, NotRunning)
<1>s. Sound(m) /\ m \in Machine /\ \A u \in Objects : Kept(m, u)
    BY TimersAssumption DEF State, Sound, AllKept, NoTimer
<1>1. NotRunning \in Running
    BY DEF NotRunning, Running
<1>2. /\ <<>> \in Seq(Objects) /\ \A u : u \notin Range(<<>>)
      /\ Within(<<>>, m.list[l].items)
  <2>1. <<>> \in Seq(Objects)
      OBVIOUS
  <2>2. \A u : u \notin Range(<<>>)
      BY <2>1, NoItems, Zenon
  <2>3. Within(<<>>, m.list[l].items)
      BY DEF Within
  <2> QED
      BY <2>1, <2>2, <2>3
<1>3. Shortens(m, n, l, <<>>, NotRunning)
    BY <1>1, <1>2, ShortSound, Zenon
<1> HIDE DEF n
<1>4. /\ State(n) /\ n.running = NotRunning /\ n.ticks = m.ticks /\ n.timer = m.timer
      /\ n.heap = m.heap
      /\ n.list[l].items = <<>> /\ n.list[l].msecs = m.list[l].msecs
      /\ \A k \in ListIds : /\ k # l => n.list[k] = m.list[k]
                            /\ Wakes(m, k) => Wakes(n, k)
      /\ \A u \in Objects : Kept(m, u) /\ (u \in Items(m, l) => u \in Range(<<>>)) => Kept(n, u)
    BY <1>3 DEF Shortens
<1>5. \A u \in Objects : Kept(n, u)
  <2>1. ASSUME NEW u \in Objects PROVE Kept(n, u)
    <3>1. ~Callable(m, u) \/ u \notin Items(m, l)
        BY DEF Items, Range
    <3>2. CASE u \notin Items(m, l)
        BY <1>s, <1>4, <3>2
    <3>3. CASE ~Callable(m, u) /\ u \in Items(m, l)
      <4>1. Held(m, l, u) /\ Flags(m.timer[u])
          BY <1>s, <3>3 DEF State, Flagged, Sound, ListSound
      <4>2. n.timer[u].cleared
          BY <1>4, <3>3, <4>1 DEF Held, Flags, Calls, Callable
      <4> QED
          BY <4>2 DEF Kept
    <3> QED
        BY <3>1, <3>2, <3>3
  <2> QED
      BY <2>1
<1>6. Closes(n, r, l)
  <2>1. r = CloseList(n, l, n.list[l].msecs)
      BY DEF n, ListEmpty
  <2>2. Sound(n)
      BY <1>4 DEF State
  <2> QED
      BY <1>4, <2>1, <2>2, CloseListSound
<1>7. /\ Sound(r) /\ r.running = n.running /\ r.ticks = n.ticks /\ r.timer = n.timer
      /\ ~r.list[l].open
      /\ \A k \in ListIds : /\ k # l => r.list[k] = n.list[k]
                            /\ \A u : u \in Items(r, k) <=> u \in Items(n, k)
                            /\ k # l /\ Wakes(n, k) => Wakes(r, k)
      /\ \A u \in Objects : Kept(n, u) => Kept(r, u)
      /\ \A e \in Range(r.heap) : e \in Range(n.heap)
    BY <1>6 DEF Closes
<1>8. State(r)
  <2>1. Lessens(n, r)
      BY <1>7 DEF Lessens
  <2> QED
      BY <1>4, <1>7, <2>1, LessIsSound
<1>9. RunningSound(r)
    BY <1>4, <1>7 DEF RunningSound
<1>10. Awake(r, r.running.list)
  <2>1. ASSUME NEW k \in ListIds, r.list[k].open, k \notin Range(r.ticks) PROVE Wakes(r, k)
    <3>1. k # l /\ m.list[k].open /\ k \notin Range(m.ticks)
        BY <1>4, <1>7, <2>1
    <3>2. Wakes(m, k)
        BY <3>1 DEF Awake
    <3> QED
        BY <1>4, <1>7, <3>1, <3>2
  <2> QED
      BY <2>1 DEF Awake
<1>11. AllKept(r, r.running.timer)
    BY <1>5, <1>7 DEF AllKept
<1>12. \A u \in Objects : ~(r.timer[u].fired > m.timer[u].fired)
  <2>1. \A u \in Objects : m.timer[u].fired \in Nat
      BY <1>s DEF Machine, TimerObject
  <2> QED
      BY <1>4, <1>7, <2>1
<1> QED
    BY <1>8, <1>9, <1>10, <1>11, <1>12 DEF Whole, Runs

(* The list's first timer is not due.                                      *)
LEMMA RunToLater ==
    ASSUME now \in Nat, NEW m, State(m), NEW l \in ListIds, Awake(m, l), AllKept(m, NoTimer),
           NEW i \in DOMAIN m.list[l].items,
           \A j \in DOMAIN m.list[l].items : j < i => ~Callable(m, m.list[l].items[j]),
           NEW r, r = StartWatcher(Shortened(m, l, SubSeq(m.list[l].items, i, Len(m.list[l].items)),
                                             NotRunning),
                                   OfList(l),
                                   m.list[l].msecs - (now - m.timer[m.list[l].items[i]].start))
    PROVE  Runs(m, r, l)
<1> DEFINE items == m.list[l].items
           q == SubSeq(items, i, Len(items))
           t == items[i]
           ms == m.list[l].msecs
           left == ms - (now - m.timer[t].start)
           n == Shortened(m, l, q, NotRunning)
           e0 == [w |-> OfList(l), due |-> now + left]
<1>s. Sound(m) /\ m \in Machine /\ \A u \in Objects : Kept(m, u)
    BY TimersAssumption DEF State, Sound, AllKept, NoTimer
<1>i. items \in Seq(Objects) /\ i \in 1 .. Len(items) + 1 /\ i \in DOMAIN items
  <2>1. items \in Seq(Objects)
      BY <1>s DEF Machine, ListObject
  <2> HIDE DEF items
  <2>2. i \in DOMAIN items
      BY DEF items
  <2> QED
      BY <2>1, <2>2
<1>1. NotRunning \in Running
    BY DEF NotRunning, Running
<1>2. q \in Seq(Objects) /\ Within(q, items) /\ Range(q) = {items[k] : k \in i .. Len(items)}
  <2>1. Left(q, items, i, Objects)
    <3> HIDE DEF items
    <3> QED
      BY <1>i, RestOf
  <2> HIDE DEF q, items
  <2> QED
      BY <2>1 DEF Left
<1>3. t \in Items(m, l) /\ t \in Objects /\ Held(m, l, t) /\ m.list[l].open /\ ms \in Delays
  <2>1. t \in Items(m, l)
      BY <1>i DEF Items, Range
  <2>2. t \in Objects
      BY <1>i
  <2>3. Held(m, l, t)
      BY <1>s, <2>1 DEF Sound, ListSound
  <2>4. items # <<>>
    <3> HIDE DEF items
    <3> QED
      BY <1>i
  <2>5. m.list[l].open /\ ms \in Delays
      BY <1>s, <2>4 DEF Sound, ListSound
  <2> QED
      BY <2>1, <2>2, <2>3, <2>5
<1>4. ASSUME NEW u \in Range(q)
      PROVE  u \in Items(m, l) /\ m.timer[t].start <= m.timer[u].start
  <2>1. PICK k \in i .. Len(items) : u = items[k]
      BY <1>2
  <2>2. k \in DOMAIN items
    <3> HIDE DEF items
    <3> QED
      BY <1>i, <2>1
  <2>3. u \in Items(m, l) /\ u \in Objects
    <3>1. u \in Items(m, l)
        BY <2>1, <2>2, Zenon DEF Items, Range
    <3> QED
        BY <1>s, <3>1, ItemTimers
  <2>4. m.timer[u].start \in Nat
      BY <1>s, <2>3 DEF Machine, TimerObject
  <2>5. CASE k = i
    <3>1. u = t
        BY <2>1, <2>5, Zenon
    <3> HIDE DEF t, items
    <3> QED
        BY <2>3, <2>4, <3>1
  <2>6. CASE i < k
    <3>1. Before(m, t, u)
        BY <1>s, <1>i, <2>1, <2>2, <2>6 DEF Sound, ListSound, Ordered
    <3> QED
        BY <2>3, <3>1 DEF Before
  <2>7. k = i \/ i < k
    <3> HIDE DEF items
    <3> QED
      BY <1>i, <2>1
  <2> QED
      BY <2>5, <2>6, <2>7
<1>r. r = StartWatcher(n, OfList(l), left)
    OBVIOUS
<1>5. Shortens(m, n, l, q, NotRunning)
  <2>1. \A u \in Range(q) : u \in Items(m, l)
      BY <1>4
  <2> HIDE DEF q
  <2> QED
      BY <1>1, <1>2, <2>1, ShortSound
<1>6. \A u \in Objects : (u \in Items(m, l) => u \in Range(q)) \/ m.timer[u].cleared
  <2> HIDE DEF q
  <2> QED
      BY <1>i, <1>2, <1>s, DoneFor, Zenon
<1> HIDE DEF n, q, items
<1>7. /\ State(n) /\ n.running = NotRunning /\ n.ticks = m.ticks /\ n.timer = m.timer
      /\ n.heap = m.heap
      /\ n.list[l].open = m.list[l].open /\ n.list[l].msecs = ms /\ Items(n, l) = Range(q)
      /\ \A k \in ListIds : /\ k # l => n.list[k] = m.list[k]
                            /\ Wakes(m, k) => Wakes(n, k)
      /\ \A u \in Objects : Kept(m, u) /\ (u \in Items(m, l) => u \in Range(q)) => Kept(n, u)
    BY <1>5 DEF Shortens
<1>8. \A u \in Objects : Kept(n, u)
  <2>1. ASSUME NEW u \in Objects, m.timer[u].cleared PROVE Kept(n, u)
      BY <1>7, <2>1 DEF Kept
  <2> QED
      BY <1>s, <1>6, <1>7, <2>1
<1>9. /\ now + left \in Nat /\ now + left = m.timer[t].start + ms /\ now + left <= now + ms
      /\ ms \in Nat /\ m.timer[t].start \in Nat
  <2>1. m.timer[t].start \in Nat /\ ms \in Nat /\ m.timer[t].start <= now
    <3>1. m.timer[t] \in TimerObject
        BY <1>s, <1>3 DEF Machine
    <3>2. TimerSound(m, t)
        BY <1>s, <1>3 DEF Sound
    <3>3. m.timer[t].start <= now
        BY <1>3, <3>2 DEF TimerSound, Held
    <3>4. ms \in Nat
        BY <1>3, TimersAssumption, Zenon
    <3> QED
        BY <3>1, <3>3, <3>4 DEF TimerObject
  <2> HIDE DEF t, ms
  <2> QED
      BY <2>1, SMTT(30)
<1> HIDE DEF left, t
<1>10. OfList(l) \in Watcher /\ EntrySound(n, e0) /\ e0.w = OfList(l) /\ e0.due = m.timer[t].start + ms
    BY <1>3, <1>7, <1>9, Zenon DEF OfList, Watcher, EntrySound
<1>11. Starts(n, r, OfList(l), left)
    BY <1>7, <1>9, <1>10, <1>r, StartSound, Zenon DEF State
<1>12. /\ Sound(r) /\ r.timer = n.timer /\ r.lists = n.lists /\ r.list = n.list
       /\ r.running = n.running /\ r.ticks = n.ticks
       /\ Range(r.heap) = {e \in Range(n.heap) : e.w # OfList(l)} \cup {e0}
       /\ \A k \in ListIds : Wakes(n, k) /\ OfList(l) # OfList(k) => Wakes(r, k)
       /\ \A u \in Objects : Kept(n, u) \/ OfList(l) = OfTimer(u) => Kept(r, u)
    BY <1>11, Zenon DEF Starts
<1> HIDE DEF e0
<1>13. State(r)
  <2>1. \A k \in ListIds : \A u \in Items(r, k) : u \in Items(n, k)
      BY <1>12, Zenon DEF Items
  <2>2. \A e \in Range(r.heap) : e.w.of = "timer" => e \in Range(n.heap)
    <3>1. e0.w.of = "list"
        BY <1>10 DEF OfList
    <3>2. \A e \in Range(r.heap) : e \in Range(n.heap) \/ e = e0
        BY <1>12, Zenon
    <3> QED
        BY <3>1, <3>2, Zenon
  <2>3. Lessens(n, r)
      BY <1>12, <2>1, <2>2, Zenon DEF Lessens
  <2> QED
      BY <1>7, <1>12, <2>3, LessIsSound, Zenon
<1>14. Wakes(r, l)
  <2>1. e0 \in Range(r.heap) /\ r.list[l].msecs = ms /\ Items(r, l) = Range(q) /\ r.timer = m.timer
      BY <1>7, <1>12, Zenon DEF Items
  <2>2. ASSUME NEW u \in Items(r, l) PROVE e0.due <= r.timer[u].start + ms
    <3>1. m.timer[t].start <= m.timer[u].start /\ u \in Objects
        BY <1>s, <1>4, <2>1, ItemTimers, Zenon
    <3>2. m.timer[u].start \in Nat
        BY <1>s, <3>1 DEF Machine, TimerObject
    <3>3. m.timer[t].start + ms <= m.timer[u].start + ms
        BY <1>9, <3>1, <3>2, SMTT(30)
    <3>4. r.timer[u].start = m.timer[u].start
        BY <2>1, Zenon
    <3> HIDE DEF ms
    <3> QED
        BY <1>10, <3>3, <3>4, Zenon
  <2> QED
      BY <1>9, <1>10, <2>1, <2>2, Zenon DEF Wakes
<1>15. Awake(r, r.running.list)
  <2>1. ASSUME NEW k \in ListIds, r.list[k].open, k \notin Range(r.ticks), k # l PROVE Wakes(r, k)
    <3>1. m.list[k].open /\ k \notin Range(m.ticks)
        BY <1>7, <1>12, <2>1, Zenon
    <3>2. Wakes(m, k)
        BY <2>1, <3>1, Zenon DEF Awake
    <3> QED
        BY <1>7, <1>12, <2>1, <3>2, Zenon DEF OfList
  <2> QED
      BY <1>14, <2>1, Zenon DEF Awake
<1>16. AllKept(r, r.running.timer)
    BY <1>8, <1>12, Zenon DEF AllKept
<1>17. RunningSound(r)
    BY <1>7, <1>12, Zenon DEF RunningSound
<1>18. \A u \in Objects : ~(r.timer[u].fired > m.timer[u].fired)
  <2>1. \A u \in Objects : m.timer[u].fired \in Nat
      BY <1>s DEF Machine, TimerObject
  <2>2. r.timer = m.timer
      BY <1>7, <1>12, Zenon
  <2>3. \A u \in Objects : ~(m.timer[u].fired > m.timer[u].fired)
      BY <2>1
  <2> QED
      BY <2>2, <2>3, Zenon
<1> QED
    BY <1>13, <1>15, <1>16, <1>17, <1>18, Zenon DEF Whole, Runs

(* What a run changes of its timer.                                        *)
LEMMA FiredFields ==
    ASSUME NEW o \in TimerObject
    PROVE  LET c == Fired(o)
           IN  /\ c \in TimerObject /\ c.kind = o.kind /\ c.after = o.after /\ c.idle = o.idle
               /\ c.start = o.start /\ c.since = o.since /\ c.handle = o.handle /\ c.fired = o.fired + 1
               /\ c.hcb = o.hcb /\ c.cleared = o.cleared /\ c.repeat = o.repeat /\ c.cb = o.cb
<1> DEFINE d == [o EXCEPT !.fired = @ + 1]
           c == [d EXCEPT !.threw = FALSE]
<1>1. /\ d \in TimerObject /\ d.kind = o.kind /\ d.after = o.after /\ d.idle = o.idle
      /\ d.start = o.start /\ d.since = o.since /\ d.handle = o.handle /\ d.fired = o.fired + 1
    BY DEF TimerObject
<1>2. d.hcb = o.hcb /\ d.cleared = o.cleared /\ d.repeat = o.repeat /\ d.cb = o.cb
    BY Zenon DEF TimerObject
<1>3. Fired(o) = c
    BY DEF Fired
<1> HIDE DEF d
<1>4. /\ c \in TimerObject /\ c.kind = d.kind /\ c.after = d.after /\ c.idle = d.idle
      /\ c.start = d.start /\ c.since = d.since /\ c.handle = d.handle /\ c.fired = d.fired
      /\ c.hcb = d.hcb /\ c.cleared = d.cleared /\ c.repeat = d.repeat /\ c.cb = d.cb
    BY <1>1, Zenon DEF TimerObject
<1> HIDE DEF c
<1> QED
    BY <1>1, <1>2, <1>3, <1>4

(* A callback runs.                                                        *)
Called(l, t) == [by |-> "list", list |-> l, timer |-> t, now |-> now]
LEMMA RunToCallback ==
    ASSUME now \in Nat, NEW m, State(m), NEW l \in ListIds, Awake(m, l), AllKept(m, NoTimer),
           NEW i \in DOMAIN m.list[l].items,
           \A j \in DOMAIN m.list[l].items : j < i => ~Callable(m, m.list[l].items[j]),
           Callable(m, m.list[l].items[i]), DueAt(m, m.list[l].items[i], m.list[l].msecs, now),
           NEW r,
           r = [m EXCEPT !.list[l].items = Behind(m.list[l].items, i),
                         !.running = [by |-> "list", list |-> l,
                                      timer |-> m.list[l].items[i], now |-> now],
                         !.timer[m.list[l].items[i]] = Fired(@)]
    PROVE  Runs(m, r, l)
<1> DEFINE items == m.list[l].items
           q == SubSeq(items, i + 1, Len(items))
           t == items[i]
           o == m.timer[t]
           w == Called(l, t)
           c == Fired(o)
           n == Shortened(m, l, q, w)
<1>s. Sound(m) /\ m \in Machine /\ Flagged(m) /\ Apart(m) /\ \A u \in Objects : Kept(m, u)
    BY TimersAssumption DEF State, Sound, AllKept, NoTimer
<1>i. /\ items \in Seq(Objects) /\ i \in DOMAIN items /\ i + 1 \in 1 .. Len(items) + 1
      /\ \A j \in DOMAIN items : j < i + 1 => j < i \/ j = i
  <2>1. items \in Seq(Objects)
      BY <1>s DEF Machine, ListObject
  <2> HIDE DEF items
  <2>2. i \in DOMAIN items
      BY DEF items
  <2> QED
      BY <2>1, <2>2
<1>1. t \in Items(m, l) /\ t \in Objects /\ Held(m, l, t)
  <2>1. t \in Items(m, l)
      BY <1>i DEF Items, Range
  <2> QED
      BY <1>i, <1>s, <2>1 DEF Sound, ListSound
<1>2. /\ o \in TimerObject /\ o.kind # "none" /\ o.after = m.list[l].msecs /\ o.since <= o.start
      /\ o.after \in Delays /\ o.idle \in {o.after, -1} /\ o.start <= now
      /\ o.kind = "timeout" => o.fired = 0 /\ o.handle = "none"
      /\ Flags(o) /\ Calls(o) /\ o.cb /\ ~o.cleared
  <2>1. o \in TimerObject /\ TimerSound(m, t) /\ Flags(o)
      BY <1>s, <1>1 DEF Machine, Sound, Flagged
  <2>2. o.cb
      BY DEF Callable
  <2> QED
      BY <1>1, <2>1, <2>2, Zenon DEF Held, TimerSound, Flags, Calls
<1>3. w \in Running
    BY <1>1 DEF Called, Running
<1>4. q \in Seq(Objects) /\ Within(q, items) /\ Range(q) = {items[k] : k \in i + 1 .. Len(items)}
  <2>1. Left(q, items, i + 1, Objects)
    <3> HIDE DEF items
    <3> QED
      BY <1>i, RestOf
  <2> HIDE DEF q, items
  <2> QED
      BY <2>1 DEF Left
<1>5. ASSUME NEW u \in Range(q) PROVE u \in Items(m, l) /\ u # t
  <2>1. PICK k \in i + 1 .. Len(items) : u = items[k]
      BY <1>4
  <2>2. k \in DOMAIN items /\ i < k
    <3> HIDE DEF items
    <3> QED
      BY <1>i, <2>1, SMTT(30)
  <2>3. u \in Items(m, l)
      BY <2>1, <2>2 DEF Items, Range
  <2>4. Before(m, t, u)
      BY <1>s, <1>i, <2>1, <2>2 DEF Sound, ListSound, Ordered
  <2> QED
      BY <2>3, <2>4 DEF Before
<1>6. Shortens(m, n, l, q, w)
  <2>1. \A u \in Range(q) : u \in Items(m, l)
      BY <1>5
  <2> HIDE DEF q, w
  <2> QED
      BY <1>3, <1>4, <2>1, ShortSound
<1>7. \A u \in Items(m, l) : u = t \/ u \in Range(q) \/ ~Callable(m, u)
  <2>1. ASSUME NEW u \in Items(m, l) PROVE u = t \/ u \in Range(q) \/ ~Callable(m, u)
    <3>1. PICK j \in DOMAIN items : items[j] = u
        BY DEF Items, Range
    <3>2. j \in i + 1 .. Len(items) \/ j = i \/ j < i
      <4> HIDE DEF items
      <4> QED
        BY <1>i
    <3>3. j < i => ~Callable(m, u)
        BY <3>1
    <3> HIDE DEF q, items
    <3>4. j = i => u = t
        BY <3>1
    <3> QED
        BY <1>4, <3>1, <3>2, <3>3, <3>4
  <2> QED
      BY <2>1
<1>8. r = Changed(n, t, c)
  <2>1. q = Behind(items, i)
      BY DEF Behind
  <2>2. m.list \in [ListIds -> ListObject] /\ m.timer \in [Objects -> TimerObject]
      BY <1>s DEF Machine
  <2> DEFINE L == [m.list EXCEPT ![l].items = q]
             T == [m.timer EXCEPT ![t] = Fired(@)]
  <2>3. r = [m EXCEPT !.list = L, !.running = w, !.timer = T]
      BY <2>1, Zenon DEF Called
  <2>4. n = [m EXCEPT !.list = L, !.running = w]
      BY DEF Shortened
  <2>5. T = [m.timer EXCEPT ![t] = c]
      BY <2>2
  <2>6. n.timer = m.timer
      BY <1>6, Zenon DEF Shortens
  <2> HIDE DEF T, L, w, c, t, n
  <2>7. Changed(n, t, c) = [n EXCEPT !.timer = T]
      BY <2>5, <2>6 DEF Changed
  <2> QED
      BY <1>s, <2>3, <2>4, <2>7, Zenon DEF Machine
<1>w. w.by = "list" /\ w.list = l /\ w.timer = t /\ w.now = now
    BY DEF Called
<1> HIDE DEF n, q, w
<1>9. /\ State(n) /\ n.running = w /\ n.ticks = m.ticks /\ n.timer = m.timer
      /\ n.heap = m.heap /\ Items(n, l) = Range(q)
      /\ \A k \in ListIds : /\ k # l => n.list[k] = m.list[k]
                            /\ \A u : u \in Items(n, k) => u \in Items(m, k)
                            /\ Wakes(m, k) => Wakes(n, k)
      /\ \A u \in Objects : Kept(m, u) /\ (u \in Items(m, l) => u \in Range(q)) => Kept(n, u)
    BY <1>6 DEF Shortens
<1>10. \A k \in ListIds : t \notin Items(n, k)
  <2>1. ASSUME NEW k \in ListIds, t \in Items(n, k) PROVE FALSE
    <3>1. k = l
        BY <1>s, <1>1, <1>9, <2>1 DEF Sound, Exclusive
    <3>2. t \in Range(q)
        BY <1>9, <2>1, <3>1
    <3> HIDE DEF t
    <3> QED
        BY <1>5, <3>2
  <2> QED
      BY <2>1
<1> HIDE DEF t
<1>11. \A u \in Objects : u # t => Kept(n, u)
  <2>1. ASSUME NEW u \in Objects, u \in Items(m, l), ~Callable(m, u) PROVE Kept(n, u)
    <3>1. Held(m, l, u) /\ Flags(m.timer[u])
        BY <1>s, <2>1 DEF Flagged, Sound, ListSound
    <3>2. n.timer[u].cleared
        BY <1>9, <2>1, <3>1, Zenon DEF Held, Flags, Calls, Callable
    <3> QED
        BY <3>2 DEF Kept
  <2> QED
      BY <1>s, <1>7, <1>9, <2>1
<1>12. /\ c \in TimerObject /\ c.kind = o.kind /\ c.after = o.after /\ c.idle = o.idle
       /\ c.start = o.start /\ c.since = o.since /\ c.handle = o.handle /\ c.fired = o.fired + 1
    BY <1>2, FiredFields
<1>13. c.hcb = o.hcb /\ c.cleared = o.cleared /\ c.repeat = o.repeat /\ c.cb = o.cb
    BY <1>2, FiredFields, Zenon
<1> HIDE DEF c
<1>14. Changes(n, r, t, c)
  <2>1. \A e \in Range(n.heap) : e.w # OfTimer(t)
      BY <1>s, <1>1, <1>9 DEF Apart
  <2>2. Sound(n)
      BY <1>9 DEF State
  <2> HIDE DEF o
  <2> QED
      BY <1>1, <1>2, <1>8, <1>10, <1>12, <2>1, <2>2, TimerChanges, Zenon
<1>15. /\ Sound(r) /\ r.lists = n.lists /\ r.list = n.list
       /\ r.running = n.running /\ r.ticks = n.ticks /\ r.heap = n.heap
       /\ r.timer[t] = c /\ \A u \in Objects : u # t => r.timer[u] = n.timer[u]
       /\ \A k \in ListIds : Wakes(n, k) => Wakes(r, k)
       /\ \A u \in Objects : Kept(n, u) /\ u # t => Kept(r, u)
    BY <1>14, Zenon DEF Changes
<1>16. Flags(c)
  <2>1. o.kind = "timeout" => c.fired <= 1
      BY <1>2, <1>12
  <2> QED
      BY <1>2, <1>12, <1>13, <2>1 DEF Flags, Calls
<1>17. State(r)
  <2>1. \A k \in ListIds : \A u \in Items(r, k) : u \in Items(n, k)
      BY <1>15, Zenon DEF Items
  <2>2. \A u \in Objects : /\ r.timer[u].kind = n.timer[u].kind
                           /\ r.timer[u].cleared = n.timer[u].cleared
                           /\ Flags(n.timer[u]) => Flags(r.timer[u])
    <3>1. ASSUME NEW u \in Objects
          PROVE  /\ r.timer[u].kind = n.timer[u].kind
                 /\ r.timer[u].cleared = n.timer[u].cleared
                 /\ Flags(n.timer[u]) => Flags(r.timer[u])
      <4>1. CASE u = t
          BY <1>9, <1>12, <1>13, <1>15, <1>16, <4>1, Zenon
      <4>2. CASE u # t
          BY <1>15, <4>2, Zenon
      <4> QED
          BY <4>1, <4>2, Zenon
    <3> QED
        BY <3>1, Zenon
  <2>3. Lessens(n, r)
      BY <1>15, <2>1, <2>2, Zenon DEF Lessens
  <2> QED
      BY <1>9, <1>15, <2>3, LessIsSound, Zenon
<1>18. RunningSound(r)
  <2>1. \A k \in ListIds : t \notin Items(r, k)
      BY <1>10, <1>15, Zenon DEF Items
  <2>2. c.fired > 0
    <3>1. o.fired \in Nat
        BY <1>2 DEF TimerObject
    <3> HIDE DEF o
    <3> QED
        BY <1>12, <3>1
  <2>3. r.running = w /\ r.timer[t].kind # "none" /\ r.timer[t].fired > 0
      BY <1>2, <1>9, <1>12, <1>15, <2>2, Zenon
  <2> QED
      BY <1>1, <1>w, <2>1, <2>3, Zenon DEF RunningSound
<1>19. Awake(r, r.running.list)
  <2>1. ASSUME NEW k \in ListIds, r.list[k].open, k \notin Range(r.ticks), k # l PROVE Wakes(r, k)
    <3>1. m.list[k].open /\ k \notin Range(m.ticks)
        BY <1>9, <1>15, <2>1, Zenon
    <3>2. Wakes(m, k)
        BY <2>1, <3>1 DEF Awake
    <3> QED
        BY <1>9, <1>15, <3>2, Zenon
  <2>2. r.running.list = l
      BY <1>9, <1>15, <1>w, Zenon
  <2> QED
      BY <2>1, <2>2, Zenon DEF Awake
<1>20. AllKept(r, r.running.timer)
  <2>1. r.running.timer = t
      BY <1>9, <1>15, <1>w, Zenon
  <2> QED
      BY <1>11, <1>15, <2>1, Zenon DEF AllKept
<1>21. ASSUME NEW u \in Objects, r.timer[u].fired > m.timer[u].fired PROVE Fires(m, l, u)
  <2>1. u = t
    <3>1. m.timer[u].fired \in Nat
        BY <1>s DEF Machine, TimerObject
    <3>2. u # t => r.timer[u].fired = m.timer[u].fired /\ r.timer[u].threw = m.timer[u].threw
        BY <1>9, <1>15, Zenon
    <3>3. ~(m.timer[u].fired > m.timer[u].fired)
        BY <3>1
    <3> QED
        BY <1>21, <3>2, <3>3
  <2>2. now >= o.since + o.after
    <3>1. now - o.start >= o.after
        BY <1>2, Zenon DEF DueAt, t
    <3>2. o.since \in Nat /\ o.start \in Nat /\ o.after \in Nat
      <4> HIDE DEF o
      <4>1. o.since \in Nat /\ o.start \in Nat
          BY <1>2 DEF TimerObject
      <4> QED
          BY <1>2, <4>1, TimersAssumption
    <3> HIDE DEF o
    <3> QED
        BY <1>2, <3>1, <3>2
  <2>3. ASSUME NEW x \in Items(m, l), Follows(m, x, t) PROVE FALSE
    <3>1. x \in Objects
        BY <1>s, ItemTimers
    <3>2. x < t /\ m.timer[x].kind = "timeout" /\ m.timer[t].kind = "timeout"
        BY <2>3 DEF Follows
    <3>3. Callable(m, x)
      <4>1. ~m.timer[x].cleared /\ Flags(m.timer[x])
          BY <1>s, <3>1, <3>2 DEF Flagged
      <4> QED
          BY <3>2, <4>1 DEF Flags, Calls, Callable
    <3>4. PICK j \in DOMAIN items : items[j] = x
        BY DEF Items, Range
    <3>5. ~(j < i)
        BY <3>3, <3>4
    <3>6. j # i
        BY <1>1, <3>2, <3>4, TimersAssumption DEF t
    <3>7. i < j
      <4> HIDE DEF items
      <4> QED
        BY <1>i, <3>5, <3>6
    <3>8. Before(m, t, x)
        BY <1>s, <1>i, <3>4, <3>7 DEF Sound, ListSound, Ordered, t
    <3>9. t < x
        BY <3>2, <3>8 DEF Before
    <3> QED
        BY <1>1, <3>1, <3>2, <3>9, TimersAssumption
  <2> QED
      BY <1>1, <1>2, <2>1, <2>2, <2>3 DEF Fires
<1> QED
    BY <1>17, <1>18, <1>19, <1>20, <1>21, Zenon DEF Whole, Runs

LEMMA RunListSound ==
    ASSUME now \in Nat, NEW m, State(m), NEW l \in ListIds, Awake(m, l), AllKept(m, NoTimer),
           NEW r, r = RunList(m, l, now)
    PROVE  Runs(m, r, l)
<1> DEFINE items == m.list[l].items
           ms    == m.list[l].msecs
           stops == {i \in DOMAIN items : \/ ~DueAt(m, items[i], ms, now)
                                          \/ Callable(m, items[i])}
           i     == CHOOSE i \in stops : \A j \in stops : i <= j
           idle  == [m EXCEPT !.running = NotRunning]
<1>1. items \in Seq(Objects) /\ DOMAIN items \in SUBSET Nat /\ m \in Machine
    BY DEF State, Sound, Machine, ListObject
<1>2. CASE stops = {}
  <2>1. \A j \in DOMAIN items : ~Callable(m, items[j])
      BY <1>2
  <2>2. r = ListEmpty([idle EXCEPT !.list[l].items = <<>>], l)
      BY <1>2, Zenon DEF RunList
  <2>3. [idle EXCEPT !.list[l].items = <<>>] = Shortened(m, l, <<>>, NotRunning)
      BY <1>1, Zenon DEF Machine, Shortened
  <2> QED
      BY <2>1, <2>2, <2>3, RunToEnd
<1>3. CASE stops # {}
  <2>1. i \in stops /\ \A j \in stops : i <= j
    <3>1. stops \in SUBSET Nat
        BY <1>1
    <3> HIDE DEF stops
    <3> QED
        BY <1>3, <3>1, LeastOf DEF Min
  <2>2. i \in DOMAIN items /\ \A j \in DOMAIN items : j < i => DueAt(m, items[j], ms, now) /\ ~Callable(m, items[j])
    <3>1. ASSUME NEW j \in DOMAIN items, j < i PROVE j \notin stops
      <4> HIDE DEF stops, i, items
      <4>1. i \in Nat /\ j \in Nat
          BY <1>1, <2>1, <3>1 DEF stops
      <4> QED
          BY <2>1, <3>1, <4>1
    <3> QED
        BY <2>1, <3>1, Zenon
  <2>3. CASE ~DueAt(m, items[i], ms, now)
    <3>1. r = StartWatcher([idle EXCEPT !.list[l].items = SubSeq(items, i, Len(items))],
                           OfList(l), RestartAfter(ms, now - m.timer[items[i]].start))
        BY <1>3, <2>3, Zenon DEF RunList
    <3> HIDE DEF i
    <3>2. [idle EXCEPT !.list[l].items = SubSeq(items, i, Len(items))]
            = Shortened(m, l, SubSeq(items, i, Len(items)), NotRunning)
        BY <1>1, Zenon DEF Machine, Shortened
    <3> QED
        BY <2>2, <3>1, <3>2, RunToLater, Zenon DEF RestartAfter
  <2>4. CASE DueAt(m, items[i], ms, now)
    <3>1. r = [m EXCEPT !.list[l].items = Behind(items, i),
                        !.running = [by |-> "list", list |-> l, timer |-> items[i], now |-> now],
                        !.timer[items[i]] = Fired(@)]
        BY <1>3, <2>4, Zenon DEF RunList
    <3>2. Callable(m, items[i])
        BY <2>1, <2>4, Zenon
    <3> HIDE DEF i
    <3> QED
        BY <2>2, <2>4, <3>1, <3>2, RunToCallback, Zenon
  <2> QED
      BY <2>3, <2>4
<1> QED
    BY <1>2, <1>3

-----------------------------------------------------------------------------
(* The actions.                                                            *)

(* The variables become those of a machine that is as it must be.          *)
LEMMA BecomeWhole ==
    ASSUME TimersInv, UNCHANGED now, NEW m, Whole(m), Become(m)
    PROVE  TimersInv' /\ Here' = m
<1>1. m \in Machine
    BY DEF Whole, State, Sound
<1>2. Here' = m
    BY <1>1 DEF Machine, Become, Here
<1>3. Exclusive(Here)' /\ Collected(Here)' /\ TableSound(Here)' /\ HeapSound(Here)' /\ Here' \in Machine
    BY <1>1, <1>2 DEF Whole, State, Sound, Exclusive, Collected, Follows, TableSound, HeapSound,
                      EntrySound, Items
<1>4. (\A l \in ListIds : ListSound(Here, l))' /\ (\A t \in Objects : TimerSound(Here, t))'
    BY <1>2 DEF Whole, State, Sound, ListSound, Ordered, Before, Held, TimerSound, Items
<1>5. Flagged(Here)' /\ Numbered(Here)' /\ Apart(Here)'
    BY <1>2 DEF Whole, State, Flagged, Numbered, Apart, Items
<1>6. RunningSound(Here)'
    BY <1>2 DEF Whole, RunningSound, Items
<1>7. Awake(Here, Here.running.list)'
    BY <1>2 DEF Whole, Awake, Wakes, Items
<1>8. AllKept(Here, Here.running.timer)'
    BY <1>2 DEF Whole, AllKept, Kept, Items
<1>9. State(Here)'
    BY <1>3, <1>4, <1>5 DEF State, Sound
<1>10. now' \in Nat
    BY DEF TimersInv
<1> QED
    BY <1>2, <1>6, <1>7, <1>8, <1>9, <1>10 DEF TimersInv, Whole

(* What a step may never do: call back a timer that was cleared, or before *)
(* its time, or from a list before an earlier timeout of the delay's list. *)
InTurn(u) ==
    running'.by = "list" =>
      \A t \in Objects : Follows(Here, t, u) =>
        ~\E l \in ListIds : l = lists[timer[t].after] /\ t \in Items(Here, l)
MayCall(u) ==
    /\ ~timer[u].cleared /\ now >= timer[u].since + timer[u].after
    /\ InTurn(u)
Keeps ==
    /\ TimersInv'
    /\ \A u \in Objects : timer'[u].fired > timer[u].fired => MayCall(u)

LEMMA StillKeeps ==
    ASSUME TimersInv, UNCHANGED now, NEW m, Whole(m), Become(m),
           \A u \in Objects : ~(m.timer[u].fired > timer[u].fired)
    PROVE  Keeps
<1>1. TimersInv'
    BY BecomeWhole
<1>2. timer' = m.timer
    BY DEF Become
<1> QED
    BY <1>1, <1>2 DEF Keeps

LEMMA SetTimerKeeps == ASSUME TimersInv, SetTimer PROVE Keeps
<1>1. PICK t \in Objects \ Used, kind \in Kinds, after \in Delays :
             /\ \A u \in Objects \ Used : t <= u
             /\ Become(NewTimer(Here, t, kind, after))
    BY DEF SetTimer
<1>2. /\ Here.timer = timer /\ Free(Here) # {} /\ now' = now /\ Whole(Here) /\ now \in Nat
      /\ Here.timer[t].kind = "none" /\ \A u \in Objects : Here.timer[u].kind = "none" => t <= u
    BY <1>1 DEF Here, Used, SetTimer, TimersInv
<1> DEFINE m == NewTimer(Here, t, kind, after)
<1>3. Whole(m) /\ \A u \in Objects : m.timer[u].fired > Here.timer[u].fired => FALSE
    BY <1>2, NewTimerWhole
<1> HIDE DEF m
<1> QED
    BY <1>1, <1>2, <1>3, StillKeeps DEF m

LEMMA CallsKeep == ASSUME TimersInv, ClearTimer \/ UnrefTimer \/ RefTimer PROVE Keeps
<1>1. Here.timer = timer /\ now' = now /\ Whole(Here) /\ now \in Nat
    BY DEF Here, ClearTimer, UnrefTimer, RefTimer, TimersInv
<1>2. PICK t \in Used : Become(Clear(Here, t)) \/ Become(Unref(Here, t)) \/ Become(Ref(Here, t))
    BY DEF ClearTimer, UnrefTimer, RefTimer
<1>3. t \in Objects /\ Here.timer[t].kind # "none"
    BY <1>1 DEF Used
<1>4. PICK m : Become(m) /\ Still(Here, m)
  <2>1. Still(Here, Clear(Here, t)) /\ Still(Here, Unref(Here, t)) /\ Still(Here, Ref(Here, t))
      BY <1>1, <1>3, ClearWhole, UnrefWhole, RefWhole
  <2> QED
      BY <1>2, <2>1
<1> QED
    BY <1>1, <1>4, StillKeeps DEF Still

-----------------------------------------------------------------------------
(* A callback that runs, and the one that runs next.                       *)

(* What runs and what waits for a tick changes.                            *)
Turned(m, w, q) == [m EXCEPT !.running = w, !.ticks = q]
Turns(m, r, w, q) ==
    /\ State(r) /\ r.running = w /\ r.ticks = q /\ r.timer = m.timer
    /\ r.lists = m.lists /\ r.list = m.list /\ r.heap = m.heap
    /\ \A l \in ListIds : Wakes(m, l) => Wakes(r, l)
    /\ \A u \in Objects : Kept(m, u) => Kept(r, u)
LEMMA TurnSound ==
    ASSUME NEW m, State(m), NEW w \in Running, NEW q \in Seq(ListIds), NEW r, r = Turned(m, w, q)
    PROVE  Turns(m, r, w, q)
<1>1. Sound(m) /\ m \in Machine
    BY DEF State, Sound
<1>2. /\ r \in Machine /\ r.running = w /\ r.timer = m.timer /\ r.lists = m.lists
      /\ r.list = m.list /\ r.ticks = q /\ r.heap = m.heap
    BY <1>1, Zenon DEF Machine, Turned
<1>3. Sound(r)
  <2>1. Exclusive(r) /\ Collected(r) /\ TableSound(r) /\ HeapSound(r)
      BY <1>1, <1>2 DEF Sound, Exclusive, Collected, Follows, TableSound, Items, HeapSound, EntrySound
  <2>2. \A k \in ListIds : ListSound(r, k)
      BY <1>1, <1>2 DEF Sound, ListSound, Ordered, Before, Held, Items
  <2>3. \A u \in Objects : TimerSound(r, u)
      BY <1>1, <1>2 DEF Sound, TimerSound
  <2> QED
      BY <1>2, <2>1, <2>2, <2>3 DEF Sound
<1>4. State(r)
  <2>1. Lessens(m, r)
      BY <1>2 DEF Lessens, Items
  <2> QED
      BY <1>3, <2>1, LessIsSound
<1>5. \A l \in ListIds : Wakes(m, l) => Wakes(r, l)
    BY <1>2 DEF Wakes, Items
<1>6. \A u \in Objects : Kept(m, u) => Kept(r, u)
    BY <1>2 DEF Kept, Items
<1> QED
    BY <1>2, <1>4, <1>5, <1>6 DEF Turns

(* A machine in which timeouts are where they are here.                    *)
Alike(m) ==
    /\ \A u \in Objects :
         /\ m.timer[u].kind = timer[u].kind /\ m.timer[u].after = timer[u].after
         /\ m.timer[u].fired = timer[u].fired /\ m.timer[u].threw = timer[u].threw /\ m.timer[u].cleared = timer[u].cleared
         /\ m.timer[u].since \in {timer[u].since, now}
         /\ timer[u].kind = "timeout" =>
              \A k \in ListIds : u \in Items(m, k) <=> u \in Items(Here, k)
    /\ \A x \in Delays : lists[x] # NoList => m.lists[x] = lists[x]

(* listOnTimeout() calls the first timeout of its list.                    *)
LEMMA RunKeeps ==
    ASSUME TimersInv, UNCHANGED now, NEW m, State(m), Alike(m), NEW l \in ListIds,
           Awake(m, l), AllKept(m, NoTimer), Become(RunList(m, l, now))
    PROVE  Keeps
<1> DEFINE r == RunList(m, l, now)
<1>1. now \in Nat /\ Whole(Here) /\ Sound(Here) /\ Here \in Machine /\ Sound(m)
      /\ Here.timer = timer /\ Here.lists = lists /\ Here.list = list
    BY DEF TimersInv, Whole, State, Sound, Here
<1>2. Whole(r) /\ \A u \in Objects : r.timer[u].fired > m.timer[u].fired => Fires(m, l, u)
  <2>1. Runs(m, r, l)
      BY <1>1, RunListSound
  <2> QED
      BY <2>1 DEF Runs
<1> HIDE DEF r
<1>3. TimersInv' /\ timer' = r.timer
    BY <1>2, BecomeWhole DEF Become, r
<1>4. ASSUME NEW u \in Objects, timer'[u].fired > timer[u].fired PROVE MayCall(u)
  <2>1. Fires(m, l, u)
      BY <1>2, <1>3, <1>4 DEF Alike
  <2>2. ~timer[u].cleared /\ now >= m.timer[u].since + timer[u].after /\ u \in Items(m, l)
      BY <2>1 DEF Fires, Alike
  <2>3. now >= timer[u].since + timer[u].after
    <3>1. Held(m, l, u)
        BY <1>1, <2>2 DEF Sound, ListSound
    <3>2. timer[u].after \in Delays
      <4>1. TimerSound(m, u)
          BY <1>1 DEF Sound
      <4> QED
          BY <3>1, <4>1 DEF Held, TimerSound, Alike
    <3>3. ~(now >= now + timer[u].after)
      <4>1. \A x \in Delays : x \in Nat \ {0}
          BY TimersAssumption
      <4>2. \A x \in Nat \ {0} : ~(now >= now + x)
          BY <1>1
      <4> QED
          BY <3>2, <4>1, <4>2
    <3>4. m.timer[u].since \in {timer[u].since, now}
        BY DEF Alike
    <3> QED
        BY <2>2, <3>3, <3>4
  <2>4. InTurn(u)
    <3>1. ASSUME NEW t \in Objects, Follows(Here, t, u), NEW k \in ListIds,
                 k = lists[timer[t].after], t \in Items(Here, k)
          PROVE  FALSE
      <4>1. timer[t].kind = "timeout" /\ timer[u].kind = "timeout" /\ t < u
            /\ timer[t].after = timer[u].after
          BY <1>1, <3>1 DEF Follows
      <4>2. t \in Items(m, k)
          BY <3>1, <4>1 DEF Alike
      <4>3. Held(m, k, t)
          BY <1>1, <4>2 DEF Sound, ListSound
      <4>4. timer[t].after \in Delays
        <5>1. TimerSound(m, t)
            BY <1>1 DEF Sound
        <5> QED
            BY <4>3, <5>1 DEF Held, TimerSound, Alike
      <4>5. m.lists[m.list[k].msecs] = k
        <5>1. k # NoList
            BY TimersAssumption DEF NoList
        <5>2. m.list[k].msecs = timer[t].after
            BY <4>3 DEF Held, Alike
        <5> QED
            BY <3>1, <4>4, <5>1, <5>2 DEF Alike
      <4>6. Follows(m, t, u)
          BY <4>1 DEF Follows, Alike
      <4>7. k = l
          BY <1>1, <2>2, <4>2, <4>5, <4>6 DEF Sound, Collected
      <4> QED
          BY <2>1, <4>2, <4>6, <4>7 DEF Fires
    <3> QED
        BY <3>1 DEF InTurn
  <2> QED
      BY <2>2, <2>3, <2>4 DEF MayCall
<1> QED
    BY <1>3, <1>4 DEF Keeps

(* A machine in which a watcher has been stopped.                          *)
LEMMA StopState ==
    ASSUME NEW m, State(m), NEW w, NEW r, r = StopWatcher(m, w)
    PROVE  State(r)
<1>1. /\ Sound(r) /\ r.timer = m.timer /\ r.list = m.list
      /\ \A e \in Range(r.heap) : e \in Range(m.heap)
    BY StopSound DEF State
<1>2. Lessens(m, r)
    BY <1>1 DEF Lessens, Items
<1> QED
    BY <1>1, <1>2, LessIsSound

(* A list's watcher fires.                                                 *)
LEMMA OnListTimeoutKeeps == ASSUME TimersInv, OnListTimeout PROVE Keeps
<1>1. PICK i \in DOMAIN heap :
             /\ heap[i].w.of = "list"
             /\ Become(RunList(StopWatcher(Here, heap[i].w), heap[i].w.id, now))
    BY DEF OnListTimeout
<1> DEFINE w == heap[i].w
           l == w.id
           m == StopWatcher(Here, w)
<1>2. /\ now \in Nat /\ Whole(Here) /\ State(Here) /\ Sound(Here) /\ Here \in Machine
      /\ Here.timer = timer /\ Here.lists = lists /\ Here.list = list /\ Here.heap = heap
      /\ Here.running = NotRunning /\ Here.ticks = ticks /\ now' = now
      /\ Awake(Here, NoList) /\ AllKept(Here, NoTimer)
    BY DEF TimersInv, Whole, State, Sound, Here, OnListTimeout, NotRunning
<1>3. l \in ListIds /\ w = OfList(l)
  <2>1. heap[i] \in Entry
      BY <1>2 DEF Machine
  <2> QED
      BY <1>1, <2>1 DEF Entry, Watcher, OfList
<1>4. /\ m.timer = Here.timer /\ m.lists = Here.lists /\ m.list = Here.list
      /\ m.running = Here.running /\ m.ticks = Here.ticks
      /\ \A k \in ListIds : Wakes(Here, k) /\ w # OfList(k) => Wakes(m, k)
      /\ \A t \in Objects : Kept(Here, t) /\ w # OfTimer(t) => Kept(m, t)
    BY <1>2, StopSound
<1>5. State(m)
    BY <1>2, StopState
<1>6. Become(RunList(m, l, now))
    BY <1>1
<1> HIDE DEF l, m, w
<1>7. Alike(m)
    BY <1>2, <1>4 DEF Alike, Items
<1>8. Awake(m, l)
  <2>1. ASSUME NEW k \in ListIds, m.list[k].open, k # l, k \notin Range(m.ticks) PROVE Wakes(m, k)
    <3>1. k # NoList
        BY TimersAssumption DEF NoList
    <3>2. Wakes(Here, k)
        BY <1>2, <1>4, <2>1, <3>1 DEF Awake
    <3> QED
        BY <1>3, <1>4, <2>1, <3>2, Zenon DEF OfList
  <2> QED
      BY <2>1 DEF Awake
<1>9. AllKept(m, NoTimer)
    BY <1>2, <1>3, <1>4, Zenon DEF AllKept, OfList, OfTimer
<1> QED
    BY <1>2, <1>3, <1>5, <1>6, <1>7, <1>8, <1>9, RunKeeps

(* The watcher of an unref'd timer fires.                                  *)
LEMMA OnHandleTimeoutKeeps == ASSUME TimersInv, OnHandleTimeout PROVE Keeps
<1>1. PICK i \in DOMAIN heap :
             LET t == heap[i].w.id
                 m == StopWatcher(Here, heap[i].w)
             IN  /\ Expired(i) /\ heap[i].w.of = "timer"
                 /\ Become(IF ~timer[t].hcb THEN m
                           ELSE [m EXCEPT !.running = [by |-> "handle", list |-> NoList,
                                                       timer |-> t, now |-> now],
                                          !.timer[t] = Fired(@)])
    BY Zenon DEF OnHandleTimeout
<1> DEFINE e0 == heap[i]
           w == e0.w
           t == w.id
           m == StopWatcher(Here, w)
           o == timer[t]
           c == Fired(o)
           x == [by |-> "handle", list |-> NoList, timer |-> t, now |-> now]
<1>2. /\ now \in Nat /\ Whole(Here) /\ State(Here) /\ Sound(Here) /\ Here \in Machine
      /\ Flagged(Here) /\ Apart(Here)
      /\ Here.timer = timer /\ Here.lists = lists /\ Here.list = list /\ Here.heap = heap
      /\ Here.running = NotRunning /\ Here.ticks = ticks /\ now' = now
      /\ Awake(Here, NoList) /\ AllKept(Here, NoTimer)
    BY DEF TimersInv, Whole, State, Sound, Here, OnHandleTimeout, NotRunning
<1>3. e0 \in Entry /\ e0 \in Range(heap) /\ t \in Objects /\ w = OfTimer(t) /\ e0.due <= now /\ w.of = "timer"
      /\ e0.w = w
  <2>1. e0 \in Entry /\ e0 \in Range(heap)
      BY <1>2 DEF Machine, Range
  <2> QED
      BY <1>1, <2>1 DEF Entry, Watcher, OfTimer, Expired
<1>4. /\ Sound(m) /\ m.timer = Here.timer /\ m.lists = Here.lists /\ m.list = Here.list
      /\ m.running = Here.running /\ m.ticks = Here.ticks
      /\ \A e \in Range(m.heap) : e \in Range(Here.heap) /\ e.w # w
      /\ \A k \in ListIds : Wakes(Here, k) /\ w # OfList(k) => Wakes(m, k)
      /\ \A u \in Objects : Kept(Here, u) /\ w # OfTimer(u) => Kept(m, u)
    BY <1>2, StopSound
<1>5. State(m)
    BY <1>2, StopState
<1>b. Become(IF ~o.hcb THEN m ELSE [m EXCEPT !.running = x, !.timer[t] = Fired(@)])
    BY <1>1
<1> HIDE DEF m
<1>6. EntrySound(Here, e0) /\ o.handle = "open" /\ (o.hcb => o.since + o.after <= e0.due)
  <2>1. EntrySound(Here, e0)
      BY <1>2, <1>3 DEF Sound, HeapSound
  <2> QED
      BY <1>2, <1>3, <2>1 DEF EntrySound
<1>7. /\ o \in TimerObject /\ o.kind # "none" /\ o.after \in Delays /\ o.idle \in {o.after, -1}
      /\ o.start <= now /\ Flags(o) /\ Calls(o)
  <2>1. o \in TimerObject /\ TimerSound(Here, t) /\ Flags(o)
      BY <1>2, <1>3 DEF Machine, Sound, Flagged
  <2>2. o.kind # "none"
      BY <1>2, <1>6, <2>1 DEF TimerSound, Unused
  <2> QED
      BY <1>2, <2>1, <2>2 DEF TimerSound, Flags
<1> HIDE DEF t, e0, w
<1>o. (\A k \in ListIds : w # OfList(k)) /\ \A u \in Objects : u # t => w # OfTimer(u)
    BY <1>3 DEF OfList, OfTimer
<1>8. Awake(m, NoList)
    BY <1>2, <1>4, <1>o DEF Awake
<1>9. \A u \in Objects : u # t => Kept(m, u)
  <2>1. \A u \in Objects : u # NoTimer
      BY TimersAssumption DEF NoTimer
  <2> QED
      BY <1>2, <1>4, <1>o, <2>1 DEF AllKept
<1>10. CASE ~o.hcb
  <2>1. Become(m)
      BY <1>b, <1>10
  <2>2. Kept(m, t)
      BY <1>2, <1>4, <1>6, <1>7, <1>10 DEF Calls, Kept
  <2>3. AllKept(m, NoTimer)
      BY <1>9, <2>2 DEF AllKept
  <2>4. Whole(m)
      BY <1>2, <1>4, <1>5, <1>8, <2>3 DEF Whole, RunningSound, NotRunning
  <2>5. \A u \in Objects : ~(m.timer[u].fired > timer[u].fired)
    <3>1. \A u \in Objects : timer[u].fired \in Nat
        BY <1>2 DEF Machine, TimerObject
    <3>2. \A u \in Objects : ~(timer[u].fired > timer[u].fired)
        BY <3>1
    <3> QED
        BY <1>2, <1>4, <3>2
  <2> QED
      BY <1>2, <2>1, <2>4, <2>5, StillKeeps
<1>11. CASE o.hcb
  <2> DEFINE n == Turned(m, x, ticks)
             r == Changed(n, t, c)
  <2>1. x \in Running /\ ticks \in Seq(ListIds)
      BY <1>2, <1>3 DEF Running, Machine
  <2>x. x.by = "handle" /\ x.list = NoList /\ x.timer = t /\ x.now = now
      OBVIOUS
  <2>2. Turns(m, n, x, ticks)
    <3> HIDE DEF x
    <3> QED
      BY <1>5, <2>1, TurnSound
  <2>3. [m EXCEPT !.running = x, !.timer[t] = Fired(@)] = r
    <3> DEFINE T == [m.timer EXCEPT ![t] = Fired(@)]
    <3>1. m \in Machine /\ m.timer = timer /\ m.ticks = ticks
        BY <1>2, <1>4 DEF Sound
    <3>2. T = [timer EXCEPT ![t] = c]
        BY <3>1
    <3>3. n.timer = timer
        BY <2>2, <3>1 DEF Turns
    <3>4. n = [m EXCEPT !.running = x]
        BY <3>1, Zenon DEF Turned, Machine
    <3>5. [m EXCEPT !.running = x, !.timer[t] = Fired(@)] = [m EXCEPT !.running = x, !.timer = T]
        OBVIOUS
    <3> HIDE DEF T, x, c, n
    <3>6. r = [n EXCEPT !.timer = T]
        BY <3>2, <3>3 DEF Changed
    <3> QED
        BY <3>1, <3>4, <3>5, <3>6 DEF Machine
  <2>4. Become(r)
    <3> HIDE DEF r, x
    <3> QED
      BY <1>b, <1>11, <2>3
  <2> HIDE DEF n, x
  <2>5. /\ State(n) /\ Sound(n) /\ n.running = x /\ n.ticks = ticks /\ n.timer = timer
        /\ n.lists = m.lists /\ n.list = list /\ n.heap = m.heap
        /\ \A k \in ListIds : Wakes(m, k) => Wakes(n, k)
        /\ \A u \in Objects : Kept(m, u) => Kept(n, u)
      BY <1>2, <1>4, <2>2 DEF Turns, State
  <2>6. /\ c \in TimerObject /\ c.kind = o.kind /\ c.after = o.after /\ c.idle = o.idle
        /\ c.start = o.start /\ c.since = o.since /\ c.handle = o.handle /\ c.fired = o.fired + 1
      BY <1>7, FiredFields
  <2>7. c.hcb = o.hcb /\ c.cleared = o.cleared /\ c.repeat = o.repeat /\ c.cb = o.cb
      BY <1>7, FiredFields
  <2> HIDE DEF c
  <2>8. \A k \in ListIds : t \notin Items(n, k)
    <3>1. \A k \in ListIds : t \notin Items(Here, k)
        BY <1>2, <1>3 DEF Apart
    <3> QED
        BY <1>2, <2>5, <3>1 DEF Items
  <2>9. \A e \in Range(n.heap) : e.w # OfTimer(t)
      BY <1>3, <1>4, <2>5
  <2>10. Changes(n, r, t, c)
    <3> HIDE DEF o
    <3> QED
      BY <1>3, <1>7, <2>5, <2>6, <2>8, <2>9, TimerChanges
  <2> HIDE DEF r
  <2>11. /\ Sound(r) /\ r.lists = n.lists /\ r.list = n.list
         /\ r.running = n.running /\ r.ticks = n.ticks /\ r.heap = n.heap
         /\ r.timer[t] = c /\ \A u \in Objects : u # t => r.timer[u] = n.timer[u]
         /\ \A k \in ListIds : Wakes(n, k) => Wakes(r, k)
         /\ \A u \in Objects : Kept(n, u) /\ u # t => Kept(r, u)
      BY <2>10 DEF Changes
  <2>12. State(r)
    <3>1. Flags(c)
        BY <1>6, <1>7, <2>6, <2>7 DEF Flags, Calls
    <3>2. \A u \in Objects : /\ r.timer[u].kind = n.timer[u].kind
                             /\ r.timer[u].cleared = n.timer[u].cleared
                             /\ Flags(n.timer[u]) => Flags(r.timer[u])
      <4>1. ASSUME NEW u \in Objects
            PROVE  /\ r.timer[u].kind = n.timer[u].kind
                   /\ r.timer[u].cleared = n.timer[u].cleared
                   /\ Flags(n.timer[u]) => Flags(r.timer[u])
        <5>1. CASE u = t
            BY <2>5, <2>6, <2>7, <2>11, <3>1, <5>1
        <5>2. CASE u # t
            BY <2>11, <5>2
        <5> QED
            BY <5>1, <5>2
      <4> QED
          BY <4>1
    <3>3. Lessens(n, r)
        BY <2>11, <3>2 DEF Lessens, Items
    <3> QED
        BY <2>5, <2>11, <3>3, LessIsSound
  <2>13. RunningSound(r)
    <3>1. \A k \in ListIds : t \notin Items(r, k)
        BY <2>8, <2>11 DEF Items
    <3>2. c.fired > 0
      <4>1. o.fired \in Nat
          BY <1>7 DEF TimerObject
      <4> HIDE DEF o
      <4> QED
          BY <2>6, <4>1
    <3>3. /\ r.running = x /\ r.timer[t].kind # "none" /\ r.timer[t].fired > 0
          /\ r.timer[t].handle # "none" /\ \A e \in Range(r.heap) : e.w # OfTimer(t)
        BY <1>6, <1>7, <2>5, <2>6, <2>9, <2>11, <3>2
    <3> QED
        BY <1>3, <2>x, <3>1, <3>3 DEF RunningSound
  <2>14. Awake(r, r.running.list)
      BY <1>2, <1>4, <1>8, <2>5, <2>11, <2>x DEF Awake
  <2>15. AllKept(r, r.running.timer)
      BY <1>9, <2>5, <2>11, <2>x DEF AllKept
  <2>16. Whole(r)
      BY <2>12, <2>13, <2>14, <2>15 DEF Whole
  <2>17. TimersInv'
      BY <1>2, <2>4, <2>16, BecomeWhole
  <2>18. timer' = r.timer /\ running' = x
      BY <2>4, <2>5, <2>11 DEF Become
  <2>19. ASSUME NEW u \in Objects, timer'[u].fired > timer[u].fired PROVE MayCall(u)
    <3>1. timer[u].fired \in Nat
        BY <1>2 DEF Machine, TimerObject
    <3>2. u # t => timer'[u].fired = timer[u].fired /\ timer'[u].threw = timer[u].threw
        BY <2>5, <2>11, <2>18
    <3>3. u = t
      <4>1. ~(timer[u].fired > timer[u].fired)
          BY <3>1
      <4> QED
          BY <2>19, <3>2, <4>1
    <3>4. ~o.cleared
        BY <1>7, <1>11 DEF Calls
    <3>5. now >= o.since + o.after
      <4>1. e0.due \in Nat /\ o.since \in Nat /\ o.after \in Nat
        <5>1. o.after \in Nat
            BY <1>7, TimersAssumption, Zenon
        <5> HIDE DEF o
        <5> QED
            BY <1>3, <1>7, <5>1 DEF Entry, TimerObject
      <4> HIDE DEF o
      <4> QED
          BY <1>2, <1>3, <1>6, <1>11, <4>1 DEF o
    <3>6. InTurn(u)
        BY <2>18, <2>x DEF InTurn
    <3> QED
        BY <3>3, <3>4, <3>5, <3>6 DEF MayCall
  <2> QED
      BY <2>17, <2>19 DEF Keeps
<1> QED
    BY <1>10, <1>11

(* A callback returns; an interval is set again; its list goes on.         *)
LEMMA CallbackReturnsKeeps == ASSUME TimersInv, CallbackReturns PROVE Keeps
<1> DEFINE m == Rearm(Here, running.timer, running.by)
           l == running.list
<1>1. Become(IF running.by = "list" THEN RunList(m, l, running.now)
             ELSE [m EXCEPT !.running = NotRunning])
    BY DEF CallbackReturns
<1>2. /\ now \in Nat /\ Whole(Here) /\ Here \in Machine
      /\ Here.timer = timer /\ Here.lists = lists /\ Here.list = list /\ Here.heap = heap
      /\ Here.running = running /\ Here.ticks = ticks /\ now' = now
      /\ Here.running # NotRunning /\ Free(Here) # {}
    BY DEF TimersInv, Whole, State, Sound, Here, CallbackReturns
<1>3. /\ running.now = now /\ running.by \in {"list", "handle"}
      /\ running.by = "list" => l \in ListIds
      /\ running.by = "handle" => l = NoList
  <2>1. running.by \in {"none", "list", "handle"}
      BY <1>2 DEF Machine, Running
  <2> QED
      BY <1>2, <2>1 DEF Whole, RunningSound
<1>4. Rearms(Here, m)
    BY <1>2, RearmSound
<1> HIDE DEF m, l
<1>5. /\ State(m) /\ m.running = running /\ m.ticks = ticks
      /\ Awake(m, l) /\ AllKept(m, NoTimer)
      /\ \A u \in Objects :
           /\ m.timer[u].kind = timer[u].kind /\ m.timer[u].after = timer[u].after
           /\ m.timer[u].fired = timer[u].fired /\ m.timer[u].threw = timer[u].threw /\ m.timer[u].cleared = timer[u].cleared
           /\ m.timer[u].since \in {timer[u].since, now}
           /\ timer[u].kind = "timeout" =>
                \A k \in ListIds : u \in Items(m, k) <=> u \in Items(Here, k)
      /\ \A x \in Delays : lists[x] # NoList => m.lists[x] = lists[x]
    BY <1>2, <1>4 DEF Rearms, l
<1>6. CASE running.by = "list"
  <2>1. Alike(m)
      BY <1>5 DEF Alike
  <2>2. Become(RunList(m, l, now))
      BY <1>1, <1>3, <1>6
  <2> QED
      BY <1>2, <1>3, <1>5, <1>6, <2>1, <2>2, RunKeeps
<1>7. CASE running.by = "handle"
  <2> DEFINE r == Turned(m, NotRunning, ticks)
  <2>1. NotRunning \in Running /\ ticks \in Seq(ListIds)
      BY <1>2 DEF Running, NotRunning, Machine
  <2>2. Turns(m, r, NotRunning, ticks)
      BY <1>5, <2>1, TurnSound
  <2>3. Become(r)
    <3>1. m \in Machine
        BY <1>5 DEF State, Sound
    <3>2. [m EXCEPT !.running = NotRunning] = r
        BY <1>5, <3>1, Zenon DEF Turned, Machine
    <3> HIDE DEF r
    <3>3. running.by # "list"
        BY <1>7
    <3> QED
        BY <1>1, <3>2, <3>3
  <2> HIDE DEF r
  <2>4. /\ State(r) /\ r.running = NotRunning /\ r.ticks = m.ticks /\ r.timer = m.timer
        /\ r.list = m.list
        /\ \A k \in ListIds : Wakes(m, k) => Wakes(r, k)
        /\ \A u \in Objects : Kept(m, u) => Kept(r, u)
      BY <1>5, <2>2 DEF Turns
  <2>5. Awake(r, r.running.list)
      BY <1>3, <1>5, <1>7, <2>4 DEF Awake, NotRunning
  <2>6. AllKept(r, r.running.timer)
      BY <1>5, <2>4 DEF AllKept, NotRunning
  <2>7. Whole(r)
      BY <2>4, <2>5, <2>6 DEF Whole, RunningSound
  <2>8. \A u \in Objects : ~(r.timer[u].fired > timer[u].fired)
    <3>1. \A u \in Objects : timer[u].fired \in Nat
        BY <1>2 DEF Machine, TimerObject
    <3>2. \A u \in Objects : ~(timer[u].fired > timer[u].fired)
        BY <3>1
    <3> QED
        BY <1>5, <2>4, <3>2
  <2> QED
      BY <1>2, <2>3, <2>7, <2>8, StillKeeps
<1> QED
    BY <1>3, <1>6, <1>7

(* A callback throws, and its list waits for a tick.                       *)
LEMMA CallbackThrowsKeeps == ASSUME TimersInv, CallbackThrows PROVE Keeps
<1> DEFINE t == running.timer
           q == IF running.by = "list" THEN Append(ticks, running.list) ELSE ticks
           h == Threw(Here, t)
           r == Turned(h, NotRunning, q)
<1>1. /\ now \in Nat /\ Whole(Here) /\ State(Here) /\ Flagged(Here) /\ Here \in Machine
      /\ Here.timer = timer /\ Here.lists = lists /\ Here.list = list /\ Here.heap = heap
      /\ Here.running = running /\ Here.ticks = ticks /\ now' = now
      /\ Here.running # NotRunning /\ Awake(Here, running.list) /\ AllKept(Here, t)
    BY DEF TimersInv, Whole, State, Sound, Here, CallbackThrows
<1>2. Become(r)
    BY DEF CallbackThrows, Turned, Threw, Here
<1>3. /\ t \in Objects /\ timer[t].fired > 0
      /\ running.by \in {"list", "handle"}
      /\ running.by = "list" => running.list \in ListIds
      /\ running.by = "handle" => running.list = NoList
  <2>1. running.by \in {"none", "list", "handle"}
      BY <1>1 DEF Machine, Running
  <2> QED
      BY <1>1, <2>1 DEF Whole, RunningSound
<1>4. /\ q \in Seq(ListIds) /\ Range(ticks) \subseteq Range(q)
      /\ running.by = "list" => running.list \in Range(q)
  <2>1. ticks \in Seq(ListIds)
      BY <1>1 DEF Machine
  <2>2. CASE running.by = "list"
    <3> DEFINE s == Append(ticks, running.list)
    <3>1. Grown(s, ticks, running.list, ListIds)
        BY <1>3, <2>1, <2>2, Appended
    <3> HIDE DEF s
    <3>2. s \in Seq(ListIds) /\ Range(s) = Range(ticks) \cup {running.list}
        BY <3>1 DEF Grown
    <3>3. q = s
        BY <2>2 DEF s
    <3> QED
        BY <3>2, <3>3, Zenon
  <2>3. CASE running.by # "list"
      BY <2>1, <2>3
  <2> QED
      BY <2>2, <2>3
<1> HIDE DEF q
<1>5. NotRunning \in Running
    BY DEF Running, NotRunning
<1>h. /\ Whole(h) /\ State(h) /\ h \in Machine /\ h.timer[t].threw /\ h.running = running
      /\ h.lists = lists /\ h.list = list /\ h.heap = heap /\ h.ticks = ticks
      /\ Awake(h, running.list) /\ AllKept(h, t)
      /\ \A u \in Objects : ~(h.timer[u].fired > timer[u].fired)
  <2>1. timer[t].kind # "none"
      BY <1>1 DEF Whole, RunningSound
  <2>2. /\ Still(Here, h) /\ h \in Machine /\ h.timer[t].threw
        /\ h.lists = lists /\ h.list = list /\ h.heap = heap /\ h.ticks = ticks
    <3> DEFINE g == Here
    <3>1. Whole(g) /\ t \in Objects /\ g.timer[t].kind # "none" /\ h = Threw(g, t)
        BY <1>1, <1>3, <2>1
    <3>2. g.lists = lists /\ g.list = list /\ g.heap = heap /\ g.ticks = ticks
        BY <1>1
    <3> HIDE DEF h, t, g
    <3>3. /\ Still(g, h) /\ h \in Machine /\ h.timer[t].threw
          /\ h.lists = g.lists /\ h.list = g.list /\ h.heap = g.heap /\ h.ticks = g.ticks
        BY <3>1, ThrewChanges
    <3> QED
        BY <3>2, <3>3 DEF g
  <2> HIDE DEF h
  <2> QED
      BY <1>1, <2>2 DEF Still, Whole
<1> HIDE DEF h
<1>6. Turns(h, r, NotRunning, q)
    BY <1>h, <1>4, <1>5, TurnSound
<1> HIDE DEF r
<1>7. /\ State(r) /\ r.running = NotRunning /\ r.ticks = q /\ r.timer = h.timer
      /\ r.list = list
      /\ \A k \in ListIds : Wakes(h, k) => Wakes(r, k)
      /\ \A u \in Objects : Kept(h, u) => Kept(r, u)
    BY <1>h, <1>6 DEF Turns
<1>8. Awake(r, r.running.list)
  <2>1. ASSUME NEW k \in ListIds, r.list[k].open, k \notin Range(r.ticks) PROVE Wakes(r, k)
    <3>1. k # NoList
        BY TimersAssumption DEF NoList
    <3>2. k # running.list /\ k \notin Range(ticks)
        BY <1>3, <1>4, <1>7, <2>1, <3>1
    <3> QED
        BY <1>h, <1>7, <2>1, <3>2 DEF Awake
  <2> QED
      BY <2>1 DEF Awake
<1>9. AllKept(r, r.running.timer)
  <2>1. Kept(r, t)
      BY <1>h, <1>7 DEF Kept
  <2> QED
      BY <1>h, <1>7, <2>1 DEF AllKept
<1>10. Whole(r)
    BY <1>7, <1>8, <1>9 DEF Whole, RunningSound
<1>11. \A u \in Objects : ~(r.timer[u].fired > timer[u].fired)
    BY <1>h, <1>7
<1> QED
    BY <1>1, <1>2, <1>10, <1>11, StillKeeps

(* The tick comes, and the list runs again.                                *)
LEMMA ProcessTickKeeps == ASSUME TimersInv, ProcessTick PROVE Keeps
<1> DEFINE q == Tail(ticks)
           l == Head(ticks)
           m == [Here EXCEPT !.ticks = Tail(@)]
<1>1. /\ now \in Nat /\ Whole(Here) /\ State(Here) /\ Here \in Machine
      /\ Here.timer = timer /\ Here.lists = lists /\ Here.list = list /\ Here.heap = heap
      /\ Here.running = NotRunning /\ Here.ticks = ticks /\ now' = now
      /\ Awake(Here, NoList) /\ AllKept(Here, NoTimer)
    BY DEF TimersInv, Whole, State, Sound, Here, ProcessTick, NotRunning
<1>2. Become(RunList(m, l, now)) /\ ticks # <<>>
    BY DEF ProcessTick
<1>3. /\ q \in Seq(ListIds) /\ l \in ListIds
      /\ \A k \in Range(ticks) : k = l \/ k \in Range(q)
  <2>1. ticks \in Seq(ListIds)
      BY <1>1 DEF Machine
  <2>2. q \in Seq(ListIds) /\ l \in ListIds /\ Len(q) = Len(ticks) - 1 /\ l = ticks[1]
        /\ \A i \in 1 .. Len(q) : q[i] = ticks[i + 1]
      BY <1>2, <2>1
  <2>3. ASSUME NEW k \in Range(ticks), k # l PROVE k \in Range(q)
    <3>1. PICK i \in DOMAIN ticks : ticks[i] = k
        BY DEF Range
    <3> DEFINE j == i - 1
    <3>2. j \in 1 .. Len(q) /\ j + 1 = i
        BY <2>1, <2>2, <2>3, <3>1
    <3> HIDE DEF j, q, l
    <3>3. j \in DOMAIN q /\ q[j] = k
        BY <2>2, <3>1, <3>2
    <3> QED
        BY <3>3 DEF Range
  <2> QED
      BY <2>2, <2>3
<1> HIDE DEF l, q
<1>4. m = Turned(Here, NotRunning, q)
    BY <1>1, Zenon DEF Turned, Machine, q
<1> HIDE DEF m
<1>5. NotRunning \in Running
    BY DEF Running, NotRunning
<1>6. Turns(Here, m, NotRunning, q)
    BY <1>1, <1>3, <1>4, <1>5, TurnSound
<1>7. /\ State(m) /\ m.running = NotRunning /\ m.ticks = q /\ m.timer = timer
      /\ m.list = list /\ m.lists = lists
      /\ \A k \in ListIds : Wakes(Here, k) => Wakes(m, k)
      /\ \A u \in Objects : Kept(Here, u) => Kept(m, u)
    BY <1>1, <1>6 DEF Turns
<1>8. Awake(m, l)
  <2>1. ASSUME NEW k \in ListIds, m.list[k].open, k # l, k \notin Range(m.ticks) PROVE Wakes(m, k)
    <3>1. k # NoList
        BY TimersAssumption DEF NoList
    <3>2. k \notin Range(ticks)
        BY <1>3, <1>7, <2>1
    <3> QED
        BY <1>1, <1>7, <2>1, <3>1, <3>2 DEF Awake
  <2> QED
      BY <2>1 DEF Awake
<1>9. AllKept(m, NoTimer)
    BY <1>1, <1>7 DEF AllKept
<1>10. Alike(m)
    BY <1>1, <1>7 DEF Alike, Items
<1> QED
    BY <1>1, <1>2, <1>3, <1>7, <1>8, <1>9, <1>10, RunKeeps

(* The clock goes on, or nothing happens.                                  *)
LEMMA AdvanceKeeps == ASSUME TimersInv, Advance \/ UNCHANGED vars PROVE Keeps
<1>1. /\ Here' = Here /\ now \in Nat /\ Whole(Here) /\ Sound(Here) /\ Here \in Machine
      /\ timer' = timer /\ Here.timer = timer
      /\ now' \in Nat /\ now <= now' /\ (Here.running # NotRunning => now' = now)
  <2>1. CASE Advance
      BY <2>1, TimersAssumption DEF Advance, TimersInv, Whole, State, Sound, Here
  <2>2. CASE UNCHANGED vars
      BY <2>2 DEF vars, TimersInv, Whole, State, Sound, Here
  <2> QED
      BY <2>1, <2>2
<1>2. Exclusive(Here)' /\ Collected(Here)' /\ TableSound(Here)' /\ HeapSound(Here)' /\ Here' \in Machine
    BY <1>1 DEF Sound, Exclusive, Collected, Follows, TableSound, HeapSound,
                EntrySound, Items
<1>3. (\A l \in ListIds : ListSound(Here, l))'
    BY <1>1 DEF Sound, ListSound, Ordered, Before, Held, Items
<1>4. (\A t \in Objects : TimerSound(Here, t))'
  <2>1. \A t \in Objects : timer[t].start \in Nat
      BY <1>1 DEF Machine, TimerObject
  <2> QED
      BY <1>1, <2>1 DEF Sound, TimerSound
<1>5. Flagged(Here)' /\ Numbered(Here)' /\ Apart(Here)'
    BY <1>1 DEF Whole, State, Flagged, Numbered, Apart, Items
<1>6. RunningSound(Here)'
    BY <1>1 DEF Whole, RunningSound, Items
<1>7. Awake(Here, Here.running.list)'
  <2>1. ASSUME NEW l \in ListIds, Wakes(Here, l) PROVE Wakes(Here, l)'
    <3>1. PICK e \in Range(Here.heap) :
                 /\ e.w = OfList(l) /\ e.due <= now + Here.list[l].msecs
                 /\ \A t \in Items(Here, l) : e.due <= Here.timer[t].start + Here.list[l].msecs
        BY <2>1 DEF Wakes
    <3>2. e.due \in Nat /\ Here.list[l].msecs \in Nat
      <4>1. e \in Entry /\ Here.list[l].msecs \in Delays \cup {0}
          BY <1>1 DEF Machine, Range, ListObject
      <4>2. e.due \in Nat
          BY <4>1 DEF Entry
      <4>3. \A x \in Delays \cup {0} : x \in Nat
          BY TimersAssumption
      <4> QED
          BY <4>1, <4>2, <4>3
    <3>3. e.due <= now' + Here.list[l].msecs
        BY <1>1, <3>1, <3>2
    <3> QED
        BY <1>1, <3>1, <3>3 DEF Wakes, Items
  <2> QED
      BY <1>1, <2>1 DEF Whole, Awake
<1>8. AllKept(Here, Here.running.timer)'
    BY <1>1 DEF Whole, AllKept, Kept, Items
<1>9. TimersInv'
    BY <1>1, <1>2, <1>3, <1>4, <1>5, <1>6, <1>7, <1>8 DEF State, Sound, TimersInv, Whole
<1>10. \A u \in Objects : ~(timer'[u].fired > timer[u].fired)
  <2>1. \A u \in Objects : timer[u].fired \in Nat
      BY <1>1 DEF Machine, TimerObject
  <2> QED
      BY <1>1, <2>1
<1> QED
    BY <1>9, <1>10 DEF Keeps

-----------------------------------------------------------------------------
(* The theorems.                                                           *)

(* Every step keeps the invariant, and calls nothing out of its turn.      *)
LEMMA NextKeeps == ASSUME TimersInv, [Next]_vars PROVE Keeps
    BY SetTimerKeeps, CallsKeep, OnListTimeoutKeeps, OnHandleTimeoutKeeps, CallbackReturnsKeeps,
       CallbackThrowsKeeps, ProcessTickKeeps, AdvanceKeeps DEF Next

(* No timer is set when the process starts.                                *)
LEMMA InitWhole == Init => TimersInv
<1> SUFFICES ASSUME Init PROVE TimersInv
    OBVIOUS
<1>1. /\ Here.timer = [t \in Objects |-> Unused] /\ Here.lists = [ms \in Delays |-> NoList]
      /\ Here.list = [l \in ListIds |-> [open |-> FALSE, msecs |-> 0, items |-> <<>>]]
      /\ Here.heap = <<>> /\ Here.running = NotRunning /\ Here.ticks = <<>>
    BY DEF Init, Here
<1>2. now = 1 /\ now \in Nat
    BY DEF Init
<1>3. Here \in Machine
  <2>1. Unused \in TimerObject
      BY DEF Unused, TimerObject
  <2>2. [open |-> FALSE, msecs |-> 0, items |-> <<>>] \in ListObject
    <3>1. <<>> \in Seq(Objects)
        OBVIOUS
    <3> QED
        BY <3>1 DEF ListObject
  <2>3. NotRunning \in Running
      BY DEF Running, NotRunning
  <2>4. Here = [timer |-> Here.timer, lists |-> Here.lists, list |-> Here.list, heap |-> Here.heap,
                running |-> Here.running, ticks |-> Here.ticks]
      BY DEF Here
  <2>5. <<>> \in Seq(Entry) /\ <<>> \in Seq(ListIds)
      OBVIOUS
  <2> QED
      BY <1>1, <2>1, <2>2, <2>3, <2>4, <2>5, Zenon DEF Machine
<1>4. \A l \in ListIds : \A u : u \notin Items(Here, l)
  <2>1. <<>> \in Seq(Objects)
      OBVIOUS
  <2>2. \A u : u \notin Range(<<>>)
      BY <2>1, NoItems, Zenon
  <2>3. \A l \in ListIds : Here.list[l].items = <<>>
      BY <1>1
  <2> QED
      BY <2>2, <2>3 DEF Items
<1>5. \A e : e \notin Range(Here.heap)
  <2>1. <<>> \in Seq(Entry)
      OBVIOUS
  <2> QED
      BY <1>1, <2>1, NoItems, Zenon
<1>6. Exclusive(Here) /\ Collected(Here)
    BY <1>4 DEF Exclusive, Collected
<1>7. TableSound(Here)
    BY <1>1 DEF TableSound
<1>8. HeapSound(Here)
  <2>1. Distinct(Here.heap)
      BY <1>1 DEF Distinct
  <2> QED
      BY <1>5, <2>1 DEF HeapSound
<1>9. ASSUME NEW l \in ListIds PROVE ListSound(Here, l)
  <2>1. ~Here.list[l].open /\ Here.list[l].items = <<>>
      BY <1>1
  <2>2. Ordered(Here, l)
      BY <2>1 DEF Ordered
  <2> QED
      BY <1>4, <2>1, <2>2 DEF ListSound
<1>10. \A t \in Objects : Here.timer[t] = Unused /\ Here.timer[t].kind = "none"
    BY <1>1 DEF Unused
<1>11. \A t \in Objects : TimerSound(Here, t)
    BY <1>10 DEF TimerSound
<1>12. Flagged(Here) /\ Numbered(Here) /\ Apart(Here)
    BY <1>4, <1>5, <1>10 DEF Flagged, Flags, Numbered, Apart
<1>13. RunningSound(Here) /\ Awake(Here, Here.running.list) /\ AllKept(Here, Here.running.timer)
    BY <1>1, <1>10 DEF RunningSound, Awake, AllKept, Kept
<1> QED
    BY <1>2, <1>3, <1>6, <1>7, <1>8, <1>9, <1>11, <1>12, <1>13 DEF TimersInv, Whole, State, Sound

(* What the invariant says of the variables.                               *)
LEMMA Promised == TimersInv => TypeOK /\ Armed /\ NotLost /\ OneTime
<1> SUFFICES ASSUME TimersInv PROVE TypeOK /\ Armed /\ NotLost /\ OneTime
    OBVIOUS
<1>1. /\ now \in Nat /\ Whole(Here) /\ Sound(Here) /\ Flagged(Here) /\ Here \in Machine
      /\ Here.timer = timer /\ Here.lists = lists /\ Here.list = list /\ Here.heap = heap
      /\ Here.running = running /\ Here.ticks = ticks
      /\ Awake(Here, running.list) /\ AllKept(Here, running.timer)
    BY DEF TimersInv, Whole, State, Sound, Here
<1>2. TypeOK
  <2>1. /\ timer \in [Objects -> TimerObject] /\ lists \in [Delays -> ListIds \cup {NoList}]
        /\ list \in [ListIds -> ListObject] /\ heap \in Seq(Entry) /\ ticks \in Seq(ListIds)
        /\ running \in Running
      BY <1>1 DEF Machine
  <2>2. \A l \in ListIds : ~list[l].open => list[l].items = <<>>
      BY <1>1 DEF Sound, ListSound
  <2> QED
      BY <1>1, <2>1, <2>2 DEF TypeOK, Entry, Running
<1>3. Armed
  <2>1. ASSUME NEW l \in ListIds, list[l].items # <<>>, l # running.list, l \notin Range(ticks)
        PROVE  \E i \in DOMAIN heap :
                 /\ heap[i].w = OfList(l)
                 /\ \A t \in Range(list[l].items) :
                      heap[i].due <= timer[t].start + list[l].msecs
    <3>1. list[l].open
        BY <1>1, <2>1 DEF Sound, ListSound
    <3>2. Wakes(Here, l)
        BY <1>1, <2>1, <3>1 DEF Awake
    <3>3. PICK e \in Range(heap) :
                 /\ e.w = OfList(l)
                 /\ \A t \in Items(Here, l) : e.due <= timer[t].start + list[l].msecs
        BY <1>1, <3>2 DEF Wakes
    <3> QED
        BY <1>1, <3>3 DEF Range, Items
  <2> QED
      BY <2>1 DEF Armed
<1>4. NotLost
  <2>1. ASSUME NEW t \in Used, ~timer[t].cleared, timer[t].kind = "timeout" => timer[t].fired = 0,
               running.timer # t
        PROVE  Pending(t) \/ timer[t].threw
    <3>1. Kept(Here, t)
        BY <1>1, <2>1 DEF AllKept, Used
    <3>2. CASE \E l \in ListIds : t \in Items(Here, l)
        BY <1>1, <3>2 DEF Pending, InList, Items
    <3>3. CASE \E e \in Range(heap) : e.w = OfTimer(t)
        BY <3>3 DEF Pending, Watched, Range
    <3> QED
        BY <1>1, <2>1, <3>1, <3>2, <3>3 DEF Kept, Used
  <2> QED
      BY <2>1 DEF NotLost
<1>5. OneTime
    BY <1>1 DEF Flagged, Flags, OneTime, Used
<1> QED
    BY <1>2, <1>3, <1>4, <1>5

(* What a step may not do.                                                 *)
LEMMA NoStep ==
    ASSUME TimersInv, Keeps
    PROVE  /\ \A t \in Objects : timer'[t].fired > timer[t].fired =>
                now >= timer[t].since + timer[t].after
           /\ \A t \in Objects : timer'[t].fired > timer[t].fired => ~timer[t].cleared
           /\ \A t, u \in Used :
                /\ t < u /\ timer[t].after = timer[u].after
                /\ timer[t].kind = "timeout" /\ timer[u].kind = "timeout"
                /\ \E l \in ListIds : l = lists[timer[t].after] /\ t \in Range(list[l].items)
                => ~(timer'[u].fired > timer[u].fired /\ running'.by = "list")
<1>1. Here.timer = timer /\ Here.list = list /\ Here.lists = lists
    BY DEF Here
<1>2. ASSUME NEW t \in Used, NEW u \in Used,
             t < u, timer[t].after = timer[u].after,
             timer[t].kind = "timeout", timer[u].kind = "timeout",
             NEW l \in ListIds, l = lists[timer[t].after], t \in Range(list[l].items),
             timer'[u].fired > timer[u].fired, running'.by = "list"
      PROVE  FALSE
  <2>1. t \in Objects /\ u \in Objects /\ Follows(Here, t, u) /\ t \in Items(Here, l)
      BY <1>1, <1>2 DEF Used, Follows, Items
  <2>2. InTurn(u)
      BY <1>2, <2>1 DEF Keeps, MayCall
  <2> QED
      BY <1>2, <2>1, <2>2 DEF InTurn
<1> QED
    BY <1>2 DEF Keeps, MayCall

(* The inductive invariant.                                                *)
THEOREM TimersInvariant == Spec => []TimersInv
<1>1. TimersInv /\ [Next]_vars => TimersInv'
    BY NextKeeps DEF Keeps
<1> QED
    BY <1>1, InitWhole, PTL DEF Spec

(* setTimeout() and setInterval() keep their promise: no timer that was    *)
(* set and not cleared is lost, the watcher of a list fires by the time    *)
(* its first timer is due, no callback runs early or after its timer was   *)
(* cleared, a timeout's runs once, and in the order they were set while    *)
(* they are in the list of the table.                                      *)
THEOREM TimersPromise == Spec => TimersKept
<1>1. TimersInv => TypeOK /\ Armed /\ NotLost /\ OneTime
    BY Promised
<1>2. TimersInv /\ [Next]_vars =>
        [\A t \in Objects : timer'[t].fired > timer[t].fired =>
           now >= timer[t].since + timer[t].after]_vars
    BY NextKeeps, NoStep
<1>3. TimersInv /\ [Next]_vars =>
        [\A t \in Objects : timer'[t].fired > timer[t].fired => ~timer[t].cleared]_vars
    BY NextKeeps, NoStep
<1>4. TimersInv /\ [Next]_vars =>
        [\A t, u \in Used :
           /\ t < u /\ timer[t].after = timer[u].after
           /\ timer[t].kind = "timeout" /\ timer[u].kind = "timeout"
           /\ \E l \in ListIds : l = lists[timer[t].after] /\ t \in Range(list[l].items)
           => ~(timer'[u].fired > timer[u].fired /\ running'.by = "list")]_vars
    BY NextKeeps, NoStep
<1>5. Spec => NotEarly
    BY <1>2, TimersInvariant, PTL DEF Spec, NotEarly
<1>6. Spec => NotAfterClear
    BY <1>3, TimersInvariant, PTL DEF Spec, NotAfterClear
<1>7. Spec => InSetOrder
    BY <1>4, TimersInvariant, PTL DEF Spec, InSetOrder
<1> QED
    BY <1>1, <1>5, <1>6, <1>7, TimersInvariant, PTL DEF TimersKept
=============================================================================
