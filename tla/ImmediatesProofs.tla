-------------------------- MODULE ImmediatesProofs --------------------------
(***************************************************************************)
(* The immediates of lib/timers.js, kept in the circular list of           *)
(* lib/_linklist.js, are a queue as ImmediateQueue promises it, for any    *)
(* finite set of immediates.                                               *)
(***************************************************************************)
EXTENDS Immediates, FiniteSetTheorems, SequenceTheorems, WellFoundedInduction, TLAPS

-----------------------------------------------------------------------------
(* Induction over the natural numbers, for the members of a set.           *)
LEMMA LeastNatural ==
    ASSUME NEW T, T \subseteq Nat, T # {} PROVE \E x \in T : \A y \in T : x <= y
<1>1. PICK x \in T : \A y \in T : <<y, x>> \notin OpToRel(<, Nat)
    BY NatLessThanWellFounded, WFMin
<1>2. \A y \in T : ~(y < x)
    BY <1>1 DEF OpToRel
<1> QED
    BY <1>2

LEMMA Induction ==
    ASSUME NEW T, 0 \in T, \A n \in Nat : n \in T => n + 1 \in T PROVE Nat \subseteq T
<1> SUFFICES ASSUME Nat \ T # {} PROVE FALSE
    OBVIOUS
<1>1. PICK x \in Nat \ T : \A y \in Nat \ T : x <= y
    BY LeastNatural
<1>2. x - 1 \in Nat /\ x - 1 \in T
    BY <1>1
<1> QED
    BY <1>1, <1>2

-----------------------------------------------------------------------------
(* The list as a sequence.                                                 *)

Objects == Ids \cup {Queue}
Pointers == [next : Objects \cup {Null}, prev : Objects \cup {Null}]

(* The object at place k of the circle that the queue q and its head form. *)
At(q, k) == IF k \in 1 .. Len(q) THEN q[k] ELSE Queue

(* The pointers of h are those of the queue q: from the head, _idlePrev    *)
(* leads to the items in the order in which they will be shifted.          *)
Linked(h, q) ==
    /\ h \in [Objects -> Pointers]
    /\ q \in Seq(Ids)
    /\ \A k, l \in 1 .. Len(q) : q[k] = q[l] => k = l
    /\ \A k \in 0 .. Len(q) : h[At(q, k)].prev = At(q, k + 1) /\ h[At(q, k + 1)].next = At(q, k)
    /\ \A i \in Ids : (\A k \in 1 .. Len(q) : q[k] # i) => h[i] = Unlinked

(* One step back in the list, as Items takes it.                           *)
Back(h, x) == IF x = Null THEN Null ELSE h[x].prev
IsWalk(f, h, n) == f = [k \in 0 .. n |-> IF k = 0 THEN Queue ELSE Back(h, f[k - 1])]

(* The walk that Items is defined by exists.                               *)
LEMMA WalkExists ==
    ASSUME NEW h, NEW n \in Nat PROVE \E f : IsWalk(f, h, n)
<1> DEFINE T == {m \in Nat : \E f : IsWalk(f, h, m)}
<1>1. 0 \in T
  <2>1. IsWalk([k \in 0 .. 0 |-> Queue], h, 0)
      BY DEF IsWalk
  <2> QED
      BY <2>1
<1>2. ASSUME NEW m \in Nat, m \in T PROVE m + 1 \in T
  <2>1. PICK f : IsWalk(f, h, m)
      BY <1>2
  <2> DEFINE g == [k \in 0 .. m + 1 |-> IF k = m + 1 THEN Back(h, f[m]) ELSE f[k]]
  <2>2. \A k \in 0 .. m : f[k] = IF k = 0 THEN Queue ELSE Back(h, f[k - 1])
      BY <2>1 DEF IsWalk
  <2>3. \A k \in 0 .. m : g[k] = f[k]
      OBVIOUS
  <2>4. g[m + 1] = Back(h, f[m])
      OBVIOUS
  <2> HIDE DEF g
  <2>5. \A k \in 0 .. m + 1 : g[k] = IF k = 0 THEN Queue ELSE Back(h, g[k - 1])
    <3> TAKE k \in 0 .. m + 1
    <3>1. CASE k = m + 1
        BY <3>1, <2>3, <2>4
    <3>2. CASE k \in 0 .. m
      <4>1. k = 0 \/ k - 1 \in 0 .. m
          BY <3>2
      <4> QED
          BY <3>2, <4>1, <2>2, <2>3
    <3> QED
        BY <3>1, <3>2
  <2>6. g = [k \in 0 .. m + 1 |-> g[k]]
      BY DEF g
  <2>7. IsWalk(g, h, m + 1)
      BY <2>5, <2>6 DEF IsWalk
  <2> QED
      BY <2>7
<1> HIDE DEF T
<1>3. Nat \subseteq T
    BY <1>1, <1>2, Induction
<1> QED
    BY <1>3 DEF T

(* A queue has fewer items than there are objects.                         *)
LEMMA QueueFits ==
    ASSUME NEW h, NEW q, Linked(h, q)
    PROVE  Len(q) \in Nat /\ Cardinality(DOMAIN h) \in Nat /\ Len(q) < Cardinality(DOMAIN h)
<1>1. Len(q) \in Nat /\ DOMAIN h = Objects /\ q \in [1 .. Len(q) -> Ids]
    BY DEF Linked
<1>2. IsFiniteSet(Objects) /\ Cardinality(Objects) = Cardinality(Ids) + 1 /\ Cardinality(Ids) \in Nat
    BY ImmediatesAssumption, FS_AddElement, FS_CardinalityType DEF Objects
<1>3. q \in Injection(1 .. Len(q), Ids)
    BY <1>1 DEF Linked, Injection, IsInjective
<1>4. Cardinality(1 .. Len(q)) <= Cardinality(Ids)
    BY <1>3, ImmediatesAssumption, FS_Injection
<1>5. Cardinality(1 .. Len(q)) = IF 1 > Len(q) THEN 0 ELSE Len(q) - 1 + 1
  <2>1. 1 \in Int /\ Len(q) \in Int
      BY <1>1
  <2> QED
      BY <2>1, FS_Interval, Zenon
<1> QED
    BY <1>1, <1>2, <1>4, <1>5

(* The walk goes around the circle.                                        *)
LEMMA WalkAround ==
    ASSUME NEW h, NEW q, Linked(h, q), NEW n \in Nat, NEW f, IsWalk(f, h, n)
    PROVE  \A k \in 0 .. Len(q) + 1 : k <= n => f[k] = At(q, k)
<1> DEFINE T == {k \in Nat : k \in 0 .. Len(q) + 1 /\ k <= n => f[k] = At(q, k)}
<1>0. Len(q) \in Nat /\ \A k \in 1 .. Len(q) : q[k] \in Ids
    BY DEF Linked
<1>1. 0 \in T
    BY DEF IsWalk, At
<1>2. ASSUME NEW k \in Nat, k \in T PROVE k + 1 \in T
  <2> SUFFICES ASSUME k + 1 \in 0 .. Len(q) + 1, k + 1 <= n PROVE f[k + 1] = At(q, k + 1)
      OBVIOUS
  <2>1. k \in 0 .. Len(q) /\ k <= n /\ k + 1 \in 0 .. n /\ (k + 1) - 1 = k
      BY <1>0
  <2>2. f[k] = At(q, k)
      BY <2>1, <1>0, <1>2
  <2>3. f[k + 1] = Back(h, f[k])
      BY <2>1 DEF IsWalk
  <2>4. At(q, k) # Null
      BY <1>0, ImmediatesAssumption DEF At
  <2>5. h[At(q, k)].prev = At(q, k + 1)
      BY <2>1 DEF Linked
  <2> QED
      BY <2>2, <2>3, <2>4, <2>5 DEF Back
<1> HIDE DEF T
<1>3. Nat \subseteq T
    BY <1>1, <1>2, Induction
<1> QED
    BY <1>3, <1>0 DEF T

(* What the list holds is the queue.                                       *)
LEMMA ItemsAreQueue ==
    ASSUME NEW h, NEW q, Linked(h, q) PROVE Items(h, Queue) = q
<1> DEFINE bound == Cardinality(DOMAIN h)
           at[k \in 0 .. bound] == IF k = 0 THEN Queue
                                   ELSE IF at[k - 1] = Null THEN Null
                                   ELSE h[at[k - 1]].prev
           back == {k \in 1 .. bound : at[k] = Queue}
           first == CHOOSE k \in back : \A j \in back : k <= j
<1>1. Len(q) \in Nat /\ bound \in Nat /\ Len(q) < bound
    BY QueueFits
<1>2. \E f : IsWalk(f, h, bound)
    BY <1>1, WalkExists
<1>3. IsWalk(at, h, bound)
    BY <1>2 DEF IsWalk, Back
<1>4. Items(h, Queue) = [k \in 1 .. first - 1 |-> at[k]]
    BY DEF Items
<1> HIDE DEF bound, at
<1>5. \A k \in 0 .. Len(q) + 1 : at[k] = At(q, k)
    BY <1>1, <1>3, WalkAround
<1>6. Len(q) + 1 \in back
    BY <1>1, <1>5 DEF At
<1>7. \A k \in 1 .. Len(q) : at[k] = q[k] /\ q[k] # Queue
    BY <1>1, <1>5, ImmediatesAssumption DEF At, Linked
<1>8. \A j \in back : Len(q) + 1 <= j
    BY <1>1, <1>7
<1>9. first = Len(q) + 1
  <2>1. first \in back /\ \A j \in back : first <= j
      BY <1>6, <1>8
  <2> QED
      BY <2>1, <1>1, <1>6, <1>8
<1> HIDE DEF first
<1>10. Items(h, Queue) = [k \in 1 .. Len(q) |-> q[k]]
    BY <1>1, <1>4, <1>7, <1>9
<1> QED
    BY <1>10, <1>1 DEF Linked

(* The places of the circle: the head is at 0 and at the end.              *)
LEMMA Places ==
    ASSUME NEW h, NEW q, Linked(h, q)
    PROVE  /\ Len(q) \in Nat /\ At(q, 0) = Queue /\ At(q, Len(q) + 1) = Queue
           /\ \A k \in 1 .. Len(q) : At(q, k) = q[k] /\ q[k] \in Ids /\ q[k] # Queue
           /\ \A k \in 0 .. Len(q) + 1 : At(q, k) \in Objects
           /\ \A k, l \in 0 .. Len(q) : At(q, k) = At(q, l) => k = l
           /\ \A k, l \in 1 .. Len(q) + 1 : At(q, k) = At(q, l) => k = l
<1>1. Len(q) \in Nat /\ \A k \in 1 .. Len(q) : q[k] \in Ids /\ q[k] # Queue
    BY ImmediatesAssumption DEF Linked
<1>2. At(q, 0) = Queue /\ At(q, Len(q) + 1) = Queue /\ \A k \in 1 .. Len(q) : At(q, k) = q[k]
    BY <1>1 DEF At
<1>3. \A k \in 0 .. Len(q) + 1 : k = 0 \/ k = Len(q) + 1 \/ k \in 1 .. Len(q)
    BY <1>1
<1>4. \A k \in 0 .. Len(q) + 1 : At(q, k) \in Objects
    BY <1>1, <1>2, <1>3 DEF Objects
<1>5. \A k, l \in 1 .. Len(q) : At(q, k) = At(q, l) => k = l
    BY <1>2 DEF Linked
<1>6. \A k, l \in 0 .. Len(q) : At(q, k) = At(q, l) => k = l
  <2> TAKE k, l \in 0 .. Len(q)
  <2>1. (k = 0 \/ k \in 1 .. Len(q)) /\ (l = 0 \/ l \in 1 .. Len(q))
      BY <1>1
  <2> QED
      BY <2>1, <1>1, <1>2, <1>5
<1>7. \A k, l \in 1 .. Len(q) + 1 : At(q, k) = At(q, l) => k = l
  <2> TAKE k, l \in 1 .. Len(q) + 1
  <2>1. (k = Len(q) + 1 \/ k \in 1 .. Len(q)) /\ (l = Len(q) + 1 \/ l \in 1 .. Len(q))
      BY <1>1
  <2> QED
      BY <2>1, <1>1, <1>2, <1>5
<1> QED
    BY <1>1, <1>2, <1>4, <1>6, <1>7

-----------------------------------------------------------------------------
(* append().                                                               *)

(* The pointers that append() changes: the item's own, the last one's and  *)
(* the head's.                                                             *)
Appended(h, i) ==
    LET last == h[Queue].next
    IN  [x \in Objects |-> [next |-> IF x = i THEN last ELSE IF x = Queue THEN i ELSE h[x].next,
                            prev |-> IF x = i THEN Queue ELSE IF x = last THEN i ELSE h[x].prev]]

LEMMA AppendPointers ==
    ASSUME NEW h \in [Objects -> Pointers], NEW i \in Ids, h[Queue].next \in Objects \ {i}
    PROVE  Append_(InitLink(h, i), Queue, i) = Appended(h, i)
<1> DEFINE h0 == InitLink(h, i)
           h1 == Remove(h0, i)
           h2 == [h1 EXCEPT ![i].next = h1[Queue].next]
           h3 == [h2 EXCEPT ![h2[Queue].next].prev = i]
           h4 == [h3 EXCEPT ![i].prev = Queue, ![Queue].next = i]
           last == h[Queue].next
<1>0. i \in Objects /\ Queue \in Objects /\ i # Queue /\ i # Null
    BY ImmediatesAssumption DEF Objects
<1>1. h0 \in [Objects -> Pointers] /\ h0[i] = [next |-> i, prev |-> i] /\ \A x \in Objects : x # i => h0[x] = h[x]
    BY <1>0 DEF InitLink, Pointers
<1>2. h1 \in [Objects -> Pointers] /\ h1[i] = Unlinked /\ \A x \in Objects : x # i => h1[x] = h[x]
  <2> DEFINE g1 == [h0 EXCEPT ![h0[i].next].prev = h0[i].prev]
             g2 == [g1 EXCEPT ![g1[i].prev].next = g1[i].next]
  <2> HIDE DEF h0
  <2>1. g1 \in [Objects -> Pointers] /\ g1[i] = [next |-> i, prev |-> i] /\ \A x \in Objects : x # i => g1[x] = h0[x]
      BY <1>0, <1>1 DEF Pointers
  <2> HIDE DEF g1
  <2>2. g2 \in [Objects -> Pointers] /\ g2[i] = [next |-> i, prev |-> i] /\ \A x \in Objects : x # i => g2[x] = h0[x]
      BY <1>0, <2>1 DEF Pointers
  <2> HIDE DEF g2
  <2>3. h1 = [g2 EXCEPT ![i] = Unlinked]
      BY <1>0, <1>1, <2>1 DEF Remove, g1, g2
  <2> QED
      BY <1>0, <1>1, <2>2, <2>3 DEF Pointers, Unlinked
<1> HIDE DEF h0, h1
<1>3. /\ h2 \in [Objects -> Pointers] /\ h2[i] = [next |-> last, prev |-> Null]
      /\ \A x \in Objects : x # i => h2[x] = h[x]
    BY <1>0, <1>2 DEF Pointers, Unlinked
<1> HIDE DEF h2
<1>4. /\ h3 \in [Objects -> Pointers] /\ h3[i] = [next |-> last, prev |-> Null]
      /\ h3[last] = [next |-> h[last].next, prev |-> i]
      /\ \A x \in Objects : x # i /\ x # last => h3[x] = h[x]
    BY <1>0, <1>3 DEF Pointers
<1> HIDE DEF h3
<1>5. /\ h4 \in [Objects -> Pointers] /\ h4[i] = [next |-> last, prev |-> Queue]
      /\ h4[Queue] = [next |-> i, prev |-> h3[Queue].prev]
      /\ \A x \in Objects : x # i /\ x # Queue => h4[x] = h3[x]
    BY <1>0, <1>4 DEF Pointers
<1>6. Append_(h0, Queue, i) = h4
    BY DEF Append_, h1, h2, h3
<1> HIDE DEF h4
<1>7. \A x \in Objects : h4[x] = Appended(h, i)[x]
  <2> TAKE x \in Objects
  <2>1. CASE x = i
      BY <1>5, <2>1 DEF Appended
  <2>2. CASE x = Queue
      BY <1>0, <1>4, <1>5, <2>2 DEF Appended, Pointers
  <2>3. CASE x # i /\ x # Queue
    <3>1. h4[x] = IF x = last THEN [next |-> h[last].next, prev |-> i] ELSE h[x]
        BY <1>4, <1>5, <2>3
    <3>2. h[x] = [next |-> h[x].next, prev |-> h[x].prev]
        BY DEF Pointers
    <3> QED
        BY <2>3, <3>1, <3>2 DEF Appended
  <2> QED
      BY <2>1, <2>2, <2>3
<1>8. h4 = [x \in Objects |-> h4[x]] /\ Appended(h, i) = [x \in Objects |-> Appended(h, i)[x]]
    BY <1>5 DEF Appended
<1> QED
    BY <1>6, <1>7, <1>8 DEF h0

LEMMA AppendQueue ==
    ASSUME NEW h, NEW q, Linked(h, q), NEW i \in Ids, \A k \in 1 .. Len(q) : q[k] # i
    PROVE  Linked(Append_(InitLink(h, i), Queue, i), Append(q, i))
<1> DEFINE n == Len(q)
           r == Append(q, i)
           g == Appended(h, i)
           last == h[Queue].next
<1>0. i \in Objects /\ Queue \in Objects /\ i # Queue /\ n \in Nat
    BY ImmediatesAssumption DEF Objects, Linked
<1>1. /\ q \in Seq(Ids) /\ r \in Seq(Ids) /\ Len(r) = n + 1 /\ r[n + 1] = i
      /\ \A k \in 1 .. n : r[k] = q[k]
    BY DEF Linked
<1> HIDE DEF r
<1>2. last = At(q, n) /\ last \in Objects /\ last # i
  <2>1. h[At(q, n + 1)].next = At(q, n)
      BY <1>0 DEF Linked
  <2>2. n = 0 \/ n \in 1 .. Len(q)
      BY <1>0
  <2> QED
      BY <2>1, <2>2, <1>0, Places
<1> HIDE DEF last
<1>3. Append_(InitLink(h, i), Queue, i) = g
    BY <1>2, AppendPointers DEF Linked, last
<1>4. /\ g[i] = [next |-> last, prev |-> Queue]
      /\ \A x \in Objects \ {i} : /\ g[x].next = IF x = Queue THEN i ELSE h[x].next
                                  /\ g[x].prev = IF x = last THEN i ELSE h[x].prev
    BY <1>0 DEF Appended, last
<1>5. g \in [Objects -> Pointers]
    BY <1>0, <1>2 DEF Appended, Pointers, Linked, last
<1> HIDE DEF g
<1>6. At(r, n + 1) = i /\ At(r, n + 2) = Queue /\ \A k \in 0 .. n : At(r, k) = At(q, k)
    BY <1>0, <1>1 DEF At
<1>7. \A k \in 0 .. n : At(q, k) \in Objects \ {i}
  <2> TAKE k \in 0 .. n
  <2>1. k = 0 \/ k \in 1 .. n
      BY <1>0
  <2> QED
      BY <2>1, <1>0, Places DEF Objects
<1>8. ASSUME NEW k \in 0 .. n + 1
      PROVE  g[At(r, k)].prev = At(r, k + 1) /\ g[At(r, k + 1)].next = At(r, k)
  <2>1. CASE k = n + 1
    <3>1. g[i].prev = Queue /\ g[Queue].next = i
        BY <1>0, <1>4
    <3> QED
        BY <2>1, <3>1, <1>6, <1>0
  <2>2. CASE k = n
    <3>1. g[last].prev = i /\ g[i].next = last
        BY <1>2, <1>4
    <3>2. At(r, k) = last /\ At(r, k + 1) = i
        BY <2>2, <1>0, <1>2, <1>6
    <3> QED
        BY <3>1, <3>2
  <2>3. CASE k \in 0 .. n - 1
    <3>1. k \in 0 .. n /\ n \in 0 .. n /\ k # n /\ k + 1 \in 1 .. n /\ k + 1 \in 0 .. n
        BY <2>3, <1>0
    <3>2. At(r, k) = At(q, k) /\ At(r, k + 1) = At(q, k + 1)
        BY <3>1, <1>6
    <3>3. At(q, k) # last /\ At(q, k + 1) # Queue
        BY <3>1, <1>2, Places
    <3>4. h[At(q, k)].prev = At(q, k + 1) /\ h[At(q, k + 1)].next = At(q, k)
        BY <3>1 DEF Linked
    <3> QED
        BY <3>1, <3>2, <3>3, <3>4, <1>4, <1>7
  <2> QED
      BY <2>1, <2>2, <2>3, <1>0
<1>9. \A k, l \in 1 .. Len(r) : r[k] = r[l] => k = l
  <2> TAKE k, l \in 1 .. Len(r)
  <2>1. (k = n + 1 \/ k \in 1 .. n) /\ (l = n + 1 \/ l \in 1 .. n)
      BY <1>0, <1>1
  <2> QED
      BY <2>1, <1>0, <1>1 DEF Linked
<1>10. ASSUME NEW x \in Ids, \A k \in 1 .. Len(r) : r[k] # x PROVE g[x] = Unlinked
  <2>1. x # i /\ \A k \in 1 .. n : q[k] # x
      BY <1>0, <1>1, <1>10
  <2>2. h[x] = Unlinked /\ x \in Objects \ {i} /\ x # Queue
      BY <2>1, ImmediatesAssumption DEF Linked, Objects
  <2>3. x # last
    <3>1. n = 0 \/ n \in 1 .. n
        BY <1>0
    <3> QED
        BY <3>1, <1>2, <2>1, <2>2, Places
  <2>4. g[x] = [next |-> g[x].next, prev |-> g[x].prev]
      BY <1>5, <2>2 DEF Pointers
  <2> QED
      BY <2>2, <2>3, <2>4, <1>4 DEF Unlinked
<1>11. 0 .. Len(r) = 0 .. n + 1
    BY <1>1
<1>12. Linked(g, r)
    BY <1>1, <1>5, <1>8, <1>9, <1>10, <1>11 DEF Linked
<1> QED
    BY <1>3, <1>12 DEF r

-----------------------------------------------------------------------------
(* remove() and shift().                                                   *)

LEMMA RemovePointers ==
    ASSUME NEW h \in [Objects -> Pointers], NEW i \in Ids,
           h[i].next \in Objects \ {i}, h[i].prev \in Objects \ {i}
    PROVE  Remove(h, i) =
             [x \in Objects |->
                IF x = i THEN Unlinked
                ELSE [next |-> IF x = h[i].prev THEN h[i].next ELSE h[x].next,
                      prev |-> IF x = h[i].next THEN h[i].prev ELSE h[x].prev]]
<1> DEFINE nx == h[i].next
           pv == h[i].prev
           h1 == [h EXCEPT ![nx].prev = pv]
           h2 == [h1 EXCEPT ![pv].next = nx]
           h3 == [h2 EXCEPT ![i] = Unlinked]
           g == [x \in Objects |-> IF x = i THEN Unlinked
                                   ELSE [next |-> IF x = pv THEN nx ELSE h[x].next,
                                         prev |-> IF x = nx THEN pv ELSE h[x].prev]]
<1>0. i \in Objects /\ nx \in Objects \ {i} /\ pv \in Objects \ {i} /\ nx # Null /\ pv # Null
    BY ImmediatesAssumption DEF Objects
<1>1. /\ h1 \in [Objects -> Pointers] /\ h1[i] = h[i]
      /\ \A x \in Objects : h1[x] = [next |-> h[x].next, prev |-> IF x = nx THEN pv ELSE h[x].prev]
    BY <1>0 DEF Pointers
<1>2. Remove(h, i) = h3
    BY <1>0, <1>1 DEF Remove
<1> HIDE DEF h1
<1>3. /\ h2 \in [Objects -> Pointers]
      /\ \A x \in Objects : h2[x] = [next |-> IF x = pv THEN nx ELSE h[x].next,
                                     prev |-> IF x = nx THEN pv ELSE h[x].prev]
    BY <1>0, <1>1 DEF Pointers
<1> HIDE DEF h2
<1>4. h3 = [x \in Objects |-> h3[x]] /\ \A x \in Objects : h3[x] = IF x = i THEN Unlinked ELSE h2[x]
    BY <1>0, <1>3
<1> HIDE DEF h3
<1>5. \A x \in Objects : h3[x] = g[x]
    BY <1>3, <1>4
<1> QED
    BY <1>2, <1>4, <1>5

(* What is left of a queue without its m-th item.                          *)
LEMMA WithoutItem ==
    ASSUME NEW q \in Seq(Ids), NEW m \in 1 .. Len(q)
    PROVE  LET r == Abstract!Without(q, m)
           IN  /\ r \in Seq(Ids) /\ Len(r) = Len(q) - 1
               /\ \A k \in 1 .. Len(q) - 1 : r[k] = IF k < m THEN q[k] ELSE q[k + 1]
<1> DEFINE n == Len(q)
           r == Abstract!Without(q, m)
           a == SubSeq(q, 1, m - 1)
           b == SubSeq(q, m + 1, n)
<1>0. n \in Nat /\ m \in 1 .. n
    OBVIOUS
<1>1. a \in Seq(Ids) /\ Len(a) = m - 1 /\ \A k \in 1 .. m - 1 : a[k] = q[k]
    BY <1>0
<1>2. b \in Seq(Ids) /\ Len(b) = n - m /\ \A k \in 1 .. n - m : b[k] = q[m + k]
    BY <1>0
<1>3. r = a \o b
    BY DEF Abstract!Without
<1> HIDE DEF a, b, r
<1>4. /\ r \in Seq(Ids) /\ Len(r) = n - 1
      /\ \A k \in 1 .. n - 1 : r[k] = IF k <= m - 1 THEN a[k] ELSE b[k - (m - 1)]
  <2> HIDE DEF n
  <2>1. r \in Seq(Ids) /\ Len(r) = Len(a) + Len(b)
        /\ \A k \in 1 .. Len(a) + Len(b) : r[k] = IF k <= Len(a) THEN a[k] ELSE b[k - Len(a)]
      BY <1>1, <1>2, <1>3, ConcatProperties
  <2>2. Len(a) + Len(b) = n - 1
      BY <1>0, <1>1, <1>2
  <2> QED
      BY <2>1, <2>2, <1>1
<1>5. ASSUME NEW k \in 1 .. n - 1 PROVE r[k] = IF k < m THEN q[k] ELSE q[k + 1]
  <2>1. CASE k < m
      BY <2>1, <1>0, <1>1, <1>4
  <2>2. CASE k >= m
    <3>1. k - (m - 1) \in 1 .. n - m /\ m + (k - (m - 1)) = k + 1 /\ ~(k <= m - 1) /\ ~(k < m)
        BY <2>2, <1>0
    <3>2. r[k] = b[k - (m - 1)]
        BY <3>1, <1>4
    <3>3. b[k - (m - 1)] = q[m + (k - (m - 1))]
        BY <3>1, <1>2
    <3> QED
        BY <3>1, <3>2, <3>3
  <2> QED
      BY <2>1, <2>2, <1>0
<1> QED
    BY <1>4, <1>5 DEF r

LEMMA RemoveFromQueue ==
    ASSUME NEW h, NEW q, Linked(h, q), NEW m \in 1 .. Len(q)
    PROVE  Linked(Remove(h, q[m]), Abstract!Without(q, m))
<1> DEFINE n == Len(q)
           i == q[m]
           r == Abstract!Without(q, m)
           g == Remove(h, i)
           nx == At(q, m - 1)
           pv == At(q, m + 1)
<1>0. i \in Ids /\ i \in Objects /\ i # Queue /\ n \in Nat /\ i = At(q, m)
    BY Places DEF Objects
<1>1. m \in 1 .. n /\ m - 1 \in 0 .. n /\ m + 1 \in 1 .. n + 1 /\ m \in 0 .. n /\ m \in 1 .. n + 1
    BY <1>0
<1>2. h[i].next = nx /\ h[i].prev = pv
  <2>1. (m - 1) + 1 = m
      BY <1>1
  <2> QED
      BY <1>0, <1>1, <2>1 DEF Linked
<1>3. nx \in Objects \ {i} /\ pv \in Objects \ {i}
  <2>1. m - 1 # m /\ m + 1 # m /\ m - 1 \in 0 .. n + 1 /\ m + 1 \in 0 .. n + 1
      BY <1>1
  <2> QED
      BY <2>1, <1>0, <1>1, Places
<1>4. /\ r \in Seq(Ids) /\ Len(r) = n - 1
      /\ \A k \in 1 .. n - 1 : r[k] = IF k < m THEN q[k] ELSE q[k + 1]
    BY WithoutItem DEF Linked
<1> HIDE DEF r
<1>5. /\ g \in [Objects -> Pointers] /\ g[i] = Unlinked
      /\ \A x \in Objects \ {i} : /\ g[x].next = IF x = pv THEN nx ELSE h[x].next
                                  /\ g[x].prev = IF x = nx THEN pv ELSE h[x].prev
  <2>1. h \in [Objects -> Pointers]
      BY DEF Linked
  <2>2. g = [x \in Objects |-> IF x = i THEN Unlinked
                               ELSE [next |-> IF x = pv THEN nx ELSE h[x].next,
                                     prev |-> IF x = nx THEN pv ELSE h[x].prev]]
      BY <2>1, <1>0, <1>2, <1>3, RemovePointers
  <2> HIDE DEF g, nx, pv
  <2> QED
      BY <2>1, <2>2, <1>0, <1>3 DEF Pointers, Unlinked
<1> HIDE DEF g
<1>6. \A k \in 0 .. n : At(r, k) = IF k < m THEN At(q, k) ELSE At(q, k + 1)
  <2> TAKE k \in 0 .. n
  <2>1. CASE k \in 1 .. n - 1
    <3>1. k \in 1 .. Len(r) /\ k \in 1 .. n /\ k + 1 \in 1 .. n
        BY <2>1, <1>0, <1>4
    <3> QED
        BY <2>1, <3>1, <1>4 DEF At
  <2>2. CASE k = 0
      BY <2>2, <1>0, <1>1, <1>4 DEF At
  <2>3. CASE k = n
      BY <2>3, <1>0, <1>1, <1>4 DEF At
  <2> QED
      BY <2>1, <2>2, <2>3, <1>0
<1>7. ASSUME NEW k \in 0 .. n - 1
      PROVE  g[At(r, k)].prev = At(r, k + 1) /\ g[At(r, k + 1)].next = At(r, k)
  <2>0. k \in 0 .. n /\ k + 1 \in 0 .. n /\ k + 1 \in 1 .. n + 1 /\ m - 1 \in 0 .. n
      BY <1>0, <1>1
  <2>1. CASE k + 1 < m
    <3>1. k # m - 1 /\ k # m /\ k + 1 # m /\ k + 1 # m + 1 /\ k < m
        BY <2>1, <1>1
    <3>2. At(r, k) = At(q, k) /\ At(r, k + 1) = At(q, k + 1)
        BY <2>0, <2>1, <3>1, <1>6
    <3>3. At(q, k) # nx /\ At(q, k + 1) # pv /\ At(q, k) # i /\ At(q, k + 1) # i
        BY <2>0, <3>1, <1>0, <1>1, Places
    <3>4. At(q, k) \in Objects /\ At(q, k + 1) \in Objects
        BY <2>0, <1>0, Places
    <3>5. h[At(q, k)].prev = At(q, k + 1) /\ h[At(q, k + 1)].next = At(q, k)
        BY <2>0 DEF Linked
    <3> QED
        BY <3>2, <3>3, <3>4, <3>5, <1>5
  <2>2. CASE k = m - 1
    <3>1. At(r, k) = nx /\ At(r, k + 1) = pv
        BY <2>0, <2>2, <1>1, <1>6
    <3> QED
        BY <3>1, <1>3, <1>5
  <2>3. CASE k >= m
    <3>1. /\ k + 1 # m - 1 /\ k + 1 # m /\ (k + 1) + 1 # m + 1 /\ (k + 1) + 1 # m
          /\ (k + 1) + 1 \in 1 .. n + 1 /\ (k + 1) + 1 \in 0 .. n + 1 /\ ~(k < m) /\ ~(k + 1 < m)
        BY <2>0, <2>3, <1>0, <1>1
    <3>2. At(r, k) = At(q, k + 1) /\ At(r, k + 1) = At(q, (k + 1) + 1)
        BY <2>0, <3>1, <1>6
    <3>3. At(q, k + 1) # nx /\ At(q, (k + 1) + 1) # pv /\ At(q, k + 1) # i /\ At(q, (k + 1) + 1) # i
        BY <2>0, <3>1, <1>0, <1>1, Places
    <3>4. At(q, k + 1) \in Objects /\ At(q, (k + 1) + 1) \in Objects
        BY <2>0, <3>1, <1>0, Places
    <3>5. h[At(q, k + 1)].prev = At(q, (k + 1) + 1) /\ h[At(q, (k + 1) + 1)].next = At(q, k + 1)
        BY <2>0 DEF Linked
    <3> QED
        BY <3>2, <3>3, <3>4, <3>5, <1>5
  <2> QED
      BY <2>1, <2>2, <2>3, <1>0, <1>1
<1>8. \A k, l \in 1 .. Len(r) : r[k] = r[l] => k = l
  <2> TAKE k, l \in 1 .. Len(r)
  <2>1. k \in 1 .. n /\ k + 1 \in 1 .. n /\ l \in 1 .. n /\ l + 1 \in 1 .. n
      BY <1>0, <1>4
  <2>2. \A a, b \in 1 .. n : q[a] = q[b] => a = b
      BY DEF Linked
  <2>3. r[k] = (IF k < m THEN q[k] ELSE q[k + 1]) /\ r[l] = (IF l < m THEN q[l] ELSE q[l + 1])
      BY <1>4
  <2> HIDE DEF n
  <2> QED
      BY <2>1, <2>2, <2>3, <1>1
<1>9. ASSUME NEW x \in Ids, \A k \in 1 .. Len(r) : r[k] # x PROVE g[x] = Unlinked
  <2>1. CASE x = i
      BY <2>1, <1>5
  <2>2. CASE x # i
    <3>1. \A k \in 1 .. n : q[k] # x
      <4> TAKE k \in 1 .. n
      <4>1. CASE k < m
        <5>1. k \in 1 .. n - 1
            BY <4>1, <1>1
        <5> QED
            BY <5>1, <4>1, <1>4, <1>9
      <4>2. CASE k > m
        <5>1. k - 1 \in 1 .. n - 1 /\ ~(k - 1 < m) /\ (k - 1) + 1 = k
            BY <4>2, <1>1
        <5> QED
            BY <5>1, <1>4, <1>9
      <4> QED
          BY <4>1, <4>2, <2>2, <1>1
    <3>2. h[x] = Unlinked /\ x \in Objects \ {i} /\ x # Queue
        BY <3>1, <2>2, ImmediatesAssumption DEF Linked, Objects
    <3>3. x # nx /\ x # pv
        BY <3>1, <3>2, <1>1 DEF At
    <3>4. g[x] = [next |-> g[x].next, prev |-> g[x].prev]
        BY <1>5, <3>2 DEF Pointers
    <3> QED
        BY <3>2, <3>3, <3>4, <1>5 DEF Unlinked
  <2> QED
      BY <2>1, <2>2
<1>10. 0 .. Len(r) = 0 .. n - 1
    BY <1>4
<1>11. Linked(g, r)
    BY <1>4, <1>5, <1>7, <1>8, <1>9, <1>10 DEF Linked
<1> QED
    BY <1>11 DEF g, r

(* remove() of an object that is in no list changes nothing.               *)
LEMMA RemoveUnlinked ==
    ASSUME NEW h, NEW q, Linked(h, q), NEW i \in Ids, \A k \in 1 .. Len(q) : q[k] # i
    PROVE  Remove(h, i) = h
<1>1. h \in [Objects -> Pointers] /\ i \in Objects /\ h[i] = Unlinked
    BY DEF Linked, Objects
<1>2. [h EXCEPT ![i] = Unlinked] = h
    BY <1>1
<1> QED
    BY <1>1, <1>2 DEF Remove, Unlinked

LEMMA EmptyQueue ==
    ASSUME NEW h, NEW q, Linked(h, q) PROVE IsEmpty(h, Queue) <=> q = <<>>
<1>1. Len(q) \in Nat /\ At(q, Len(q) + 1) = Queue /\ At(q, 0) = Queue
      /\ \A k \in 1 .. Len(q) : At(q, k) # Queue
    BY Places
<1>2. h[Queue].next = At(q, Len(q))
    BY <1>1 DEF Linked
<1>3. Len(q) = 0 \/ Len(q) \in 1 .. Len(q)
    BY <1>1
<1>4. q = <<>> <=> Len(q) = 0
    BY DEF Linked
<1> QED
    BY <1>1, <1>2, <1>3, <1>4 DEF IsEmpty

LEMMA PointersAnswered ==
    ASSUME NEW h, NEW q, Linked(h, q) PROVE WellLinked(h)
<1>1. DOMAIN h = Objects /\ Len(q) \in Nat /\ Queue # Null /\ \A i \in Ids : i # Null
    BY ImmediatesAssumption DEF Linked
<1> SUFFICES ASSUME NEW x \in Objects
             PROVE  /\ (h[x].next = Null) <=> (h[x].prev = Null)
                    /\ h[x].next # Null => h[h[x].next].prev = x /\ h[h[x].prev].next = x
    BY <1>1 DEF WellLinked
<1>2. ASSUME NEW k \in 0 .. Len(q), NEW l \in 0 .. Len(q), x = At(q, k), x = At(q, l + 1)
      PROVE  /\ h[x].prev = At(q, k + 1) /\ h[x].next = At(q, l) /\ h[x].next # Null /\ h[x].prev # Null
             /\ h[h[x].next].prev = x /\ h[h[x].prev].next = x
  <2>1. h[x].prev = At(q, k + 1) /\ h[At(q, k + 1)].next = x /\ h[x].next = At(q, l) /\ h[At(q, l)].prev = x
      BY <1>2 DEF Linked
  <2>2. k + 1 \in 0 .. Len(q) + 1 /\ l \in 0 .. Len(q) + 1
      BY <1>1
  <2>3. At(q, k + 1) # Null /\ At(q, l) # Null
      BY <2>2, <1>1, Places DEF Objects
  <2> QED
      BY <2>1, <2>3
<1>3. CASE x = Queue
  <2>1. 0 \in 0 .. Len(q) /\ Len(q) \in 0 .. Len(q) /\ x = At(q, 0) /\ x = At(q, Len(q) + 1)
      BY <1>1, <1>3, Places
  <2> QED
      BY <2>1, <1>2
<1>4. CASE \E m \in 1 .. Len(q) : q[m] = x
  <2>1. PICK m \in 1 .. Len(q) : q[m] = x
      BY <1>4
  <2>2. m \in 0 .. Len(q) /\ m - 1 \in 0 .. Len(q) /\ (m - 1) + 1 = m /\ x = At(q, m)
      BY <1>1, <2>1, Places
  <2> QED
      BY <2>2, <1>2
<1>5. CASE x \in Ids /\ \A m \in 1 .. Len(q) : q[m] # x
    BY <1>5 DEF Linked, Unlinked
<1> QED
    BY <1>3, <1>4, <1>5 DEF Objects

LEMMA ShiftQueue ==
    ASSUME NEW h, NEW q, Linked(h, q), q # <<>>
    PROVE  First(h, Queue) = Head(q) /\ Linked(Shift(h, Queue), Tail(q))
           /\ 1 \in 1 .. Len(q) /\ Head(q) = q[1] /\ Tail(q) = Abstract!Without(q, 1)
<1>1. Len(q) \in Nat /\ Len(q) >= 1 /\ q \in Seq(Ids) /\ 1 \in 1 .. Len(q) /\ Head(q) = q[1]
    BY DEF Linked
<1>2. Tail(q) = Abstract!Without(q, 1)
  <2>1. SubSeq(q, 1, 0) = <<>> /\ Tail(q) = SubSeq(q, 2, Len(q))
      BY <1>1
  <2>2. SubSeq(q, 2, Len(q)) \in Seq(Ids)
      BY <1>1
  <2> QED
      BY <2>1, <2>2, ConcatEmptySeq DEF Abstract!Without
<1>3. First(h, Queue) = q[1]
  <2>1. At(q, 0) = Queue /\ At(q, 0 + 1) = q[1]
      BY <1>1 DEF At
  <2> QED
      BY <2>1, <1>1 DEF Linked, First
<1>4. Linked(Remove(h, q[1]), Abstract!Without(q, 1))
    BY <1>1, RemoveFromQueue
<1> QED
    BY <1>1, <1>2, <1>3, <1>4 DEF Shift

-----------------------------------------------------------------------------
(* The inductive invariant.                                                *)

Queued == Items(link, Queue)

(* The list is a queue of immediates that still have their callbacks.      *)
QueueIs(q) == Linked(link, q) /\ \A k \in 1 .. Len(q) : cb[q[k]] = "set"

(* The flag, the watchers and the list agree.                              *)
Watched(q) == need \in BOOLEAN /\ watching = need /\ (need <=> q # <<>>)

(* A callback runs only in the check phase.                                *)
InPhase == /\ phase \in {"io", "check"} /\ running \in Ids \cup {Null}
           /\ phase = "io" => running = Null

ImmediatesInv ==
    /\ cb \in [Ids -> {"unmade", "set", "undefined"}]
    /\ QueueIs(Queued) /\ Watched(Queued) /\ InPhase

(* What the next state must be for a queue r, for the invariant to hold.   *)
LEMMA NextQueue ==
    ASSUME NEW r, Linked(link', r), \A k \in 1 .. Len(r) : cb'[r[k]] = "set",
           cb' \in [Ids -> {"unmade", "set", "undefined"}], InPhase',
           need' \in BOOLEAN, watching' = need', need' <=> r # <<>>
    PROVE  Items(link', Queue) = r /\ ImmediatesInv'
<1>1. Items(link', Queue) = r
    BY ItemsAreQueue
<1>2. QueueIs(Queued)' /\ Watched(Queued)'
    BY <1>1 DEF QueueIs, Watched, Queued
<1> QED
    BY <1>1, <1>2 DEF ImmediatesInv

LEMMA ImmediatesInit ==
    ASSUME Init PROVE ImmediatesInv /\ Abstract!Init
<1>1. Linked(link, <<>>)
  <2>1. Queue # Null /\ \A i \in Ids : i # Queue /\ i # Null
      BY ImmediatesAssumption
  <2>2. link \in [Objects -> Pointers]
      BY DEF Init, Objects, Pointers, Unlinked
  <2>3. Len(<<>>) = 0 /\ <<>> \in Seq(Ids) /\ 0 .. 0 = {0}
      OBVIOUS
  <2>4. At(<<>>, 0) = Queue /\ At(<<>>, 0 + 1) = Queue
      BY <2>3 DEF At
  <2>5. link[Queue] = [next |-> Queue, prev |-> Queue] /\ \A i \in Ids : link[i] = Unlinked
      BY <2>1 DEF Init
  <2> QED
      BY <2>2, <2>3, <2>4, <2>5 DEF Linked
<1>2. Items(link, Queue) = <<>> /\ Len(<<>>) = 0 /\ 1 .. 0 = {}
    BY <1>1, ItemsAreQueue
<1>3. QueueIs(Queued)
    BY <1>1, <1>2 DEF QueueIs, Queued
<1>4. Watched(Queued) /\ InPhase
    BY <1>2 DEF Watched, InPhase, Queued, Init
<1>5. ImmediatesInv
    BY <1>3, <1>4 DEF ImmediatesInv, Init
<1>6. {i \in Ids : cb[i] = "unmade"} = Ids
    BY DEF Init
<1> QED
    BY <1>2, <1>5, <1>6 DEF Init, Abstract!Init

(* Each action keeps the invariant and does what ImmediateQueue allows.    *)
Kept == ImmediatesInv' /\ [Abstract!Next]_(Abstract!vars)

LEMMA SetImmediateKept ==
    ASSUME ImmediatesInv, SetImmediate PROVE Kept
<1> DEFINE q == Items(link, Queue)
<1>1. PICK i \in Ids : /\ cb[i] = "unmade" /\ cb' = [cb EXCEPT ![i] = "set"]
                       /\ link' = Append_(InitLink(link, i), Queue, i)
    BY DEF SetImmediate
<1>2. Linked(link, q) /\ \A k \in 1 .. Len(q) : q[k] # i /\ cb[q[k]] = "set"
    BY <1>1 DEF ImmediatesInv, QueueIs, Queued
<1>3. q \in Seq(Ids) /\ Len(q) \in Nat
    BY <1>2 DEF Linked
<1> DEFINE r == Append(q, i)
<1>4. Linked(link', r)
    BY <1>1, <1>2, AppendQueue
<1> HIDE DEF q
<1>5. Len(r) = Len(q) + 1 /\ r[Len(q) + 1] = i /\ r # <<>> /\ \A k \in 1 .. Len(q) : r[k] = q[k] /\ q[k] \in Ids
    BY <1>3
<1>6. \A k \in 1 .. Len(r) : cb'[r[k]] = "set"
  <2> TAKE k \in 1 .. Len(r)
  <2>1. k = Len(q) + 1 \/ k \in 1 .. Len(q)
      BY <1>3, <1>5
  <2> QED
      BY <2>1, <1>1, <1>2, <1>5 DEF ImmediatesInv
<1>7. need' = TRUE /\ watching' = TRUE
    BY DEF SetImmediate, SetNeed, ImmediatesInv, Watched
<1>8. InPhase' /\ cb' \in [Ids -> {"unmade", "set", "undefined"}]
    BY <1>1 DEF SetImmediate, ImmediatesInv, InPhase
<1>9. Items(link', Queue) = r /\ ImmediatesInv'
  <2> HIDE DEF r
  <2> QED
      BY <1>4, <1>5, <1>6, <1>7, <1>8, NextQueue
<1>10. {j \in Ids : cb'[j] = "unmade"} = {j \in Ids : cb[j] = "unmade"} \ {i}
    BY <1>1 DEF ImmediatesInv
<1>11. Abstract!Schedule
  <2>1. i \in {j \in Ids : cb[j] = "unmade"} /\ UNCHANGED <<running, phase>>
      BY <1>1 DEF SetImmediate
  <2> QED
      BY <2>1, <1>9, <1>10 DEF Abstract!Schedule, q
<1> QED
    BY <1>9, <1>11 DEF Kept, Abstract!Next

LEMMA ClearImmediateKept ==
    ASSUME ImmediatesInv, ClearImmediate PROVE Kept
<1> DEFINE q == Items(link, Queue)
           Unmade == {j \in Ids : cb[j] = "unmade"}
<1>1. PICK i \in Ids : /\ cb[i] # "unmade" /\ cb' = [cb EXCEPT ![i] = "undefined"]
                       /\ link' = Remove(link, i)
    BY DEF ClearImmediate
<1>2. Linked(link, q) /\ \A k \in 1 .. Len(q) : q[k] \in Ids /\ cb[q[k]] = "set"
    BY DEF ImmediatesInv, QueueIs, Queued, Linked
<1>3. Unmade' = Unmade /\ UNCHANGED <<running, phase>> /\ InPhase' /\ cb' \in [Ids -> {"unmade", "set", "undefined"}]
    BY <1>1 DEF ClearImmediate, ImmediatesInv, InPhase
<1>4. ASSUME NEW r, Linked(link', r), r # <<>> => q # <<>>, \A k \in 1 .. Len(r) : cb'[r[k]] = "set"
      PROVE  Items(link', Queue) = r /\ ImmediatesInv'
  <2>1. IsEmpty(link', Queue) <=> r = <<>>
      BY <1>4, EmptyQueue
  <2>2. IF IsEmpty(link', Queue) THEN SetNeed(FALSE) ELSE UNCHANGED <<need, watching>>
      BY DEF ClearImmediate
  <2>3. need \in BOOLEAN /\ watching = need /\ (need <=> q # <<>>)
      BY DEF ImmediatesInv, Watched, Queued
  <2>4. need' \in BOOLEAN /\ watching' = need' /\ (need' <=> r # <<>>)
      BY <2>1, <2>2, <2>3, <1>4 DEF SetNeed
  <2> QED
      BY <2>4, <1>3, <1>4, NextQueue
<1>5. CASE \A k \in 1 .. Len(q) : q[k] # i
  <2>1. link' = link
      BY <1>1, <1>2, <1>5, RemoveUnlinked
  <2>2. \A k \in 1 .. Len(q) : cb'[q[k]] = "set"
      BY <1>1, <1>2, <1>5 DEF ImmediatesInv
  <2>3. ImmediatesInv'
      BY <2>1, <2>2, <1>2, <1>4
  <2>4. UNCHANGED Abstract!vars
      BY <2>1, <1>3 DEF Abstract!vars
  <2> QED
      BY <2>3, <2>4 DEF Kept
<1>6. CASE \E k \in 1 .. Len(q) : q[k] = i
  <2>1. PICK k \in 1 .. Len(q) : q[k] = i
      BY <1>6
  <2> DEFINE r == Abstract!Without(q, k)
  <2>2. Linked(link', r)
      BY <2>1, <1>1, <1>2, RemoveFromQueue
  <2>3. q \in Seq(Ids) /\ Len(q) \in Nat /\ q # <<>>
      BY <2>1, <1>2 DEF Linked
  <2>4. Len(r) = Len(q) - 1 /\ \A l \in 1 .. Len(q) - 1 : r[l] = IF l < k THEN q[l] ELSE q[l + 1]
      BY <2>3, WithoutItem
  <2> HIDE DEF r
  <2>5. \A l \in 1 .. Len(r) : cb'[r[l]] = "set"
    <3> TAKE l \in 1 .. Len(r)
    <3>1. PICK m \in 1 .. Len(q) : m # k /\ r[l] = q[m]
      <4> HIDE DEF q
      <4>1. l \in 1 .. Len(q) /\ l + 1 \in 1 .. Len(q)
          BY <2>3, <2>4
      <4> QED
          BY <4>1, <2>4, <2>1
    <3>2. q[m] # i
        BY <3>1, <2>1, <1>2 DEF Linked
    <3> QED
        BY <3>1, <3>2, <1>1, <1>2 DEF ImmediatesInv
  <2>6. Items(link', Queue) = r /\ ImmediatesInv'
      BY <2>2, <2>3, <2>5, <1>4
  <2>7. k \in DOMAIN q
      BY <2>1, <2>3
  <2>8. Abstract!Cancel
      BY <2>6, <2>7, <1>3 DEF Abstract!Cancel, r
  <2> QED
      BY <2>6, <2>8 DEF Kept, Abstract!Next
<1> QED
    BY <1>5, <1>6

LEMMA CheckImmediateKept ==
    ASSUME ImmediatesInv, CheckImmediate PROVE Kept
<1> DEFINE q == Items(link, Queue)
           r == Tail(q)
<1>1. /\ Linked(link, q) /\ \A k \in 1 .. Len(q) : q[k] \in Ids /\ cb[q[k]] = "set"
      /\ need \in BOOLEAN /\ watching = need /\ (need <=> q # <<>>)
    BY DEF ImmediatesInv, QueueIs, Queued, Linked, Watched
<1>2. phase = "io" /\ watching /\ phase' = "check" /\ link' = Shift(link, Queue) /\ running = Null /\ UNCHANGED <<cb, cleared>>
    BY DEF CheckImmediate, ImmediatesInv, InPhase
<1>3. q \in Seq(Ids) /\ Len(q) \in Nat /\ q # <<>>
    BY <1>1, <1>2 DEF Linked
<1>4. /\ First(link, Queue) = Head(q) /\ Linked(link', r) /\ 1 \in 1 .. Len(q) /\ Head(q) = q[1]
    BY <1>1, <1>2, <1>3, ShiftQueue
<1>5. running' = Head(q) /\ running' \in Ids
    BY <1>1, <1>4 DEF CheckImmediate
<1>6. InPhase' /\ cb' \in [Ids -> {"unmade", "set", "undefined"}]
    BY <1>2, <1>5 DEF InPhase, ImmediatesInv
<1>7. \A k \in 1 .. Len(r) : cb'[r[k]] = "set"
  <2>1. Len(r) = Len(q) - 1 /\ \A k \in 1 .. Len(q) - 1 : r[k] = q[k + 1]
    <3> HIDE DEF q
    <3> QED
        BY <1>3
  <2> HIDE DEF q, r
  <2> TAKE k \in 1 .. Len(r)
  <2>2. k \in 1 .. Len(q) - 1 /\ k + 1 \in 1 .. Len(q)
      BY <2>1, <1>3
  <2> QED
      BY <2>1, <2>2, <1>1, <1>2
<1>8. need' \in BOOLEAN /\ watching' = need' /\ (need' <=> r # <<>>)
  <2> HIDE DEF q, r
  <2>1. IsEmpty(link', Queue) <=> r = <<>>
      BY <1>4, EmptyQueue
  <2>2. IF IsEmpty(link', Queue) THEN SetNeed(FALSE) ELSE UNCHANGED <<need, watching>>
      BY DEF CheckImmediate
  <2> QED
      BY <2>1, <2>2, <1>1, <1>3 DEF SetNeed
<1>9. Items(link', Queue) = r /\ ImmediatesInv'
  <2> HIDE DEF q, r
  <2> QED
      BY <1>4, <1>6, <1>7, <1>8, NextQueue
<1>10. {j \in Ids : cb'[j] = "unmade"} = {j \in Ids : cb[j] = "unmade"}
    BY <1>2
<1>11. Abstract!Run
    BY <1>2, <1>3, <1>5, <1>9, <1>10 DEF Abstract!Run
<1> QED
    BY <1>9, <1>11 DEF Kept, Abstract!Next

(* A step that leaves the queue, the immediates and the flag alone.        *)
LEMMA QueueLeftAlone ==
    ASSUME ImmediatesInv, UNCHANGED <<link, cb, need, watching>>, InPhase'
    PROVE  ImmediatesInv' /\ UNCHANGED <<Items(link, Queue), {i \in Ids : cb[i] = "unmade"}>>
<1>1. Linked(link, Queued) /\ \A k \in 1 .. Len(Queued) : cb[Queued[k]] = "set"
    BY DEF ImmediatesInv, QueueIs
<1>2. need \in BOOLEAN /\ watching = need /\ (need <=> Queued # <<>>) /\ cb \in [Ids -> {"unmade", "set", "undefined"}]
    BY DEF ImmediatesInv, Watched
<1>3. ImmediatesInv'
    BY <1>1, <1>2, NextQueue
<1> QED
    BY <1>3

LEMMA OtherStepsKept ==
    ASSUME ImmediatesInv, CallbackEnds \/ NextIteration \/ UNCHANGED vars PROVE Kept
<1>1. CASE CallbackEnds
  <2>1. InPhase' /\ UNCHANGED <<link, cb, need, watching, phase>>
      BY <1>1 DEF CallbackEnds, ImmediatesInv, InPhase
  <2>2. Abstract!Finish
      BY <1>1, <2>1, QueueLeftAlone DEF CallbackEnds, Abstract!Finish
  <2> QED
      BY <2>1, <2>2, QueueLeftAlone DEF Kept, Abstract!Next
<1>2. CASE NextIteration
  <2>1. InPhase' /\ UNCHANGED <<link, cb, need, watching, running>>
      BY <1>2 DEF NextIteration, ImmediatesInv, InPhase
  <2>2. Abstract!Iterate
      BY <1>2, <2>1, QueueLeftAlone DEF NextIteration, Abstract!Iterate
  <2> QED
      BY <2>1, <2>2, QueueLeftAlone DEF Kept, Abstract!Next
<1>3. CASE UNCHANGED vars
  <2>1. InPhase' /\ UNCHANGED <<link, cb, need, watching, running, phase>>
      BY <1>3 DEF vars, ImmediatesInv, InPhase
  <2> QED
      BY <2>1, QueueLeftAlone DEF Kept, Abstract!vars
<1> QED
    BY <1>1, <1>2, <1>3

LEMMA ImmediatesNext ==
    ASSUME ImmediatesInv, [Next]_vars PROVE Kept
BY SetImmediateKept, ClearImmediateKept, CheckImmediateKept, OtherStepsKept DEF Next

-----------------------------------------------------------------------------
(* The invariant holds: the pointers encode a queue of immediates whose    *)
(* callbacks are to be called, and the watchers run while it has any.      *)
THEOREM ImmediatesInvariant == Spec => []ImmediatesInv
<1>1. Init => ImmediatesInv
    BY ImmediatesInit
<1>2. ImmediatesInv /\ [Next]_vars => ImmediatesInv'
    BY ImmediatesNext DEF Kept
<1> QED
    BY <1>1, <1>2, PTL DEF Spec

(* Every pointer is answered and the watchers run exactly as long as the   *)
(* queue holds something, whatever callbacks set, clear and run:           *)
(* processImmediate() never shifts from an empty queue.                    *)
THEOREM QueueStaysWatched == Spec => []QueueWatched
<1>1. ImmediatesInv => QueueWatched
  <2> SUFFICES ASSUME ImmediatesInv PROVE QueueWatched
      OBVIOUS
  <2> DEFINE q == Queued
  <2>1. Linked(link, q) /\ need \in BOOLEAN /\ watching = need /\ (need <=> q # <<>>)
      BY DEF ImmediatesInv, QueueIs, Watched
  <2>2. IsEmpty(link, Queue) <=> ~watching
      BY <2>1, EmptyQueue
  <2>3. WellLinked(link)
      BY <2>1, PointersAnswered
  <2> QED
      BY <2>2, <2>3 DEF QueueWatched
<1> QED
    BY <1>1, ImmediatesInvariant, PTL

(* The immediates run in the order in which setImmediate() made them, each *)
(* once and not after clearImmediate(), at most one in an iteration: the   *)
(* list and the flag of lib/timers.js implement ImmediateQueue.            *)
THEOREM ImmediatesAreAQueue == Spec => ImplementsQueue
<1>1. Init => Abstract!Init
    BY ImmediatesInit
<1>2. ImmediatesInv /\ [Next]_vars => [Abstract!Next]_(Abstract!vars)
    BY ImmediatesNext DEF Kept
<1> QED
    BY <1>1, <1>2, ImmediatesInvariant, PTL DEF Spec, ImplementsQueue, Abstract!Spec
=============================================================================
