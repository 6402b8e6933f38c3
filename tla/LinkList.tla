------------------------------ MODULE LinkList ------------------------------
(***************************************************************************)
(* lib/_linklist.js: the circular doubly linked list that the timers and   *)
(* the immediates are kept in.  A heap h maps every object to its _idleNext *)
(* and _idlePrev; the head of a list is such an object too.  Items are     *)
(* added behind the head's _idleNext and taken from its _idlePrev.         *)
(***************************************************************************)
EXTENDS Naturals, Sequences, FiniteSets

CONSTANT Null   \* the pointer of an object that is in no list

Unlinked == [next |-> Null, prev |-> Null]

InitLink(h, n) == [h EXCEPT ![n] = [next |-> n, prev |-> n]]

IsEmpty(h, list) == h[list].next = list

Remove(h, item) ==
  LET h1 == IF h[item].next = Null THEN h
            ELSE [h EXCEPT ![h[item].next].prev = h[item].prev]
      h2 == IF h1[item].prev = Null THEN h1
            ELSE [h1 EXCEPT ![h1[item].prev].next = h1[item].next]
  IN  [h2 EXCEPT ![item] = Unlinked]

AppendAtHead(h, list, item) == \* mutant: the new item is shifted first
  LET h1 == Remove(h, item)
      h2 == [h1 EXCEPT ![item].prev = h1[list].prev]
      h3 == [h2 EXCEPT ![h2[list].prev].next = item]
  IN  [h3 EXCEPT ![item].next = list, ![list].prev = item]
Append_(h, list, item) == \* append
  LET h1 == Remove(h, item)
      h2 == [h1 EXCEPT ![item].next = h1[list].next]
      h3 == [h2 EXCEPT ![h2[list].next].prev = item]
  IN  [h3 EXCEPT ![item].prev = list, ![list].next = item]

First(h, list) == h[list].prev          \* what shift() returns
Shift(h, list) == Remove(h, First(h, list))
-----------------------------------------------------------------------------
(* What a list holds, in the order in which shift() would return it.       *)
Items(h, list) ==
  LET bound == Cardinality(DOMAIN h)
      at[k \in 0..bound] == IF k = 0 THEN list
                            ELSE IF at[k - 1] = Null THEN Null
                            ELSE h[at[k - 1]].prev
      back == {k \in 1..bound : at[k] = list}
      len == (CHOOSE k \in back : \A j \in back : k <= j) - 1
  IN  [k \in 1..len |-> at[k]]

(* Every pointer is answered: the neighbours of a linked object point back *)
(* at it, and an object with one pointer has the other.                    *)
WellLinked(h) ==
  \A n \in DOMAIN h :
    /\ (h[n].next = Null) <=> (h[n].prev = Null)
    /\ h[n].next # Null => h[h[n].next].prev = n /\ h[h[n].prev].next = n
=============================================================================
