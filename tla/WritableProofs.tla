--------------------------- MODULE WritableProofs ---------------------------
(***************************************************************************)
(* Theorems about Writable, for every value of its constants.              *)
(*                                                                         *)
(* The model is functional: every library function maps a machine to a     *)
(* machine.  So the proof has one lemma per library function, saying that  *)
(* it takes a good machine to a good machine, and the induction over Next  *)
(* only has to look up which function an action calls.                     *)
(*                                                                         *)
(* There are five such inductions, each over the machines of the ones      *)
(* before: types and counters, what is kept, the order of the chunks, the  *)
(* place of every callback, and what is still to be done.                  *)
(***************************************************************************)
EXTENDS Writable, TLAPS, SequenceTheorems, FiniteSetTheorems

(* Assumptions of FinishMeansFlushed: without _writev(), pendingcb counts  *)
(* the chunks that were not called back exactly, and a listener of         *)
(* 'prefinish' leaves the stream alone.                                    *)
Plain == ~HasWritev /\ "prefinish" \notin ApiFrames

(* The writing flag tells whether a _write() is unfinished.                *)
Good(m) == /\ m \in Machine
           /\ m.obs.inflight = IF m.state.writing THEN 1 ELSE 0

(* The counters of the stream agree with what an observer counts.          *)
Counted(m) == /\ m.state.pendingcb = (m.obs.acc + m.obs.nulls) - Len(m.obs.called)
              /\ m.obs.finishes = IF m.state.finished THEN 1 ELSE 0
              /\ m.state.prefinished => m.state.ending

(* No 'prefinish' listener is running, or the innermost frame is one and   *)
(* what prefinish() saw before it called the listener still holds.         *)
NoPre(m) == \A i \in 1..Len(m.stack) : m.stack[i].at # "prefinish"
PreTop(m) == \A i \in 1..Len(m.stack) : m.stack[i].at = "prefinish" =>
               /\ i = Len(m.stack)
               /\ m.stack[i].fin => /\ m.state.pendingcb = 0
                                    /\ NeedFinish(m.state)

Clean(m) == Good(m) /\ (Plain => Counted(m) /\ NoPre(m))
Inv(m)   == Good(m) /\ (Plain => Counted(m) /\ PreTop(m))

(* What a step may do to the count of 'finish' events. *)
SameFinish(m, n) == n.obs.finishes = m.obs.finishes
FinishStep(m, n) ==
  n.obs.finishes # m.obs.finishes =>
    /\ m.obs.finishes = 0
    /\ Len(m.obs.called) = m.obs.acc + m.obs.nulls
    /\ m.state.ending
-----------------------------------------------------------------------------
(* The building blocks: records, the stack and the queue.                  *)

(* A clean machine satisfies the weaker invariant. *)
LEMMA CleanIsInv == ASSUME NEW m, Clean(m) PROVE Inv(m)
  BY DEF Clean, Inv, NoPre, PreTop

(* The ids of a buffer are numbers, one per chunk. *)
LEMMA IdsType ==
  ASSUME NEW buf \in Seq(Chunk)
  PROVE  Ids(buf) \in Seq(Nat) /\ (buf # <<>> => Ids(buf) # <<>>)
  <1>1. Len(buf) \in Nat
    BY LenProperties
  <1>2. \A i \in 1..Len(buf) : buf[i].id \in Nat
    <2> TAKE i \in 1..Len(buf)
    <2>1. buf[i] \in Chunk
      BY ElementOfSeq
    <2>. QED BY <2>1 DEF Chunk
  <1>3. Ids(buf) \in Seq(Nat)
    BY <1>1, <1>2, IsASeq DEF Ids
  <1>4. ASSUME buf # <<>> PROVE Ids(buf) # <<>>
    <2>1. 1 \in 1..Len(buf)
      BY <1>1, <1>4, EmptySeq
    <2>2. DOMAIN Ids(buf) = 1..Len(buf) /\ DOMAIN <<>> = {}
      BY <1>1, EmptySeq DEF Ids
    <2>. QED BY <2>1, <2>2
  <1>. QED BY <1>3, <1>4

(* A part of a buffer is a buffer. *)
LEMMA SubSeqType ==
  ASSUME NEW buf \in Seq(Chunk), NEW c \in Nat
  PROVE  SubSeq(buf, c + 1, Len(buf)) \in Seq(Chunk)
  <1>1. /\ Len(buf) \in Nat
        /\ \A i \in (c + 1)..Len(buf) : buf[i] \in Chunk
    BY LenProperties, ElementOfSeq
  <1>. QED BY <1>1, SubSeqProperties

(* What is left of a group of at least two callbacks. *)
LEMMA TailNonEmpty ==
  ASSUME NEW ids \in Seq(Nat), Len(ids) > 1
  PROVE  Tail(ids) \in Seq(Nat) /\ Tail(ids) # <<>>
  <1>1. ids # <<>> /\ Len(ids) \in Nat
    BY EmptySeq, LenProperties
  <1>2. Tail(ids) \in Seq(Nat) /\ Len(Tail(ids)) = Len(ids) - 1
    BY <1>1, HeadTailProperties
  <1>3. ASSUME Tail(ids) = <<>> PROVE FALSE
    <2>1. Len(Tail(ids)) = 0
      BY <1>3, EmptySeq, Zenon
    <2> DEFINE l == Len(ids)
               k == Len(Tail(ids))
    <2>2. l \in Nat /\ l > 1 /\ k = l - 1 /\ k = 0
      BY <1>1, <1>2, <2>1
    <2> HIDE DEF l, k
    <2>. QED BY <2>2
  <1>. QED BY <1>2, <1>3

(* A fresh frame is a frame, wherever no callback is owed. *)
LEMMA FrameType ==
  ASSUME NEW at \in UserAt \cup LibAt
  PROVE  /\ Frame(at) \in FrameFields
         /\ Frame(at).at = at
         /\ at \notin {"onwrite", "drain"} => Frame(at) \in Frames
  BY EmptySeq DEF Frame, FrameFields, Frames, NoCb, Callback

(* Push adds the frame and leaves the rest alone. *)
LEMMA PushParts ==
  ASSUME NEW m \in Machine, NEW f \in Frames
  PROVE  /\ Push(m, f) \in Machine
         /\ Push(m, f).state = m.state /\ Push(m, f).obs = m.obs
         /\ Push(m, f).stack = Append(m.stack, f)
         /\ Push(m, f).ticks = m.ticks
  BY DEF Push, Machine

(* A fresh tick is a tick, wherever no callback is owed. *)
LEMMA TickType ==
  ASSUME NEW run \in {"afterWrite", "error", "rejected", "endcb"}
  PROVE  /\ Tick(run) \in TickFields /\ Tick(run).run = run
         /\ run \in {"rejected", "endcb"} => Tick(run) \in Ticks
  BY EmptySeq DEF Tick, TickFields, Ticks, NoCb, Callback

(* Calling a frame other than a 'prefinish' listener. *)
LEMMA PushClean ==
  ASSUME NEW m, Clean(m), NEW f \in Frames, f.at # "prefinish"
  PROVE  Clean(Push(m, f)) /\ SameFinish(m, Push(m, f))
  <1>1. /\ m \in Machine
        /\ m.stack \in Seq(Frames) /\ Len(m.stack) \in Nat
    BY LenProperties DEF Clean, Good, Machine
  <1>2. /\ Push(m, f) \in Machine
        /\ Push(m, f).state = m.state /\ Push(m, f).obs = m.obs
        /\ Push(m, f).stack = Append(m.stack, f)
    BY <1>1, PushParts
  <1>3. ASSUME NoPre(m) PROVE NoPre(Push(m, f))
    BY <1>1, <1>2, <1>3, AppendProperties DEF NoPre
  <1>. QED BY <1>2, <1>3 DEF Clean, Good, Counted, SameFinish

(* Returning from the innermost frame: afterwards no 'prefinish' listener  *)
(* is running.                                                             *)
LEMMA PopClean ==
  ASSUME NEW m, Inv(m), m.stack # <<>>
  PROVE  /\ Clean(Pop(m)) /\ SameFinish(m, Pop(m))
         /\ Pop(m).state = m.state /\ Pop(m).obs = m.obs
         /\ Top(m) \in Frames
         /\ Plain /\ Top(m).at = "prefinish" /\ Top(m).fin =>
              m.state.pendingcb = 0 /\ NeedFinish(m.state)
  <1>1. /\ m \in Machine
        /\ m.stack \in Seq(Frames) /\ Len(m.stack) \in Nat \ {0}
    BY LenProperties, EmptySeq DEF Inv, Good, Machine
  <1>2. /\ SubSeq(m.stack, 1, Len(m.stack) - 1) \in Seq(Frames)
        /\ Len(SubSeq(m.stack, 1, Len(m.stack) - 1)) = Len(m.stack) - 1
        /\ \A i \in 1..Len(m.stack) - 1 :
             SubSeq(m.stack, 1, Len(m.stack) - 1)[i] = m.stack[i]
    BY <1>1, SubSeqProperties
  <1>3. Top(m) \in Frames
    BY <1>1, ElementOfSeq DEF Top
  <1>4. /\ Pop(m) \in Machine
        /\ Pop(m).state = m.state /\ Pop(m).obs = m.obs
        /\ Pop(m).stack = SubSeq(m.stack, 1, Len(m.stack) - 1)
    BY <1>1, <1>2 DEF Pop, Machine
  <1>5. ASSUME PreTop(m) PROVE NoPre(Pop(m))
    BY <1>1, <1>2, <1>4, <1>5 DEF NoPre, PreTop
  <1>6. ASSUME PreTop(m), Top(m).at = "prefinish", Top(m).fin
        PROVE  m.state.pendingcb = 0 /\ NeedFinish(m.state)
    BY <1>1, <1>6 DEF PreTop, Top
  <1>. QED BY <1>3, <1>4, <1>5, <1>6 DEF Inv, Clean, Good, Counted, SameFinish

(* A machine whose innermost frame is no 'prefinish' listener is clean. *)
LEMMA TopClean ==
  ASSUME NEW m, Inv(m), m.stack # <<>>, Plain => Top(m).at # "prefinish"
  PROVE  Clean(m)
  BY LenProperties, EmptySeq DEF Inv, Clean, Good, Machine, PreTop, NoPre, Top

(* Queueing a tick changes neither the stream nor the stack. *)
LEMMA NextTickClean ==
  ASSUME NEW m, Clean(m), NEW t \in Ticks
  PROVE  Clean(NextTick(m, t)) /\ SameFinish(m, NextTick(m, t))
  <1>1. m \in Machine
    BY DEF Clean, Good
  <1>2. /\ NextTick(m, t) \in Machine
        /\ NextTick(m, t).state = m.state /\ NextTick(m, t).obs = m.obs
        /\ NextTick(m, t).stack = m.stack
    BY <1>1 DEF NextTick, Machine
  <1>. QED BY <1>2 DEF Clean, Good, Counted, NoPre, SameFinish
-----------------------------------------------------------------------------
(* Updates of the stream and of the history that keep a machine clean.     *)
Agree(s, o) == /\ o.inflight = IF s.writing THEN 1 ELSE 0
               /\ Plain => /\ s.pendingcb = (o.acc + o.nulls) - Len(o.called)
                           /\ o.finishes = IF s.finished THEN 1 ELSE 0
                           /\ s.prefinished => s.ending

(* The flags that Agree looks at. *)
SameFlags(s, r) == /\ r.writing = s.writing /\ r.finished = s.finished
                   /\ r.ending = s.ending /\ r.prefinished = s.prefinished

(* Changing pendingcb changes no flag. *)
LEMMA SetPendingcb ==
  ASSUME NEW s \in WritableState, NEW k \in Int
  PROVE  LET r == [s EXCEPT !.pendingcb = k]
         IN  r \in WritableState /\ SameFlags(s, r) /\ r.pendingcb = k
  BY DEF WritableState, StateFields, SameFlags

(* A clean machine's stream agrees with its history. *)
LEMMA CleanParts ==
  ASSUME NEW m, Clean(m)
  PROVE  /\ m \in Machine
         /\ m.state \in WritableState /\ m.obs \in Observations
         /\ m.stack \in Seq(Frames) /\ m.ticks \in Seq(Ticks)
         /\ Agree(m.state, m.obs)
  BY DEF Clean, Good, Counted, Agree, Machine

(* Replacing both by ones that agree. *)
LEMMA WithClean ==
  ASSUME NEW m, Clean(m), NEW s \in WritableState, NEW o \in Observations,
         Agree(s, o)
  PROVE  /\ Clean(With(m, s, o))
         /\ With(m, s, o).state = s /\ With(m, s, o).obs = o
         /\ With(m, s, o).stack = m.stack /\ With(m, s, o).ticks = m.ticks
  <1>1. m \in Machine
    BY CleanParts
  <1>2. /\ With(m, s, o) \in Machine
        /\ With(m, s, o).state = s /\ With(m, s, o).obs = o
        /\ With(m, s, o).stack = m.stack /\ With(m, s, o).ticks = m.ticks
    BY <1>1 DEF With, Machine
  <1>. QED BY <1>2 DEF Clean, Good, Counted, NoPre, Agree

(* Replacing the stream's state only. *)
LEMMA WithStateClean ==
  ASSUME NEW m, Clean(m), NEW s \in WritableState, Agree(s, m.obs)
  PROVE  /\ Clean(WithState(m, s)) /\ SameFinish(m, WithState(m, s))
         /\ WithState(m, s).state = s /\ WithState(m, s).obs = m.obs
         /\ WithState(m, s).stack = m.stack /\ WithState(m, s).ticks = m.ticks
  BY CleanParts, WithClean DEF WithState, SameFinish

(* Replacing the history only. *)
LEMMA WithObsClean ==
  ASSUME NEW m, Clean(m), NEW o \in Observations, Agree(m.state, o)
  PROVE  /\ Clean(WithObs(m, o))
         /\ WithObs(m, o).state = m.state /\ WithObs(m, o).obs = o
         /\ WithObs(m, o).stack = m.stack /\ WithObs(m, o).ticks = m.ticks
  BY CleanParts, WithClean DEF WithObs
-----------------------------------------------------------------------------
(* One lemma per library function.                                         *)

(* 'finish' is emitted once if the stream was not finished. *)
LEMMA EmitFinishClean ==
  ASSUME NEW m, Clean(m), Plain => ~m.state.finished
  PROVE  /\ Clean(EmitFinish(m))
         /\ EmitFinish(m).obs.finishes = m.obs.finishes + 1
  <1> DEFINE s == [m.state EXCEPT !.finished = TRUE]
             o == [m.obs EXCEPT !.finishes = @ + 1, !.endcb = FireOnce(@)]
             n == With(m, s, o)
  <1>1. /\ m.state \in WritableState /\ m.obs \in Observations
        /\ Agree(m.state, m.obs)
    BY CleanParts
  <1>2. s \in WritableState
    BY <1>1 DEF WritableState, StateFields
  <1>3. o \in Observations
    <2> DEFINE k == m.obs.finishes + 1
               e == FireOnce(m.obs.endcb)
    <2>1. k \in Nat /\ e \in {"none", "once", "ticked", "called"}
      BY <1>1 DEF Observations, FireOnce
    <2> HIDE DEF k, e
    <2>2. [m.obs EXCEPT !.finishes = k, !.endcb = e] \in Observations
      BY <1>1, <2>1 DEF Observations
    <2>3. QED BY <2>2 DEF k, e
  <1>4. o.finishes = m.obs.finishes + 1
    BY <1>1 DEF Observations
  <1>5. Agree(s, o)
    BY <1>1 DEF Agree, WritableState, StateFields, Observations
  <1>6. EmitFinish(m) = Push(n, Frame("finish"))
    BY DEF EmitFinish
  <1> HIDE DEF s, o
  <1>7. Clean(n) /\ n.obs.finishes = m.obs.finishes + 1
    BY <1>2, <1>3, <1>4, <1>5, WithClean
  <1>8. Frame("finish") \in Frames /\ Frame("finish").at = "finish"
    BY FrameType DEF UserAt
  <1> HIDE DEF n
  <1>. QED BY <1>6, <1>7, <1>8, PushClean DEF SameFinish

(* Emitting it is what FinishMeansFlushed allows, if every chunk was       *)
(* called back.                                                            *)
LEMMA EmitFinishStep ==
  ASSUME NEW m, Clean(m), Plain, NEW n, NeedFinish(m.state),
         m.state.pendingcb = 0
  PROVE  FinishStep(m, n)
  <1>1. /\ m.state \in WritableState /\ m.obs \in Observations
        /\ Agree(m.state, m.obs)
    BY CleanParts
  <1>2. m.obs.called \in Seq([id : Nat, ok : BOOLEAN]) /\ m.obs.acc \in Nat /\ m.obs.nulls \in Nat
    BY <1>1 DEF Observations
  <1>3. Len(m.obs.called) \in Nat
    BY <1>2, LenProperties
  <1>4. Plain => Len(m.obs.called) = m.obs.acc + m.obs.nulls
    <2>1. Plain => m.state.pendingcb = (m.obs.acc + m.obs.nulls) - Len(m.obs.called)
      BY <1>1 DEF Agree
    <2> DEFINE a == m.obs.acc + m.obs.nulls
               l == Len(m.obs.called)
    <2>2. a \in Nat /\ l \in Nat
      BY <1>2, <1>3
    <2>3. Plain => 0 = a - l
      BY <2>1
    <2> HIDE DEF a, l
    <2>4. Plain => l = a
      BY <2>2, <2>3
    <2>. QED BY <2>4 DEF a, l
  <1>. QED BY <1>1, <1>2, <1>3, <1>4 DEF FinishStep, Agree, NeedFinish

(* finishMaybe() is the only place where a 'prefinish' listener is called. *)
LEMMA FinishMaybeInv ==
  ASSUME NEW m, Clean(m)
  PROVE  Inv(FinishMaybe(m)) /\ (Plain => FinishStep(m, FinishMaybe(m)))
  <1>1. /\ m.state \in WritableState /\ m.obs \in Observations
        /\ m.stack \in Seq(Frames)
        /\ Agree(m.state, m.obs)
    BY CleanParts
  <1>2. CASE ~NeedFinish(m.state)
    BY <1>2, CleanIsInv DEF FinishMaybe, FinishStep
  <1>3. CASE NeedFinish(m.state) /\ m.state.prefinished /\ ~CalledBack(m.state)
    BY <1>3, CleanIsInv DEF FinishMaybe, FinishStep
  <1>4. CASE NeedFinish(m.state) /\ m.state.prefinished /\ CalledBack(m.state)
    <2>1. FinishMaybe(m) = EmitFinish(m)
      BY <1>4 DEF FinishMaybe
    <2>2. Inv(EmitFinish(m))
      BY <1>4, EmitFinishClean, CleanIsInv DEF NeedFinish
    <2>. QED BY <1>4, <2>1, <2>2, EmitFinishStep DEF CalledBack
  <1>5. CASE NeedFinish(m.state) /\ ~m.state.prefinished
    <2> DEFINE s == [m.state EXCEPT !.prefinished = TRUE]
               n == WithState(m, s)
               f == [Frame("prefinish") EXCEPT !.fin = CalledBack(m.state)]
    <2>1. FinishMaybe(m) = Push(n, f)
      BY <1>5 DEF FinishMaybe
    <2>2. /\ s \in WritableState /\ Agree(s, m.obs)
          /\ s.pendingcb = m.state.pendingcb
          /\ NeedFinish(s)
      BY <1>1, <1>5 DEF WritableState, StateFields, Agree, NeedFinish
    <2>3. f \in Frames /\ f.at = "prefinish" /\ f.fin = CalledBack(m.state)
      <3>1. Frame("prefinish") \in FrameFields /\ Frame("prefinish").at = "prefinish"
        BY FrameType DEF UserAt
      <3>2. CalledBack(m.state) \in BOOLEAN
        BY DEF CalledBack
      <3>. QED BY <3>1, <3>2 DEF Frames, FrameFields
    <2> HIDE DEF s, f
    <2>4. /\ Clean(n) /\ SameFinish(m, n) /\ n.state = s /\ n.obs = m.obs
          /\ n.stack = m.stack
      BY <2>2, WithStateClean
    <2> HIDE DEF n
    <2>5. /\ Push(n, f) \in Machine
          /\ Push(n, f).state = s /\ Push(n, f).obs = m.obs
          /\ Push(n, f).stack = Append(m.stack, f)
      <3>1. n \in Machine
        BY <2>4, CleanParts
      <3>2. /\ Push(n, f) \in Machine
            /\ Push(n, f).state = n.state /\ Push(n, f).obs = n.obs
            /\ Push(n, f).stack = Append(n.stack, f)
        BY <3>1, <2>3, PushParts
      <3>. QED BY <3>2, <2>4
    <2>6. ASSUME NoPre(m) PROVE PreTop(Push(n, f))
      <3> DEFINE st == Append(m.stack, f)
      <3>1. /\ Len(m.stack) \in Nat /\ Len(st) = Len(m.stack) + 1
            /\ \A i \in 1..Len(m.stack) : st[i] = m.stack[i]
            /\ st[Len(m.stack) + 1] = f
        BY <1>1, <2>3, AppendProperties, LenProperties
      <3> SUFFICES ASSUME NEW i \in 1..Len(st), st[i].at = "prefinish"
                   PROVE  /\ i = Len(st)
                          /\ st[i].fin => s.pendingcb = 0 /\ NeedFinish(s)
        BY <2>5 DEF PreTop
      <3> HIDE DEF st
      <3>2. i = Len(st)
        BY <3>1, <2>6 DEF NoPre
      <3>. QED BY <3>1, <3>2, <2>2, <2>3 DEF CalledBack
    <2>7. Inv(Push(n, f))
      BY <2>2, <2>5, <2>6, <2>4 DEF Inv, Clean, Good, Counted, Agree
    <2>. QED BY <2>1, <2>5, <2>7 DEF FinishStep
  <1>. QED BY <1>2, <1>3, <1>4, <1>5

(* A stream that has not emitted 'prefinish' does not emit 'finish' in the *)
(* same call.                                                              *)
LEMMA PrefinishFirst ==
  ASSUME NEW m, Clean(m), ~m.state.prefinished
  PROVE  FinishMaybe(m).obs.finishes = m.obs.finishes
  <1>1. CASE ~NeedFinish(m.state)
    BY <1>1 DEF FinishMaybe
  <1>2. CASE NeedFinish(m.state)
    <2> DEFINE s == [m.state EXCEPT !.prefinished = TRUE]
               n == WithState(m, s)
               f == [Frame("prefinish") EXCEPT !.fin = CalledBack(m.state)]
    <2>1. FinishMaybe(m) = Push(n, f)
      BY <1>2 DEF FinishMaybe
    <2>2. m \in Machine
      BY CleanParts
    <2> HIDE DEF s, f
    <2>3. Push(n, f).obs = m.obs
      BY <2>2 DEF Push, WithState, With, Machine
    <2>. QED BY <2>1, <2>3
  <1>. QED BY <1>1, <1>2

(* CallCb needs a callback to call; it lowers pendingcb with every call. *)
LEMMA CallCbClean ==
  ASSUME NEW m, Clean(m), NEW ids \in Seq(Nat), ids # <<>>, NEW ok \in BOOLEAN,
         NEW then \in {"return", "finishMaybe", "error", "rejected"}
  PROVE  Clean(CallCb(m, ids, ok, then)) /\ SameFinish(m, CallCb(m, ids, ok, then))
  <1> DEFINE call == [id |-> Head(ids), ok |-> ok]
             s == [m.state EXCEPT !.pendingcb = @ - 1]
             o == [m.obs EXCEPT !.called = Append(@, [id |-> Head(ids), ok |-> ok])]
             f == [Frame("cb") EXCEPT !.cb = [v |-> FALSE, ids |-> ids],
                                      !.ok = ok, !.then = then]
             n == With(m, s, o)
  <1>1. /\ m.state \in WritableState /\ m.obs \in Observations
        /\ Agree(m.state, m.obs)
    BY CleanParts
  <1>2. /\ s \in WritableState /\ SameFlags(m.state, s)
        /\ s.pendingcb = m.state.pendingcb - 1
    <2> DEFINE k == m.state.pendingcb - 1
    <2>1. k \in Int
      BY <1>1 DEF WritableState, StateFields
    <2> HIDE DEF k
    <2>2. QED BY <1>1, <2>1, SetPendingcb DEF k
  <1>3. call \in [id : Nat, ok : BOOLEAN]
    BY HeadTailProperties
  <1>4. /\ m.obs.called \in Seq([id : Nat, ok : BOOLEAN]) /\ m.obs.acc \in Nat /\ m.obs.nulls \in Nat
        /\ m.state.pendingcb \in Int
    BY <1>1 DEF Observations, WritableState, StateFields
  <1>5. /\ Len(m.obs.called) \in Nat
        /\ Append(m.obs.called, call) \in Seq([id : Nat, ok : BOOLEAN])
        /\ Len(Append(m.obs.called, call)) = Len(m.obs.called) + 1
    BY <1>3, <1>4, AppendProperties, LenProperties
  <1>6. /\ o \in Observations /\ o.finishes = m.obs.finishes
        /\ o.called = Append(m.obs.called, call)
        /\ o.acc = m.obs.acc /\ o.nulls = m.obs.nulls /\ o.inflight = m.obs.inflight
    <2> DEFINE q == Append(m.obs.called, call)
    <2> HIDE DEF q
    <2>1. LET x == [m.obs EXCEPT !.called = q]
          IN  /\ x \in Observations /\ x.finishes = m.obs.finishes
              /\ x.called = q
              /\ x.acc = m.obs.acc /\ x.nulls = m.obs.nulls /\ x.inflight = m.obs.inflight
      BY <1>1, <1>5 DEF Observations, q
    <2>2. QED BY <2>1 DEF q
  <1>7. f \in Frames /\ f.at = "cb"
    <2>1. Frame("cb") \in FrameFields /\ Frame("cb").at = "cb"
      BY FrameType DEF UserAt
    <2>2. [v |-> FALSE, ids |-> ids] \in Callback
      BY DEF Callback
    <2>. QED BY <2>1, <2>2 DEF Frames, FrameFields
  <1>8. CallCb(m, ids, ok, then) = Push(n, f)
    BY DEF CallCb
  <1> HIDE DEF s, o, f, call
  <1>9. Agree(s, o)
    <2>1. Plain => m.state.pendingcb = (m.obs.acc + m.obs.nulls) - Len(m.obs.called)
      BY <1>1 DEF Agree
    <2>2. Len(o.called) = Len(m.obs.called) + 1
      BY <1>5, <1>6
    <2>3. Plain => s.pendingcb = (o.acc + o.nulls) - Len(o.called)
      <3> DEFINE p == m.state.pendingcb
                 a == m.obs.acc + m.obs.nulls
                 l == Len(m.obs.called)
      <3>1. p \in Int /\ a \in Int /\ l \in Int
        BY <1>4, <1>5
      <3>2. o.acc + o.nulls = a
        BY <1>6
      <3>3. Plain => p = a - l
        BY <2>1
      <3>4. s.pendingcb = p - 1 /\ Len(o.called) = l + 1
        BY <1>2, <2>2
      <3> HIDE DEF p, a, l
      <3>5. p = a - l => p - 1 = a - (l + 1)
        BY <3>1
      <3>6. QED BY <3>2, <3>3, <3>4, <3>5
    <2>. QED BY <1>1, <1>2, <1>6, <2>3 DEF Agree, SameFlags
  <1>10. Clean(n) /\ n.obs = o
    BY <1>2, <1>6, <1>9, WithClean
  <1> HIDE DEF n
  <1>. QED BY <1>6, <1>7, <1>8, <1>10, PushClean DEF SameFinish

(* Without _writev() no callback counts for itself. *)
LEMMA RunCbClean ==
  ASSUME NEW m, Clean(m), NEW cb \in Callback, cb.ids # <<>>, NEW ok \in BOOLEAN,
         NEW then \in {"return", "finishMaybe", "error", "rejected"}
  PROVE  Clean(RunCb(m, cb, ok, then)) /\ SameFinish(m, RunCb(m, cb, ok, then))
  <1> DEFINE own == IF cb.v THEN 1 ELSE 0
             s == [m.state EXCEPT !.pendingcb = @ - own]
             n == WithState(m, s)
  <1>1. /\ m.state \in WritableState /\ m.obs \in Observations
        /\ Agree(m.state, m.obs)
    BY CleanParts
  <1>2. own \in Int /\ (Plain => own = 0) /\ cb.ids \in Seq(Nat)
    <2>1. cb.v \in {FALSE, HasWritev} /\ cb.ids \in Seq(Nat)
      BY DEF Callback
    <2>2. Plain => cb.v = FALSE
      BY <2>1, WritableAssumption DEF Plain
    <2>. QED BY <2>1, <2>2
  <1>3. RunCb(m, cb, ok, then) = CallCb(n, cb.ids, ok, then)
    BY DEF RunCb
  <1> HIDE DEF own
  <1>4. s \in WritableState /\ Agree(s, m.obs)
    <2> DEFINE k == m.state.pendingcb - own
    <2>1. k \in Int /\ (Plain => k = m.state.pendingcb)
      BY <1>1, <1>2 DEF WritableState, StateFields
    <2> HIDE DEF k
    <2>2. s \in WritableState /\ SameFlags(m.state, s) /\ s.pendingcb = k
      BY <1>1, <2>1, SetPendingcb DEF k
    <2> HIDE DEF s
    <2>. QED BY <1>1, <2>1, <2>2 DEF Agree, SameFlags
  <1> HIDE DEF s
  <1>5. Clean(n) /\ SameFinish(m, n)
    BY <1>4, WithStateClean
  <1> HIDE DEF n
  <1>. QED BY <1>2, <1>3, <1>5, CallCbClean DEF SameFinish

(* afterWrite() calls 'drain' listeners or the callback. *)
LEMMA AfterWriteClean ==
  ASSUME NEW m, Clean(m), NEW fin \in BOOLEAN, NEW cb \in Callback, cb.ids # <<>>
  PROVE  Clean(AfterWrite(m, fin, cb)) /\ SameFinish(m, AfterWrite(m, fin, cb))
  <1>1. CASE ~DrainDue(m.state, fin)
    BY <1>1, RunCbClean DEF AfterWrite
  <1>2. CASE DrainDue(m.state, fin)
    <2> DEFINE s == [m.state EXCEPT !.needDrain = FALSE]
               o == [m.obs EXCEPT !.owed = FALSE]
               f == [Frame("drain") EXCEPT !.cb = cb]
               n == With(m, s, o)
    <2>1. /\ m.state \in WritableState /\ m.obs \in Observations
          /\ Agree(m.state, m.obs)
      BY CleanParts
    <2>2. s \in WritableState
      BY <2>1 DEF WritableState, StateFields
    <2>3. o \in Observations /\ o.finishes = m.obs.finishes
      BY <2>1 DEF Observations
    <2>4. Agree(s, o)
      BY <2>1 DEF Agree, Observations, WritableState, StateFields
    <2>5. f \in Frames /\ f.at = "drain"
      <3>1. Frame("drain") \in FrameFields /\ Frame("drain").at = "drain"
        BY FrameType DEF UserAt
      <3>. QED BY <3>1 DEF Frames, FrameFields
    <2>6. AfterWrite(m, fin, cb) = Push(n, f)
      BY <1>2 DEF AfterWrite
    <2> HIDE DEF s, o, f
    <2>7. Clean(n) /\ n.obs = o
      BY <2>2, <2>3, <2>4, WithClean
    <2> HIDE DEF n
    <2>. QED BY <2>3, <2>5, <2>6, <2>7, PushClean DEF SameFinish
  <1>. QED BY <1>1, <1>2

(* doWrite() starts a _write() when none is unfinished. *)
LEMMA DoWriteClean ==
  ASSUME NEW m, Clean(m), ~m.state.writing, NEW v \in BOOLEAN, NEW len \in Int,
         NEW chunks \in Seq(Chunk), NEW cb \in Callback, cb.ids # <<>>, NEW c \in Nat
  PROVE  /\ Clean(DoWrite(m, v, len, chunks, cb, c))
         /\ SameFinish(m, DoWrite(m, v, len, chunks, cb, c))
  <1> DEFINE at == IF v THEN "_writev" ELSE "_write"
             s == [m.state EXCEPT !.writelen = len, !.writecb = cb,
                                  !.writing = TRUE, !.sync = TRUE]
             o == [m.obs EXCEPT !.sent = @ \o Ids(chunks), !.inflight = @ + 1]
             f == [Frame(IF v THEN "_writev" ELSE "_write") EXCEPT !.c = c, !.cb = cb]
             n == With(m, s, o)
  <1>1. /\ m.state \in WritableState /\ m.obs \in Observations
        /\ Agree(m.state, m.obs)
    BY CleanParts
  <1>2. /\ s \in WritableState /\ s.writing
        /\ s.pendingcb = m.state.pendingcb /\ s.finished = m.state.finished
        /\ s.ending = m.state.ending /\ s.prefinished = m.state.prefinished
    BY <1>1 DEF WritableState, StateFields
  <1>3. /\ o \in Observations
        /\ o.inflight = 1 /\ o.acc = m.obs.acc /\ o.nulls = m.obs.nulls /\ o.called = m.obs.called
        /\ o.finishes = m.obs.finishes
    <2> DEFINE q == m.obs.sent \o Ids(chunks)
               k == m.obs.inflight + 1
    <2>1. Ids(chunks) \in Seq(Nat) /\ m.obs.sent \in Seq(Nat)
      BY <1>1, IdsType DEF Observations
    <2>2. q \in Seq(Nat)
      BY <2>1, ConcatProperties
    <2>3. m.obs.inflight = 0
      BY <1>1 DEF Agree
    <2>4. k \in Int /\ k = 1
      BY <2>3
    <2> HIDE DEF q, k
    <2>5. LET x == [m.obs EXCEPT !.sent = q, !.inflight = k]
          IN  /\ x \in Observations
              /\ x.inflight = k /\ x.acc = m.obs.acc /\ x.nulls = m.obs.nulls /\ x.called = m.obs.called
              /\ x.finishes = m.obs.finishes
      BY <1>1, <2>2, <2>4 DEF Observations
    <2>6. QED BY <2>4, <2>5 DEF q, k
  <1>4. f \in Frames /\ f.at # "prefinish"
    <2>1. at \in {"_write", "_writev"}
      OBVIOUS
    <2>2. Frame(at) \in FrameFields /\ Frame(at).at = at
      BY <2>1, FrameType DEF UserAt
    <2> HIDE DEF at
    <2>3. LET g == [Frame(at) EXCEPT !.c = c, !.cb = cb]
          IN  g \in Frames /\ g.at # "prefinish"
      BY <2>1, <2>2 DEF Frames, FrameFields
    <2>4. QED BY <2>3 DEF at
  <1>5. DoWrite(m, v, len, chunks, cb, c) = Push(n, f)
    BY DEF DoWrite
  <1> HIDE DEF s, o, f
  <1>6. Agree(s, o)
    BY <1>1, <1>2, <1>3 DEF Agree
  <1>7. Clean(n) /\ n.obs = o
    BY <1>2, <1>3, <1>6, WithClean
  <1> HIDE DEF n
  <1>. QED BY <1>3, <1>4, <1>5, <1>7, PushClean DEF SameFinish

(* A turn of clearBuffer()'s loop writes a chunk of the buffer. *)
LEMMA WriteNthClean ==
  ASSUME NEW m, Clean(m), ~m.state.writing, NEW c \in Nat,
         c \in 1..Len(m.state.buffer)
  PROVE  Clean(WriteNth(m, c)) /\ SameFinish(m, WriteNth(m, c))
  <1> DEFINE chunk == m.state.buffer[c]
  <1>1. m.state.buffer \in Seq(Chunk)
    BY CleanParts DEF WritableState, StateFields
  <1>2. chunk \in Chunk
    BY <1>1, ElementOfSeq
  <1>3. chunk.len \in Int /\ chunk.id \in Nat
    BY <1>2 DEF Chunk
  <1>4. WriteNth(m, c) = DoWrite(m, FALSE, chunk.len, <<chunk>>, Cb1(chunk.id), c)
    BY DEF WriteNth
  <1> HIDE DEF chunk
  <1>5. <<chunk>> \in Seq(Chunk)
    BY <1>2
  <1>6. Cb1(chunk.id) \in Callback /\ Cb1(chunk.id).ids # <<>>
    BY <1>3 DEF Cb1, Callback
  <1>. QED BY <1>3, <1>4, <1>5, <1>6, DoWriteClean

(* clearBuffer() on a buffer that is not empty. *)
LEMMA ClearBufferClean ==
  ASSUME NEW m, Clean(m), ~m.state.writing, m.state.buffer # <<>>
  PROVE  Clean(ClearBuffer(m)) /\ SameFinish(m, ClearBuffer(m))
  <1> DEFINE group == HasWritev /\ Len(m.state.buffer) > 1
             own == IF group THEN 1 ELSE 0
             s == [m.state EXCEPT !.bufferProcessing = TRUE, !.pendingcb = @ + own]
             n == WithState(m, s)
             cb == [v |-> TRUE, ids |-> Ids(m.state.buffer)]
  <1>1. /\ m.state \in WritableState /\ m.obs \in Observations
        /\ Agree(m.state, m.obs)
    BY CleanParts
  <1>2. m.state.buffer \in Seq(Chunk) /\ m.state.length \in Int
    BY <1>1 DEF WritableState, StateFields
  <1>3. own \in Int /\ (Plain => own = 0)
    BY DEF Plain
  <1>4. /\ group => ClearBuffer(m) = DoWrite(n, TRUE, m.state.length,
                                             m.state.buffer, cb, 0)
        /\ ~group => ClearBuffer(m) = WriteNth(n, 1)
    BY DEF ClearBuffer
  <1>5. group => cb \in Callback /\ cb.ids # <<>>
    BY <1>2, IdsType, WritableAssumption DEF Callback
  <1> HIDE DEF own
  <1>6. /\ s \in WritableState /\ Agree(s, m.obs)
        /\ s.writing = m.state.writing /\ s.buffer = m.state.buffer
    <2> DEFINE k == m.state.pendingcb + own
    <2>1. k \in Int /\ (Plain => k = m.state.pendingcb)
      BY <1>1, <1>3 DEF WritableState, StateFields
    <2> HIDE DEF k
    <2>2. LET r == [m.state EXCEPT !.bufferProcessing = TRUE, !.pendingcb = k]
          IN  /\ r \in WritableState /\ SameFlags(m.state, r)
              /\ r.pendingcb = k /\ r.buffer = m.state.buffer
      BY <1>1, <2>1 DEF WritableState, StateFields, SameFlags
    <2>3. /\ s \in WritableState /\ SameFlags(m.state, s)
          /\ s.pendingcb = k /\ s.buffer = m.state.buffer
      BY <2>2 DEF k
    <2> HIDE DEF s
    <2>. QED BY <1>1, <2>1, <2>3 DEF Agree, SameFlags
  <1> HIDE DEF s
  <1>7. Clean(n) /\ SameFinish(m, n) /\ n.state = s
    BY <1>6, WithStateClean
  <1> HIDE DEF n, cb
  <1>8. CASE group
    <2>1. ~n.state.writing /\ 0 \in Nat /\ TRUE \in BOOLEAN
      BY <1>6, <1>7
    <2>2. cb \in Callback /\ cb.ids # <<>>
      BY <1>5, <1>8
    <2>3. LET d == DoWrite(n, TRUE, m.state.length, m.state.buffer, cb, 0)
          IN  Clean(d) /\ SameFinish(n, d)
      BY <1>2, <1>7, <2>1, <2>2, DoWriteClean
    <2>. QED BY <1>4, <1>7, <1>8, <2>3 DEF SameFinish
  <1>9. CASE ~group
    <2>1. 1 \in 1..Len(n.state.buffer)
      BY <1>2, <1>6, <1>7, LenProperties, EmptySeq
    <2>2. ~n.state.writing /\ 1 \in Nat
      BY <1>6, <1>7
    <2>3. Clean(WriteNth(n, 1)) /\ SameFinish(n, WriteNth(n, 1))
      BY <1>7, <2>1, <2>2, WriteNthClean
    <2>. QED BY <1>4, <1>7, <1>9, <2>3 DEF SameFinish
  <1>. QED BY <1>8, <1>9

(* An accepted chunk is counted, then written or queued. *)
LEMMA WriteOrBufferClean ==
  ASSUME NEW m, Clean(m), NEW len \in Nat
  PROVE  Clean(WriteOrBuffer(m, len)) /\ SameFinish(m, WriteOrBuffer(m, len))
  <1> DEFINE id == m.obs.acc + 1
             chunk == [id |-> id, len |-> len]
             full == m.state.length + len >= HighWaterMark
             s == [m.state EXCEPT !.pendingcb = @ + 1, !.length = @ + len,
                                  !.needDrain = full]
             o == [m.obs EXCEPT !.acc = id, !.owed = @ \/ full]
             n == With(m, s, o)
             r == [n.state EXCEPT !.buffer = Append(@, chunk)]
  <1>1. /\ m.state \in WritableState /\ m.obs \in Observations
        /\ Agree(m.state, m.obs)
    BY CleanParts
  <1>2. /\ m.state.pendingcb \in Int /\ m.state.length \in Int
        /\ m.obs.acc \in Nat /\ m.obs.nulls \in Nat /\ m.obs.owed \in BOOLEAN
        /\ m.obs.called \in Seq([id : Nat, ok : BOOLEAN])
    BY <1>1 DEF WritableState, StateFields, Observations
  <1>3. Len(m.obs.called) \in Nat
    BY <1>2, LenProperties
  <1>4. /\ MustBuffer(m.state) => WriteOrBuffer(m, len) = WithState(n, r)
        /\ ~MustBuffer(m.state) =>
             WriteOrBuffer(m, len) = DoWrite(n, FALSE, len, <<chunk>>, Cb1(id), 0)
    BY DEF WriteOrBuffer
  <1>5. id \in Nat /\ full \in BOOLEAN /\ m.state.pendingcb + 1 \in Int
        /\ m.state.length + len \in Int /\ (m.obs.owed \/ full) \in BOOLEAN
    BY <1>2
  <1>6. chunk \in Chunk /\ <<chunk>> \in Seq(Chunk)
    BY <1>5 DEF Chunk
  <1>7. Cb1(id) \in Callback /\ Cb1(id).ids # <<>>
    BY <1>5 DEF Cb1, Callback
  <1>8. /\ s \in WritableState /\ SameFlags(m.state, s)
        /\ s.pendingcb = m.state.pendingcb + 1
    <2> DEFINE k == m.state.pendingcb + 1
               l == m.state.length + len
    <2>1. k \in Int /\ l \in Int /\ full \in BOOLEAN
      BY <1>5
    <2> HIDE DEF k, l, full
    <2>2. LET x == [m.state EXCEPT !.pendingcb = k, !.length = l, !.needDrain = full]
          IN  x \in WritableState /\ SameFlags(m.state, x) /\ x.pendingcb = k
      BY <1>1, <2>1 DEF WritableState, StateFields, SameFlags
    <2>3. QED BY <2>2 DEF k, l
  <1>9. /\ o \in Observations /\ o.acc = id /\ o.nulls = m.obs.nulls /\ o.called = m.obs.called
        /\ o.inflight = m.obs.inflight /\ o.finishes = m.obs.finishes
    <2> DEFINE w == m.obs.owed \/ full
    <2>1. w \in BOOLEAN /\ id \in Nat
      BY <1>5
    <2> HIDE DEF w, id
    <2>2. LET x == [m.obs EXCEPT !.acc = id, !.owed = w]
          IN  /\ x \in Observations /\ x.acc = id /\ x.nulls = m.obs.nulls /\ x.called = m.obs.called
              /\ x.inflight = m.obs.inflight /\ x.finishes = m.obs.finishes
      BY <1>1, <2>1 DEF Observations
    <2>3. QED BY <2>2 DEF w
  <1>10. Agree(s, o)
    <2>a. Plain => m.state.pendingcb = (m.obs.acc + m.obs.nulls) - Len(m.obs.called)
      BY <1>1 DEF Agree
    <2>1. Plain => s.pendingcb = (o.acc + o.nulls) - Len(o.called)
      <3> DEFINE p == m.state.pendingcb
                 a == m.obs.acc + m.obs.nulls
                 l == Len(m.obs.called)
      <3>1. p \in Int /\ a \in Int /\ l \in Int
        BY <1>2, <1>3
      <3>2. Plain => p = a - l
        BY <2>a
      <3> HIDE DEF s, o
      <3>3. o.acc + o.nulls = a + 1 /\ Len(o.called) = l /\ s.pendingcb = p + 1
        <4> DEFINE x == m.obs.acc
                   y == m.obs.nulls
        <4>1. x \in Nat /\ y \in Nat /\ a = x + y /\ o.acc = x + 1 /\ o.nulls = y
          BY <1>2, <1>9
        <4>2. Len(o.called) = l /\ s.pendingcb = p + 1
          BY <1>8, <1>9
        <4> HIDE DEF x, y, a, l, p
        <4>. QED BY <4>1, <4>2
      <3> HIDE DEF p, a, l
      <3>4. p = a - l => p + 1 = (a + 1) - l
        BY <3>1
      <3>5. QED BY <3>2, <3>3, <3>4
    <2> HIDE DEF s, o
    <2>. QED BY <1>1, <1>8, <1>9, <2>1 DEF Agree, SameFlags
  <1> HIDE DEF s, o, id, chunk
  <1>11. Clean(n) /\ n.state = s /\ n.obs = o /\ SameFinish(m, n)
    BY <1>8, <1>9, <1>10, WithClean DEF SameFinish
  <1>12. CASE MustBuffer(m.state)
    <2>1. n.state \in WritableState /\ Agree(n.state, n.obs)
      BY <1>11, CleanParts
    <2>2. r \in WritableState /\ SameFlags(n.state, r)
          /\ r.pendingcb = n.state.pendingcb
      <3> DEFINE q == Append(n.state.buffer, chunk)
      <3>1. n.state.buffer \in Seq(Chunk)
        BY <2>1 DEF WritableState, StateFields
      <3>2. q \in Seq(Chunk)
        BY <1>6, <3>1, AppendProperties
      <3> HIDE DEF q, n
      <3>3. LET x == [n.state EXCEPT !.buffer = q]
            IN  x \in WritableState /\ SameFlags(n.state, x)
                /\ x.pendingcb = n.state.pendingcb
        BY <2>1, <3>2 DEF WritableState, StateFields, SameFlags
      <3>4. QED BY <3>3 DEF q
    <2> HIDE DEF n, r
    <2>3. Agree(r, n.obs)
      BY <2>1, <2>2 DEF Agree, SameFlags
    <2>4. Clean(WithState(n, r)) /\ SameFinish(n, WithState(n, r))
      BY <1>11, <2>2, <2>3, WithStateClean
    <2>. QED BY <1>4, <1>11, <1>12, <2>4 DEF SameFinish
  <1>13. CASE ~MustBuffer(m.state)
    <2>1. ~n.state.writing
      BY <1>8, <1>11, <1>13 DEF MustBuffer, SameFlags
    <2>2. len \in Int /\ 0 \in Nat
      OBVIOUS
    <2> HIDE DEF n
    <2>3. LET d == DoWrite(n, FALSE, len, <<chunk>>, Cb1(id), 0)
          IN  Clean(d) /\ SameFinish(n, d)
      BY <1>6, <1>7, <1>11, <2>1, <2>2, DoWriteClean
    <2>. QED BY <1>4, <1>11, <1>13, <2>3 DEF SameFinish
  <1>. QED BY <1>12, <1>13

(* A refused write() only calls the 'error' listeners. *)
LEMMA RejectClean ==
  ASSUME NEW m, Clean(m)
  PROVE  Clean(Reject(m)) /\ SameFinish(m, Reject(m))
  <1> DEFINE o == [m.obs EXCEPT !.rejects = @ + 1]
             f == [Frame("error") EXCEPT !.then = "rejected"]
             n == WithObs(m, o)
  <1>1. /\ m.state \in WritableState /\ m.obs \in Observations
        /\ Agree(m.state, m.obs)
    BY CleanParts
  <1>2. /\ o \in Observations /\ o.acc = m.obs.acc /\ o.nulls = m.obs.nulls /\ o.called = m.obs.called
        /\ o.inflight = m.obs.inflight /\ o.finishes = m.obs.finishes
    <2> DEFINE k == m.obs.rejects + 1
    <2>1. k \in Nat
      BY <1>1 DEF Observations
    <2> HIDE DEF k
    <2>2. LET x == [m.obs EXCEPT !.rejects = k]
          IN  /\ x \in Observations /\ x.acc = m.obs.acc /\ x.nulls = m.obs.nulls /\ x.called = m.obs.called
              /\ x.inflight = m.obs.inflight /\ x.finishes = m.obs.finishes
      BY <1>1, <2>1 DEF Observations
    <2>3. QED BY <2>2 DEF k
  <1>3. f \in Frames /\ f.at = "error"
    <2>1. Frame("error") \in FrameFields /\ Frame("error").at = "error"
      BY FrameType DEF UserAt
    <2>. QED BY <2>1 DEF Frames, FrameFields
  <1>4. Reject(m) = Push(n, f)
    BY DEF Reject
  <1> HIDE DEF o, f
  <1>5. Agree(m.state, o)
    BY <1>1, <1>2 DEF Agree
  <1>6. Clean(n) /\ n.obs = o
    BY <1>2, <1>5, WithObsClean
  <1> HIDE DEF n
  <1>. QED BY <1>2, <1>3, <1>4, <1>6, PushClean DEF SameFinish

(* uncork() clears the buffer only when no _write() is unfinished. *)
LEMMA UncorkToClean ==
  ASSUME NEW m, Clean(m), NEW k \in Nat
  PROVE  Clean(UncorkTo(m, k)) /\ SameFinish(m, UncorkTo(m, k))
  <1> DEFINE s == [m.state EXCEPT !.corked = k]
             n == WithState(m, s)
  <1>1. /\ m.state \in WritableState /\ m.obs \in Observations
        /\ Agree(m.state, m.obs)
    BY CleanParts
  <1>2. /\ s \in WritableState /\ SameFlags(m.state, s)
        /\ s.pendingcb = m.state.pendingcb
    BY <1>1 DEF WritableState, StateFields, SameFlags
  <1>3. UncorkTo(m, k) = n \/ (~n.state.writing /\ n.state.buffer # <<>>
                               /\ UncorkTo(m, k) = ClearBuffer(n))
    BY DEF UncorkTo
  <1> HIDE DEF s
  <1>4. Agree(s, m.obs)
    BY <1>1, <1>2 DEF Agree, SameFlags
  <1>5. Clean(n) /\ SameFinish(m, n)
    BY <1>2, <1>4, WithStateClean
  <1> HIDE DEF n
  <1>. QED BY <1>3, <1>5, ClearBufferClean DEF SameFinish

(* A library function that waits keeps its frame on the stack. *)
LEMMA LibFrame ==
  ASSUME NEW at \in {"end", "endUncork", "endWritable"}, NEW hasCb \in BOOLEAN
  PROVE  LET f == [Frame(at) EXCEPT !.hasCb = hasCb]
         IN  f \in Frames /\ f.at = at
  <1>1. Frame(at) \in FrameFields /\ Frame(at).at = at
    BY FrameType DEF LibAt
  <1>. QED BY <1>1 DEF Frames, FrameFields

(* endWritable(): finishMaybe() runs with ending already set. *)
LEMMA EndWritableInv ==
  ASSUME NEW m, Clean(m), NEW hasCb \in BOOLEAN
  PROVE  Inv(EndWritable(m, hasCb)) /\ (Plain => FinishStep(m, EndWritable(m, hasCb)))
  <1>1. CASE m.state.ending \/ m.state.finished
    BY <1>1, CleanIsInv DEF EndWritable, FinishStep
  <1>2. CASE ~(m.state.ending \/ m.state.finished)
    <2> DEFINE s == [m.state EXCEPT !.ending = TRUE]
               f == [Frame("endWritable") EXCEPT !.hasCb = hasCb]
               n == WithState(m, s)
    <2>1. /\ m.state \in WritableState /\ m.obs \in Observations
          /\ Agree(m.state, m.obs)
      BY CleanParts
    <2>2. /\ s \in WritableState /\ s.prefinished = m.state.prefinished
          /\ s.ending /\ s.pendingcb = m.state.pendingcb
          /\ s.writing = m.state.writing /\ s.finished = m.state.finished
      BY <2>1 DEF WritableState, StateFields
    <2>3. EndWritable(m, hasCb) = FinishMaybe(Push(n, f))
      BY <1>2 DEF EndWritable
    <2>4. f \in Frames /\ f.at = "endWritable"
      BY LibFrame
    <2> HIDE DEF s, f
    <2>5. Agree(s, m.obs)
      BY <2>1, <2>2 DEF Agree
    <2>6. Clean(n) /\ n.state = s /\ n.obs = m.obs
      BY <2>2, <2>5, WithStateClean
    <2> HIDE DEF n
    <2>7. Clean(Push(n, f)) /\ Push(n, f).state = s /\ Push(n, f).obs = m.obs
      BY <2>4, <2>6, PushClean, PushParts, CleanParts
    <2>8. /\ Inv(FinishMaybe(Push(n, f)))
          /\ Plain => FinishMaybe(Push(n, f)).obs.finishes = m.obs.finishes
      <3> DEFINE q == Push(n, f)
      <3>1. Clean(q) /\ q.state = s /\ q.obs = m.obs
        BY <2>7
      <3> HIDE DEF q
      <3>2. Inv(FinishMaybe(q))
        BY <3>1, FinishMaybeInv
      <3>3. Plain => ~q.state.prefinished
        BY <1>2, <2>1, <2>2, <3>1 DEF Agree
      <3>4. Plain => FinishMaybe(q).obs.finishes = q.obs.finishes
        BY <3>1, <3>3, PrefinishFirst
      <3>5. QED BY <3>1, <3>2, <3>4 DEF q
    <2>. QED BY <2>3, <2>8 DEF FinishStep
  <1>. QED BY <1>1, <1>2

(* .end() fully uncorks, then ends. *)
LEMMA EndUncorkInv ==
  ASSUME NEW m, Clean(m), NEW hasCb \in BOOLEAN
  PROVE  Inv(EndUncork(m, hasCb)) /\ (Plain => FinishStep(m, EndUncork(m, hasCb)))
  <1>1. CASE ~(m.state.corked > 0)
    BY <1>1, EndWritableInv DEF EndUncork
  <1>2. CASE m.state.corked > 0
    <2> DEFINE f == [Frame("endUncork") EXCEPT !.hasCb = hasCb]
               n == Push(m, f)
    <2>1. EndUncork(m, hasCb) = UncorkTo(n, 0)
      BY <1>2 DEF EndUncork
    <2>2. f \in Frames /\ f.at = "endUncork"
      BY LibFrame
    <2> HIDE DEF f
    <2>3. Clean(n) /\ SameFinish(m, n)
      BY <2>2, PushClean
    <2> HIDE DEF n
    <2>4. Clean(UncorkTo(n, 0)) /\ SameFinish(n, UncorkTo(n, 0))
      BY <2>3, UncorkToClean
    <2>. QED BY <2>1, <2>3, <2>4, CleanIsInv DEF SameFinish, FinishStep
  <1>. QED BY <1>1, <1>2

(* end(chunk) writes the chunk first. *)
LEMMA EndChunkClean ==
  ASSUME NEW m, Clean(m), NEW len \in Nat, NEW hasCb \in BOOLEAN
  PROVE  Clean(EndChunk(m, len, hasCb)) /\ SameFinish(m, EndChunk(m, len, hasCb))
  <1> DEFINE f == [Frame("end") EXCEPT !.hasCb = hasCb]
             n == Push(m, f)
  <1>1. EndChunk(m, len, hasCb) \in {Reject(n), WriteOrBuffer(n, len)}
    BY DEF EndChunk
  <1>2. f \in Frames /\ f.at = "end"
    BY LibFrame
  <1> HIDE DEF f
  <1>3. Clean(n) /\ SameFinish(m, n)
    BY <1>2, PushClean
  <1> HIDE DEF n
  <1>4. /\ Clean(Reject(n)) /\ SameFinish(n, Reject(n))
        /\ Clean(WriteOrBuffer(n, len)) /\ SameFinish(n, WriteOrBuffer(n, len))
    BY <1>3, RejectClean, WriteOrBufferClean
  <1>. QED BY <1>1, <1>3, <1>4 DEF SameFinish

(* The end of endWritable(). *)
LEMMA EndReturnClean ==
  ASSUME NEW m, Clean(m), NEW hasCb \in BOOLEAN
  PROVE  Clean(EndReturn(m, hasCb)) /\ SameFinish(m, EndReturn(m, hasCb))
  <1> DEFINE next == IF ~hasCb THEN m.obs.endcb
                     ELSE IF m.state.finished THEN "ticked" ELSE "once"
             s == [m.state EXCEPT !.ended = TRUE]
             o == [m.obs EXCEPT !.endcb = next]
             n == With(m, s, o)
  <1>1. /\ m.state \in WritableState /\ m.obs \in Observations
        /\ Agree(m.state, m.obs)
    BY CleanParts
  <1>2. /\ s \in WritableState /\ SameFlags(m.state, s)
        /\ s.pendingcb = m.state.pendingcb
    BY <1>1 DEF WritableState, StateFields, SameFlags
  <1>3. next \in {"none", "once", "ticked", "called"}
    BY <1>1 DEF Observations
  <1>4. EndReturn(m, hasCb) \in {n, NextTick(n, Tick("endcb"))}
    BY DEF EndReturn
  <1> HIDE DEF next
  <1>5. /\ o \in Observations /\ o.acc = m.obs.acc /\ o.nulls = m.obs.nulls /\ o.called = m.obs.called
        /\ o.inflight = m.obs.inflight /\ o.finishes = m.obs.finishes
    BY <1>1, <1>3 DEF Observations
  <1>6. Tick("endcb") \in Ticks
    BY TickType
  <1> HIDE DEF s, o
  <1>7. Agree(s, o)
    BY <1>1, <1>2, <1>5 DEF Agree, SameFlags
  <1>8. Clean(n) /\ SameFinish(m, n)
    BY <1>2, <1>5, <1>7, WithClean DEF SameFinish
  <1> HIDE DEF n
  <1>. QED BY <1>4, <1>6, <1>8, NextTickClean DEF SameFinish

(* Changing the number of unfinished calls changes nothing else. *)
LEMMA SetInflight ==
  ASSUME NEW o \in Observations, NEW k \in Int
  PROVE  LET r == [o EXCEPT !.inflight = k]
         IN  /\ r \in Observations /\ r.inflight = k
             /\ r.acc = o.acc /\ r.nulls = o.nulls /\ r.called = o.called
             /\ r.finishes = o.finishes
  BY DEF Observations

(* onwrite's state update ends the one unfinished _write(). *)
LEMMA OnwriteStateUpdateClean ==
  ASSUME NEW m, Clean(m), m.state.writing
  PROVE  LET n == OnwriteStateUpdate(m)
         IN  Clean(n) /\ SameFinish(m, n) /\ ~n.state.writing
  <1> DEFINE s == [m.state EXCEPT !.writing = FALSE, !.writecb = NoCb,
                          !.length = @ - m.state.writelen, !.writelen = 0]
             o == [m.obs EXCEPT !.inflight = @ - 1]
             n == With(m, s, o)
  <1>1. /\ m.state \in WritableState /\ m.obs \in Observations
        /\ Agree(m.state, m.obs)
    BY CleanParts
  <1>2. /\ s \in WritableState /\ ~s.writing
        /\ s.pendingcb = m.state.pendingcb /\ s.finished = m.state.finished
        /\ s.ending = m.state.ending /\ s.prefinished = m.state.prefinished
    <2> DEFINE k == m.state.length - m.state.writelen
    <2>1. k \in Int /\ 0 \in Int
      BY <1>1 DEF WritableState, StateFields
    <2>2. NoCb \in Callback
      BY EmptySeq DEF NoCb, Callback
    <2> HIDE DEF k
    <2> DEFINE x == [m.state EXCEPT !.writing = FALSE, !.writecb = NoCb,
                                    !.length = k, !.writelen = 0]
    <2>3. x \in StateFields
      BY <1>1, <2>1, <2>2, Zenon DEF WritableState, StateFields
    <2>4. /\ ~x.writing
          /\ x.pendingcb = m.state.pendingcb
          /\ x.finished = m.state.finished
          /\ x.ending = m.state.ending
          /\ x.prefinished = m.state.prefinished
      BY <1>1, Zenon DEF WritableState, StateFields
    <2>5. x \in WritableState
      BY <2>3, <2>4, Zenon DEF WritableState
    <2>6. QED BY <2>4, <2>5 DEF k
  <1>3. /\ o \in Observations /\ o.inflight = 0
        /\ o.acc = m.obs.acc /\ o.nulls = m.obs.nulls /\ o.called = m.obs.called
        /\ o.finishes = m.obs.finishes
    <2> DEFINE k == m.obs.inflight - 1
    <2>1. k = 0
      BY <1>1 DEF Agree
    <2>2. k \in Int
      BY <2>1
    <2> HIDE DEF k
    <2>3. QED BY <1>1, <2>1, <2>2, SetInflight DEF k
  <1>4. OnwriteStateUpdate(m) = n
    BY DEF OnwriteStateUpdate
  <1> HIDE DEF s, o
  <1>5. Agree(s, o)
    BY <1>1, <1>2, <1>3 DEF Agree
  <1>6. Clean(n) /\ n.state = s /\ n.obs = o
    BY <1>2, <1>3, <1>5, WithClean
  <1> HIDE DEF n
  <1>. QED BY <1>2, <1>3, <1>4, <1>6 DEF SameFinish

(* A tick that carries a callback. *)
LEMMA OwingTick ==
  ASSUME NEW run \in {"afterWrite", "error"}, NEW cb \in Callback, cb.ids # <<>>,
         NEW fin \in BOOLEAN
  PROVE  /\ [Tick(run) EXCEPT !.cb = cb] \in Ticks
         /\ [Tick(run) EXCEPT !.cb = cb, !.fin = fin] \in Ticks
  <1>1. Tick(run) \in TickFields
    BY TickType
  <1>. QED BY <1>1 DEF Ticks, TickFields

(* onwriteError(): the callback at once or on a later tick. *)
LEMMA OnwriteErrorClean ==
  ASSUME NEW m, Clean(m), NEW sync \in BOOLEAN, NEW cb \in Callback, cb.ids # <<>>
  PROVE  Clean(OnwriteError(m, sync, cb)) /\ SameFinish(m, OnwriteError(m, sync, cb))
  <1> DEFINE o == [m.obs EXCEPT !.errored = TRUE]
             n == WithObs(m, o)
             t == [Tick("error") EXCEPT !.cb = cb]
             q == NextTick(n, t)
  <1>1. /\ m.state \in WritableState /\ m.obs \in Observations
        /\ Agree(m.state, m.obs)
    BY CleanParts
  <1>2. /\ o \in Observations /\ o.acc = m.obs.acc /\ o.nulls = m.obs.nulls /\ o.called = m.obs.called
        /\ o.inflight = m.obs.inflight /\ o.finishes = m.obs.finishes
    BY <1>1 DEF Observations
  <1>3. OnwriteError(m, sync, cb) \in
          {Push(q, Frame("error")), RunCb(n, cb, FALSE, "error")}
    BY DEF OnwriteError
  <1>4. t \in Ticks
    BY OwingTick
  <1>5. Frame("error") \in Frames /\ Frame("error").at = "error"
    BY FrameType DEF UserAt
  <1> HIDE DEF o, t
  <1>6. Agree(m.state, o)
    BY <1>1, <1>2 DEF Agree
  <1>7. Clean(n) /\ n.obs = o
    BY <1>2, <1>6, WithObsClean
  <1> HIDE DEF n
  <1>8. Clean(q) /\ SameFinish(n, q)
    BY <1>4, <1>7, NextTickClean
  <1> HIDE DEF q
  <1>9. Clean(Push(q, Frame("error"))) /\ SameFinish(q, Push(q, Frame("error")))
    BY <1>5, <1>8, PushClean
  <1>10. /\ Clean(RunCb(n, cb, FALSE, "error"))
         /\ SameFinish(n, RunCb(n, cb, FALSE, "error"))
    BY <1>7, RunCbClean
  <1>. QED BY <1>2, <1>3, <1>7, <1>8, <1>9, <1>10 DEF SameFinish

(* The end of onwrite(). *)
LEMMA OnwriteReturnClean ==
  ASSUME NEW m, Clean(m), NEW sync \in BOOLEAN, NEW fin \in BOOLEAN,
         NEW cb \in Callback, cb.ids # <<>>
  PROVE  /\ Clean(OnwriteReturn(m, sync, fin, cb))
         /\ SameFinish(m, OnwriteReturn(m, sync, fin, cb))
  <1>1. CASE sync
    <2> DEFINE t == [Tick("afterWrite") EXCEPT !.cb = cb, !.fin = fin]
    <2>1. t \in Ticks
      BY OwingTick
    <2>2. OnwriteReturn(m, sync, fin, cb) = NextTick(m, t)
      BY <1>1 DEF OnwriteReturn
    <2> HIDE DEF t
    <2>. QED BY <2>1, <2>2, NextTickClean
  <1>2. CASE ~sync
    BY <1>2, AfterWriteClean DEF OnwriteReturn
  <1>. QED BY <1>1, <1>2

(* onwrite() after a success. *)
LEMMA OnwriteOkClean ==
  ASSUME NEW m, Clean(m), ~m.state.writing, NEW sync \in BOOLEAN,
         NEW cb \in Callback, cb.ids # <<>>
  PROVE  Clean(OnwriteOk(m, sync, cb)) /\ SameFinish(m, OnwriteOk(m, sync, cb))
  <1> DEFINE fin == NeedFinish(m.state)
             f == [Frame("onwrite") EXCEPT !.cb = cb, !.fin = fin, !.sync = sync]
             n == Push(m, f)
  <1>1. /\ m \in Machine /\ m.state \in WritableState
    BY CleanParts
  <1>2. fin \in BOOLEAN
    BY <1>1 DEF NeedFinish, WritableState, StateFields
  <1>3. \/ OnwriteOk(m, sync, cb) = OnwriteReturn(m, sync, fin, cb)
        \/ m.state.buffer # <<>> /\ OnwriteOk(m, sync, cb) = ClearBuffer(n)
    BY DEF OnwriteOk
  <1> HIDE DEF fin
  <1>4. f \in Frames /\ f.at = "onwrite"
    <2>1. Frame("onwrite") \in FrameFields /\ Frame("onwrite").at = "onwrite"
      BY FrameType DEF LibAt
    <2>. QED BY <1>2, <2>1 DEF Frames, FrameFields
  <1> HIDE DEF f
  <1>5. Clean(n) /\ SameFinish(m, n) /\ n.state = m.state
    BY <1>1, <1>4, PushClean, PushParts
  <1> HIDE DEF n
  <1>6. CASE OnwriteOk(m, sync, cb) = OnwriteReturn(m, sync, fin, cb)
    BY <1>2, <1>6, OnwriteReturnClean
  <1>7. CASE m.state.buffer # <<>> /\ OnwriteOk(m, sync, cb) = ClearBuffer(n)
    <2>1. Clean(ClearBuffer(n)) /\ SameFinish(n, ClearBuffer(n))
      BY <1>5, <1>7, ClearBufferClean
    <2>. QED BY <1>5, <1>7, <2>1 DEF SameFinish
  <1>. QED BY <1>3, <1>6, <1>7

(* The callback that the stream gave to _write(). *)
LEMMA OnwriteClean ==
  ASSUME NEW m, Clean(m), m.state.writing, NEW ok \in BOOLEAN
  PROVE  Clean(Onwrite(m, ok)) /\ SameFinish(m, Onwrite(m, ok))
  <1> DEFINE n == OnwriteStateUpdate(m)
  <1>1. /\ m.state.sync \in BOOLEAN
        /\ m.state.writecb \in Callback /\ m.state.writecb.ids # <<>>
    BY CleanParts DEF WritableState, StateFields
  <1>2. Clean(n) /\ SameFinish(m, n) /\ ~n.state.writing
    BY OnwriteStateUpdateClean
  <1>3. Onwrite(m, ok) \in {OnwriteOk(n, m.state.sync, m.state.writecb),
                            OnwriteError(n, m.state.sync, m.state.writecb)}
    BY DEF Onwrite
  <1> HIDE DEF n
  <1>4. LET r == OnwriteOk(n, m.state.sync, m.state.writecb)
        IN  Clean(r) /\ SameFinish(n, r)
    BY <1>1, <1>2, OnwriteOkClean
  <1>5. LET r == OnwriteError(n, m.state.sync, m.state.writecb)
        IN  Clean(r) /\ SameFinish(n, r)
    BY <1>1, <1>2, OnwriteErrorClean
  <1>. QED BY <1>2, <1>3, <1>4, <1>5 DEF SameFinish

(* _write() returns to doWrite(), and maybe to clearBuffer()'s loop. *)
LEMMA WriteReturnsClean ==
  ASSUME NEW m, Inv(m), m.stack # <<>>
  PROVE  Clean(WriteReturns(m)) /\ SameFinish(m, WriteReturns(m))
  <1> DEFINE f == Top(m)
             s == [m.state EXCEPT !.sync = FALSE]
             n == WithState(Pop(m), s)
             r == [n.state EXCEPT !.buffer = NotWritten(@, f.c),
                                  !.bufferProcessing = FALSE]
  <1>1. /\ Clean(Pop(m)) /\ SameFinish(m, Pop(m))
        /\ Pop(m).state = m.state /\ Pop(m).obs = m.obs
        /\ f \in Frames
    BY PopClean
  <1>2. m.state \in WritableState /\ Agree(m.state, m.obs) /\ f.c \in Nat
    BY <1>1, CleanParts DEF Frames, FrameFields
  <1>3. /\ s \in WritableState /\ SameFlags(m.state, s)
        /\ s.pendingcb = m.state.pendingcb
    BY <1>2 DEF WritableState, StateFields, SameFlags
  <1>4. \/ WriteReturns(m) = n
        \/ /\ ~n.state.writing /\ f.c < Len(n.state.buffer)
           /\ WriteReturns(m) = WriteNth(n, f.c + 1)
        \/ WriteReturns(m) = WithState(n, r)
    BY DEF WriteReturns
  <1> HIDE DEF s, f
  <1>5. Agree(s, Pop(m).obs)
    BY <1>1, <1>2, <1>3 DEF Agree, SameFlags
  <1>6. Clean(n) /\ SameFinish(m, n)
    BY <1>1, <1>3, <1>5, WithStateClean DEF SameFinish
  <1> HIDE DEF n
  <1>7. n.state \in WritableState /\ Agree(n.state, n.obs)
    BY <1>6, CleanParts
  <1>8. n.state.buffer \in Seq(Chunk) /\ Len(n.state.buffer) \in Nat
    BY <1>7, LenProperties DEF WritableState, StateFields
  <1>9. CASE WriteReturns(m) = n
    BY <1>6, <1>9
  <1>10. CASE /\ ~n.state.writing /\ f.c < Len(n.state.buffer)
              /\ WriteReturns(m) = WriteNth(n, f.c + 1)
    <2>1. f.c + 1 \in 1..Len(n.state.buffer) /\ f.c + 1 \in Nat
      BY <1>2, <1>8, <1>10
    <2>2. Clean(WriteNth(n, f.c + 1)) /\ SameFinish(n, WriteNth(n, f.c + 1))
      BY <1>6, <1>10, <2>1, WriteNthClean
    <2>. QED BY <1>6, <1>10, <2>2 DEF SameFinish
  <1>11. CASE WriteReturns(m) = WithState(n, r)
    <2>1. /\ r \in WritableState /\ SameFlags(n.state, r)
          /\ r.pendingcb = n.state.pendingcb
      <3> DEFINE q == NotWritten(n.state.buffer, f.c)
      <3>1. q \in Seq(Chunk)
        BY <1>2, <1>8, SubSeqType DEF NotWritten
      <3> HIDE DEF q
      <3>2. LET x == [n.state EXCEPT !.buffer = q, !.bufferProcessing = FALSE]
            IN  /\ x \in WritableState /\ SameFlags(n.state, x)
                /\ x.pendingcb = n.state.pendingcb
        BY <1>7, <3>1 DEF WritableState, StateFields, SameFlags
      <3>3. QED BY <3>2 DEF q
    <2> HIDE DEF r
    <2>2. Agree(r, n.obs)
      BY <1>7, <2>1 DEF Agree, SameFlags
    <2>3. Clean(WithState(n, r)) /\ SameFinish(n, WithState(n, r))
      BY <1>6, <2>1, <2>2, WithStateClean
    <2>. QED BY <1>6, <1>11, <2>3 DEF SameFinish
  <1>. QED BY <1>4, <1>9, <1>10, <1>11

(* _writev() returns to clearBuffer(). *)
LEMMA WritevReturnsClean ==
  ASSUME NEW m, Inv(m), m.stack # <<>>
  PROVE  Clean(WritevReturns(m)) /\ SameFinish(m, WritevReturns(m))
  <1> DEFINE s == [m.state EXCEPT !.sync = FALSE, !.buffer = <<>>,
                                  !.bufferProcessing = FALSE]
             n == WithState(Pop(m), s)
  <1>1. /\ Clean(Pop(m)) /\ SameFinish(m, Pop(m))
        /\ Pop(m).state = m.state /\ Pop(m).obs = m.obs
    BY PopClean
  <1>2. m.state \in WritableState /\ Agree(m.state, m.obs)
    BY <1>1, CleanParts
  <1>3. /\ s \in WritableState /\ SameFlags(m.state, s)
        /\ s.pendingcb = m.state.pendingcb
    <2>1. <<>> \in Seq(Chunk)
      BY EmptySeq
    <2>. QED BY <1>2, <2>1 DEF WritableState, StateFields, SameFlags
  <1>4. WritevReturns(m) = n
    BY DEF WritevReturns
  <1> HIDE DEF s
  <1>5. Agree(s, Pop(m).obs)
    BY <1>1, <1>2, <1>3 DEF Agree, SameFlags
  <1>6. Clean(n) /\ SameFinish(m, n)
    BY <1>1, <1>3, <1>5, WithStateClean DEF SameFinish
  <1>. QED BY <1>4, <1>6

(* A user callback returns: the next of its group, or what follows. *)
LEMMA CbReturnsInv ==
  ASSUME NEW m, Inv(m), m.stack # <<>>
  PROVE  Inv(CbReturns(m)) /\ (Plain => FinishStep(m, CbReturns(m)))
  <1> DEFINE f == Top(m)
             n == Pop(m)
  <1>1. /\ Clean(n) /\ SameFinish(m, n)
        /\ n.state = m.state /\ n.obs = m.obs
        /\ f \in Frames
    BY PopClean
  <1>2. /\ f.cb.ids \in Seq(Nat) /\ f.ok \in BOOLEAN
        /\ f.then \in {"return", "finishMaybe", "error", "rejected"}
    BY <1>1 DEF Frames, FrameFields, Callback
  <1>3. \/ /\ Len(f.cb.ids) > 1
           /\ CbReturns(m) = CallCb(n, Tail(f.cb.ids), f.ok, f.then)
        \/ CbReturns(m) = FinishMaybe(n)
        \/ CbReturns(m) = Push(n, Frame("error"))
        \/ CbReturns(m) = n
    BY DEF CbReturns
  <1> HIDE DEF n, f
  <1>4. ASSUME Len(f.cb.ids) > 1
        PROVE  LET r == CallCb(n, Tail(f.cb.ids), f.ok, f.then)
               IN  Clean(r) /\ SameFinish(n, r)
    <2>1. Tail(f.cb.ids) \in Seq(Nat) /\ Tail(f.cb.ids) # <<>>
      BY <1>2, <1>4, TailNonEmpty
    <2>. QED BY <1>1, <1>2, <2>1, CallCbClean
  <1>5. Inv(FinishMaybe(n)) /\ (Plain => FinishStep(n, FinishMaybe(n)))
    BY <1>1, FinishMaybeInv
  <1>6. Clean(Push(n, Frame("error"))) /\ SameFinish(n, Push(n, Frame("error")))
    BY <1>1, FrameType, PushClean DEF UserAt
  <1>7. CASE /\ Len(f.cb.ids) > 1
             /\ CbReturns(m) = CallCb(n, Tail(f.cb.ids), f.ok, f.then)
    BY <1>1, <1>4, <1>7, CleanIsInv DEF SameFinish, FinishStep
  <1>8. CASE CbReturns(m) = FinishMaybe(n)
    BY <1>1, <1>5, <1>8 DEF FinishStep
  <1>9. CASE CbReturns(m) = Push(n, Frame("error"))
    BY <1>1, <1>6, <1>9, CleanIsInv DEF SameFinish, FinishStep
  <1>10. CASE CbReturns(m) = n
    BY <1>1, <1>10, CleanIsInv DEF SameFinish, FinishStep
  <1>. QED BY <1>3, <1>7, <1>8, <1>9, <1>10

(* An 'error' listener returns. *)
LEMMA ErrorReturnsClean ==
  ASSUME NEW m, Inv(m), m.stack # <<>>
  PROVE  Clean(ErrorReturns(m)) /\ SameFinish(m, ErrorReturns(m))
  <1>1. Clean(Pop(m)) /\ SameFinish(m, Pop(m))
    BY PopClean
  <1>2. ErrorReturns(m) \in {Pop(m), NextTick(Pop(m), Tick("rejected"))}
    BY DEF ErrorReturns
  <1>3. LET r == NextTick(Pop(m), Tick("rejected"))
        IN  Clean(r) /\ SameFinish(Pop(m), r)
    BY <1>1, TickType, NextTickClean
  <1>. QED BY <1>1, <1>2, <1>3 DEF SameFinish

(* Other people's code returns to the library. *)
LEMMA UserReturnsInv ==
  ASSUME NEW m, Inv(m), m.stack # <<>>, Top(m).at \in UserAt
  PROVE  Inv(UserReturns(m)) /\ (Plain => FinishStep(m, UserReturns(m)))
  <1>1. /\ Clean(Pop(m)) /\ SameFinish(m, Pop(m)) /\ Top(m) \in Frames
        /\ Pop(m).state = m.state /\ Pop(m).obs = m.obs
    BY PopClean
  <1>2. CASE Top(m).at = "_write"
    BY <1>2, WriteReturnsClean, CleanIsInv DEF UserReturns, SameFinish, FinishStep
  <1>3. CASE Top(m).at = "_writev"
    BY <1>3, WritevReturnsClean, CleanIsInv DEF UserReturns, SameFinish, FinishStep
  <1>4. CASE Top(m).at = "cb"
    BY <1>4, CbReturnsInv DEF UserReturns
  <1>5. CASE Top(m).at = "drain"
    <2> DEFINE r == RunCb(Pop(m), Top(m).cb, TRUE, "finishMaybe")
    <2>1. Top(m).cb \in Callback /\ Top(m).cb.ids # <<>>
      BY <1>1, <1>5 DEF Frames, FrameFields
    <2>2. Clean(r) /\ SameFinish(Pop(m), r)
      BY <1>1, <2>1, RunCbClean
    <2>3. UserReturns(m) = r
      BY <1>5 DEF UserReturns
    <2> HIDE DEF r
    <2>. QED BY <1>1, <2>2, <2>3, CleanIsInv DEF SameFinish, FinishStep
  <1>6. CASE Top(m).at = "error"
    BY <1>6, ErrorReturnsClean, CleanIsInv DEF UserReturns, SameFinish, FinishStep
  <1>7. CASE Top(m).at = "prefinish" /\ Top(m).fin
    <2>1. UserReturns(m) = EmitFinish(Pop(m))
      BY <1>7 DEF UserReturns
    <2>2. Plain => m.state.pendingcb = 0 /\ NeedFinish(m.state)
      BY <1>7, PopClean
    <2>3. Inv(EmitFinish(Pop(m)))
      BY <1>1, <2>2, EmitFinishClean, CleanIsInv DEF NeedFinish
    <2>4. Plain => FinishStep(Pop(m), EmitFinish(Pop(m)))
      BY <1>1, <2>2, EmitFinishStep
    <2>. QED BY <1>1, <2>1, <2>3, <2>4 DEF FinishStep
  <1>8. CASE Top(m).at = "prefinish" /\ ~Top(m).fin
    <2>1. UserReturns(m) = Pop(m)
      BY <1>8 DEF UserReturns
    <2>. QED BY <1>1, <2>1, CleanIsInv DEF SameFinish, FinishStep
  <1>9. CASE Top(m).at \in {"event", "finish"}
    <2>1. UserReturns(m) = Pop(m)
      BY <1>9 DEF UserReturns
    <2>. QED BY <1>1, <2>1, CleanIsInv DEF SameFinish, FinishStep
  <1>. QED BY <1>2, <1>3, <1>4, <1>5, <1>6, <1>7, <1>8, <1>9 DEF UserAt

(* A library function goes on after a call it made. *)
LEMMA LibResumesInv ==
  ASSUME NEW m, Inv(m), m.stack # <<>>, Top(m).at \in LibAt
  PROVE  Inv(LibResumes(m)) /\ (Plain => FinishStep(m, LibResumes(m)))
  <1> DEFINE f == Top(m)
             n == Pop(m)
  <1>1. /\ Clean(n) /\ SameFinish(m, n) /\ f \in Frames
        /\ n.state = m.state /\ n.obs = m.obs
    BY PopClean
  <1>2. /\ f.sync \in BOOLEAN /\ f.fin \in BOOLEAN /\ f.hasCb \in BOOLEAN
        /\ f.cb \in Callback /\ (f.at = "onwrite" => f.cb.ids # <<>>)
    BY <1>1 DEF Frames, FrameFields
  <1>3. /\ f.at = "onwrite" =>
             LibResumes(m) = OnwriteReturn(n, f.sync, f.fin, f.cb)
        /\ f.at = "end" => LibResumes(m) = EndUncork(n, f.hasCb)
        /\ f.at = "endUncork" => LibResumes(m) = EndWritable(n, f.hasCb)
        /\ f.at = "endWritable" => LibResumes(m) = EndReturn(n, f.hasCb)
    BY DEF LibResumes
  <1>4. f.at \in {"onwrite", "end", "endUncork", "endWritable"}
    BY DEF LibAt
  <1> HIDE DEF f, n
  <1>5. CASE f.at = "onwrite"
    <2>1. LET r == OnwriteReturn(n, f.sync, f.fin, f.cb)
          IN  Clean(r) /\ SameFinish(n, r)
      BY <1>1, <1>2, <1>5, OnwriteReturnClean
    <2>. QED BY <1>1, <1>3, <1>5, <2>1, CleanIsInv DEF SameFinish, FinishStep
  <1>6. CASE f.at = "end"
    BY <1>1, <1>2, <1>3, <1>6, EndUncorkInv DEF FinishStep
  <1>7. CASE f.at = "endUncork"
    BY <1>1, <1>2, <1>3, <1>7, EndWritableInv DEF FinishStep
  <1>8. CASE f.at = "endWritable"
    <2>1. Clean(EndReturn(n, f.hasCb)) /\ SameFinish(n, EndReturn(n, f.hasCb))
      BY <1>1, <1>2, EndReturnClean
    <2>. QED BY <1>1, <1>3, <1>8, <2>1, CleanIsInv DEF SameFinish, FinishStep
  <1>. QED BY <1>4, <1>5, <1>6, <1>7, <1>8

(* The event loop takes the oldest tick. *)
LEMMA RunTickClean ==
  ASSUME NEW m, Clean(m), m.ticks # <<>>
  PROVE  Clean(RunTick(m)) /\ SameFinish(m, RunTick(m))
  <1> DEFINE t == Head(m.ticks)
             n == [m EXCEPT !.ticks = Tail(@)]
             o == [n.obs EXCEPT !.endcb = "called"]
             q == WithObs(n, o)
  <1>1. /\ m \in Machine /\ m.ticks \in Seq(Ticks)
    BY CleanParts
  <1>2. Tail(m.ticks) \in Seq(Ticks) /\ t \in Ticks
    BY <1>1, HeadTailProperties
  <1>3. /\ n \in Machine /\ n.state = m.state /\ n.obs = m.obs
        /\ n.stack = m.stack
    BY <1>1, <1>2 DEF Machine
  <1>4. /\ t.run \in {"afterWrite", "error", "rejected", "endcb"}
        /\ t.cb \in Callback /\ t.fin \in BOOLEAN
        /\ t.run \in {"afterWrite", "error"} => t.cb.ids # <<>>
    BY <1>2 DEF Ticks, TickFields
  <1>5. /\ t.run = "afterWrite" => RunTick(m) = AfterWrite(n, t.fin, t.cb)
        /\ t.run = "error" => RunTick(m) = RunCb(n, t.cb, FALSE, "return")
        /\ t.run = "rejected" => RunTick(m) = Push(n, Frame("cb"))
        /\ t.run = "endcb" => RunTick(m) = Push(q, Frame("cb"))
    BY DEF RunTick
  <1> HIDE DEF n, t
  <1>6. Clean(n) /\ SameFinish(m, n)
    BY <1>3 DEF Clean, Good, Counted, NoPre, SameFinish
  <1>7. Frame("cb") \in Frames /\ Frame("cb").at = "cb"
    BY FrameType DEF UserAt
  <1>8. CASE t.run = "afterWrite"
    <2>1. LET r == AfterWrite(n, t.fin, t.cb) IN Clean(r) /\ SameFinish(n, r)
      BY <1>4, <1>6, <1>8, AfterWriteClean
    <2>. QED BY <1>5, <1>6, <1>8, <2>1 DEF SameFinish
  <1>9. CASE t.run = "error"
    <2>1. LET r == RunCb(n, t.cb, FALSE, "return") IN Clean(r) /\ SameFinish(n, r)
      BY <1>4, <1>6, <1>9, RunCbClean
    <2>. QED BY <1>5, <1>6, <1>9, <2>1 DEF SameFinish
  <1>10. CASE t.run = "rejected"
    <2>1. LET r == Push(n, Frame("cb")) IN Clean(r) /\ SameFinish(n, r)
      BY <1>6, <1>7, PushClean
    <2>. QED BY <1>5, <1>6, <1>10, <2>1 DEF SameFinish
  <1>11. CASE t.run = "endcb"
    <2>1. n.obs \in Observations /\ n.state \in WritableState /\ Agree(n.state, n.obs)
      BY <1>6, CleanParts
    <2>2. /\ o \in Observations /\ o.acc = n.obs.acc /\ o.nulls = n.obs.nulls /\ o.called = n.obs.called
          /\ o.inflight = n.obs.inflight /\ o.finishes = n.obs.finishes
      BY <2>1 DEF Observations
    <2> HIDE DEF o
    <2>3. Agree(n.state, o)
      BY <2>1, <2>2 DEF Agree
    <2>4. Clean(q) /\ SameFinish(n, q)
      BY <1>6, <2>2, <2>3, WithObsClean DEF SameFinish
    <2> HIDE DEF q
    <2>5. LET r == Push(q, Frame("cb")) IN Clean(r) /\ SameFinish(q, r)
      BY <1>7, <2>4, PushClean
    <2>. QED BY <1>5, <1>6, <1>11, <2>4, <2>5 DEF SameFinish
  <1>. QED BY <1>4, <1>8, <1>9, <1>10, <1>11
(* write(null) counts twice, and nothing else.                             *)
NullWritten(m) == With(m, [m.state EXCEPT !.pendingcb = @ + 1], [m.obs EXCEPT !.nulls = @ + 1])
LEMMA NullClean ==
  ASSUME NEW m, Clean(m)
  PROVE  Clean(NullWritten(m)) /\ SameFinish(m, NullWritten(m))
  <1> DEFINE k == m.state.pendingcb + 1
             s == [m.state EXCEPT !.pendingcb = k]
             j == m.obs.nulls + 1
             o == [m.obs EXCEPT !.nulls = j]
  <1>1. m.state \in WritableState /\ m.obs \in Observations /\ Agree(m.state, m.obs)
    BY CleanParts
  <1>2. m.state.pendingcb \in Int /\ k \in Int
    BY <1>1 DEF WritableState, StateFields
  <1>a. m.obs.nulls \in Nat /\ m.obs.acc \in Nat /\ m.obs.called \in Seq([id : Nat, ok : BOOLEAN])
    BY <1>1 DEF Observations
  <1>b. j \in Nat /\ Len(m.obs.called) \in Nat
    BY <1>a, LenProperties
  <1>3. /\ o \in Observations /\ o.acc = m.obs.acc /\ o.nulls = j
        /\ o.called = m.obs.called /\ o.inflight = m.obs.inflight /\ o.finishes = m.obs.finishes
    <2> HIDE DEF j
    <2>. QED BY <1>1, <1>b DEF Observations
  <1>4. NullWritten(m) = With(m, s, o)
    BY DEF NullWritten
  <1> HIDE DEF o
  <1>5. s \in WritableState /\ SameFlags(m.state, s) /\ s.pendingcb = k
    <2> HIDE DEF k
    <2>. QED BY <1>1, <1>2, SetPendingcb
  <1> HIDE DEF s
  <1>6. Agree(s, o)
    <2>1. Plain => s.pendingcb = (o.acc + o.nulls) - Len(o.called)
      <3>1. Plain => m.state.pendingcb = (m.obs.acc + m.obs.nulls) - Len(m.obs.called)
        BY <1>1 DEF Agree
      <3> DEFINE p == m.state.pendingcb
                 a == m.obs.acc + m.obs.nulls
                 l == Len(m.obs.called)
      <3>2. p \in Int /\ a \in Int /\ l \in Int /\ (Plain => p = a - l)
        BY <1>2, <1>a, <1>b, <3>1
      <3>3. o.acc + o.nulls = a + 1 /\ Len(o.called) = l /\ s.pendingcb = p + 1
        <4> DEFINE x == m.obs.acc
                   y == m.obs.nulls
        <4>1. x \in Nat /\ y \in Nat /\ a = x + y /\ o.acc = x /\ o.nulls = y + 1
          BY <1>a, <1>3
        <4>2. Len(o.called) = l /\ s.pendingcb = p + 1
          BY <1>3, <1>5
        <4> HIDE DEF x, y, a, l, p
        <4>. QED BY <4>1, <4>2
      <3> HIDE DEF p, a, l
      <3>4. p = a - l => p + 1 = (a + 1) - l
        BY <3>2
      <3>. QED BY <3>2, <3>3, <3>4
    <2>. QED BY <1>1, <1>3, <1>5, <2>1 DEF Agree, SameFlags
  <1>. QED BY <1>1, <1>3, <1>4, <1>5, <1>6, WithClean DEF SameFinish
-----------------------------------------------------------------------------
(* The induction.                                                          *)

(* Every initial state is good. *)
LEMMA InitInv == Init => Inv(Now)
  <1> SUFFICES ASSUME Init PROVE Inv(Now)
    OBVIOUS
  <1>1. NoCb \in Callback /\ <<>> \in Seq(Chunk) /\ <<>> \in Seq(Nat)
        /\ <<>> \in Seq(Frames) /\ <<>> \in Seq(Ticks)
        /\ <<>> \in Seq([id : Nat, ok : BOOLEAN])
    BY EmptySeq DEF NoCb, Callback
  <1>2. state \in WritableState /\ state.writing = FALSE
        /\ state.pendingcb = 0 /\ state.finished = FALSE
        /\ state.prefinished = FALSE
    BY <1>1 DEF Init, WritableState, StateFields
  <1>3. obs \in Observations /\ obs.inflight = 0 /\ obs.acc = 0 /\ obs.nulls = 0
        /\ obs.called = <<>> /\ obs.finishes = 0
    BY <1>1 DEF Init, Observations
  <1>4. Now \in Machine /\ Now.state = state /\ Now.obs = obs /\ Now.stack = <<>>
    BY <1>1, <1>2, <1>3 DEF Now, Machine, Init
  <1>5. Counted(Now)
    BY <1>2, <1>3, <1>4, EmptySeq DEF Counted
  <1>6. PreTop(Now)
    BY <1>4, EmptySeq DEF PreTop
  <1>. QED BY <1>2, <1>3, <1>4, <1>5, <1>6 DEF Inv, Good

(* What a step leads to is what the function it calls returns. *)
LEMMA BecomeIs ==
  ASSUME NEW m \in Machine, Become(m)
  PROVE  Now' = m
  BY DEF Become, Now, Machine

(* A function that yields a good machine makes a good step. *)
LEMMA GoodStep ==
  ASSUME NEW n, Become(n), Inv(n), Plain => FinishStep(Now, n)
  PROVE  Inv(Now') /\ (Plain => FinishStep(Now, Now'))
  <1>1. n \in Machine
    BY DEF Inv, Good
  <1>2. Now' = n
    BY <1>1, BecomeIs
  <1>. QED BY <1>2

(* The same for a function that emits no 'finish'. *)
LEMMA CleanStep ==
  ASSUME NEW n, Become(n), Clean(n), SameFinish(Now, n)
  PROVE  Inv(Now') /\ (Plain => FinishStep(Now, Now'))
  BY GoodStep, CleanIsInv DEF SameFinish, FinishStep

(* Code that may call the stream runs on a clean machine. *)
LEMMA RunningClean ==
  ASSUME Inv(Now), NEW frames, Running(frames), Plain => "prefinish" \notin frames
  PROVE  Clean(Now) /\ Now.stack # <<>>
  BY TopClean DEF Running, Now

(* Every step preserves the invariant and treats 'finish' as promised. *)
LEMMA StepInv ==
  ASSUME Inv(Now), [Next]_vars
  PROVE  Inv(Now') /\ (Plain => FinishStep(Now, Now'))
  <1>1. /\ Now \in Machine /\ Now.state = state /\ Now.obs = obs
        /\ Now.stack = stack /\ Now.ticks = ticks
    BY DEF Inv, Good, Now
  <1>2. state \in WritableState /\ obs \in Observations
    BY <1>1 DEF Machine
  <1>3. ASSUME Running(ApiFrames) PROVE Clean(Now)
    BY <1>3, RunningClean DEF Plain
  <1>4. CASE Write
    <2>1. PICK len \in Sizes : Become(WriteOrBuffer(Now, len))
      BY <1>4 DEF Write
    <2>2. Clean(Now) /\ len \in Nat
      BY <1>3, <1>4, WritableAssumption DEF Write
    <2>. QED BY <2>1, <2>2, WriteOrBufferClean, CleanStep
  <1>5. CASE RejectedWrite
    BY <1>3, <1>5, RejectClean, CleanStep DEF RejectedWrite
  <1>n. CASE WriteNull
    <2>1. Clean(Now) /\ Become(NullWritten(Now))
      BY <1>3, <1>n DEF WriteNull, NullWritten, Now
    <2>. QED BY <2>1, NullClean, CleanStep
  <1>6. CASE Cork
    <2> DEFINE s == [state EXCEPT !.corked = @ + 1]
    <2>1. Clean(Now) /\ Become(WithState(Now, s))
      BY <1>3, <1>6 DEF Cork
    <2>2. /\ s \in WritableState /\ SameFlags(state, s)
          /\ s.pendingcb = state.pendingcb
      <3> DEFINE k == state.corked + 1
      <3>1. k \in Nat
        BY <1>2 DEF WritableState, StateFields
      <3> HIDE DEF k
      <3>2. LET x == [state EXCEPT !.corked = k]
            IN  /\ x \in WritableState /\ SameFlags(state, x)
                /\ x.pendingcb = state.pendingcb
        BY <1>2, <3>1 DEF WritableState, StateFields, SameFlags
      <3>3. QED BY <3>2 DEF k
    <2> HIDE DEF s
    <2>3. Agree(s, Now.obs)
      BY <1>1, <2>1, <2>2, CleanParts DEF Agree, SameFlags
    <2>4. Clean(WithState(Now, s)) /\ SameFinish(Now, WithState(Now, s))
      BY <2>1, <2>2, <2>3, WithStateClean
    <2>. QED BY <2>1, <2>4, CleanStep
  <1>7. CASE Uncork
    <2>1. /\ Clean(Now) /\ state.corked > 0
          /\ Become(UncorkTo(Now, state.corked - 1))
      BY <1>3, <1>7 DEF Uncork
    <2>2. state.corked - 1 \in Nat
      BY <1>2, <2>1 DEF WritableState, StateFields
    <2>. QED BY <2>1, <2>2, UncorkToClean, CleanStep
  <1>8. CASE End
    <2>1. PICK hasCb \in BOOLEAN : Become(EndUncork(Now, hasCb))
      BY <1>8 DEF End
    <2>2. Clean(Now)
      BY <1>3, <1>8 DEF End
    <2>. QED BY <2>1, <2>2, EndUncorkInv, GoodStep
  <1>9. CASE EndWithChunk
    <2>1. PICK len \in Sizes, hasCb \in BOOLEAN : Become(EndChunk(Now, len, hasCb))
      BY <1>9 DEF EndWithChunk
    <2>2. Clean(Now) /\ len \in Nat
      BY <1>3, <1>9, WritableAssumption DEF EndWithChunk
    <2>. QED BY <2>1, <2>2, EndChunkClean, CleanStep
  <1>10. CASE WriteDone
    <2>1. PICK ok \in Outcomes : Become(Onwrite(Now, ok))
      BY <1>10 DEF WriteDone
    <2>2. Clean(Now)
      BY <1>10, RunningClean DEF WriteDone, Plain
    <2>3. Now.state.writing
      BY <1>1, <1>2, <1>10 DEF WriteDone, Inv, Good, Observations
    <2>4. ok \in BOOLEAN
      BY WritableAssumption
    <2>. QED BY <2>1, <2>2, <2>3, <2>4, OnwriteClean, CleanStep
  <1>11. CASE Return
    <2>1. Now.stack # <<>> /\ Top(Now).at \in UserAt /\ Become(UserReturns(Now))
      BY <1>1, <1>11 DEF Return, Running
    <2>. QED BY <2>1, UserReturnsInv, GoodStep
  <1>12. CASE Resume
    <2>1. Now.stack # <<>> /\ Top(Now).at \in LibAt /\ Become(LibResumes(Now))
      BY <1>1, <1>12 DEF Resume, Running
    <2>. QED BY <2>1, LibResumesInv, GoodStep
  <1>13. ASSUME stack = <<>> PROVE Clean(Now)
    BY <1>1, <1>13, EmptySeq DEF Inv, Clean, NoPre
  <1>14. CASE ProcessTick
    <2>1. Clean(Now) /\ Now.ticks # <<>> /\ Become(RunTick(Now))
      BY <1>1, <1>13, <1>14 DEF ProcessTick
    <2>. QED BY <2>1, RunTickClean, CleanStep
  <1>15. CASE NewEvent
    <2>1. Clean(Now) /\ Become(Push(Now, Frame("event")))
      BY <1>13, <1>15 DEF NewEvent
    <2>2. Frame("event") \in Frames /\ Frame("event").at = "event"
      BY FrameType DEF UserAt
    <2>. QED BY <2>1, <2>2, PushClean, CleanStep
  <1>16. CASE UNCHANGED vars
    <2>1. Now' = Now
      BY <1>16 DEF Now, vars
    <2>. QED BY <2>1 DEF FinishStep
  <1>. QED BY <1>4, <1>5, <1>n, <1>6, <1>7, <1>8, <1>9, <1>10, <1>11, <1>12, <1>14,
              <1>15, <1>16 DEF Next

(* The inductive invariant, as a state predicate. *)
WritableInv == Inv(Now)

(* It holds in every reachable state. *)
LEMMA InvAlways == Spec => []WritableInv
  <1>1. Init => WritableInv
    BY InitInv DEF WritableInv
  <1>2. WritableInv /\ [Next]_vars => WritableInv'
    BY StepInv DEF WritableInv
  <1>. QED BY <1>1, <1>2, PTL DEF Spec

(* The stream's fields keep their types, for all sizes of buffers, groups  *)
(* and stacks: in particular corked never goes below zero, clearBuffer()   *)
(* never reads past its buffer, and whoever is to call a callback has one. *)
THEOREM TypeCorrect == Spec => []TypeOK
  <1>1. WritableInv => TypeOK
    BY DEF WritableInv, Inv, Good, TypeOK
  <1>. QED BY <1>1, InvAlways, PTL

(* No two calls of _write() or _writev() overlap, whatever is called from  *)
(* inside callbacks, listeners or _write() itself.                         *)
THEOREM NoOverlap == Spec => []OneWriteInFlight
  <1>1. WritableInv => OneWriteInFlight
    BY DEF WritableInv, Inv, Good, Now, OneWriteInFlight
  <1>. QED BY <1>1, InvAlways, PTL

(* Of a stream without _writev() whose 'prefinish' listeners leave it      *)
(* alone: 'finish' comes once, when every accepted chunk was called back.  *)
THEOREM FinishFlushed ==
  ASSUME ~HasWritev, "prefinish" \notin ApiFrames
  PROVE  Spec => FinishMeansFlushed
  <1>1. WritableInv /\ [Next]_vars =>
          [obs'.finishes # obs.finishes =>
             obs.finishes = 0 /\ state.ending
             /\ Len(obs.called) = obs.acc + obs.nulls]_vars
    <2> SUFFICES ASSUME WritableInv, [Next]_vars
                 PROVE  obs'.finishes # obs.finishes =>
                          /\ obs.finishes = 0
                          /\ Len(obs.called) = obs.acc + obs.nulls /\ state.ending
      OBVIOUS
    <2>1. FinishStep(Now, Now')
      BY StepInv DEF WritableInv, Plain
    <2>. QED BY <2>1 DEF FinishStep, Now
  <1>. QED BY <1>1, InvAlways, PTL DEF Spec, FinishMeansFlushed
-----------------------------------------------------------------------------
(* What the library functions leave alone.  None of it depends on the      *)
(* types of the fields, only on there being such fields.                   *)

Has(r, names) == DOMAIN r = names /\ r = [x \in names |-> r[x]]
IsSeq(q) == \E S : q \in Seq(S)
StateNames == {"needDrain", "ending", "ended", "finished", "prefinished", "length", "writing",
               "corked", "sync", "bufferProcessing", "writecb", "writelen", "buffer", "pendingcb"}
ObsNames == {"acc", "rejects", "sent", "inflight", "called", "owed", "errored", "endcb", "finishes", "nulls"}
Shaped(m) == /\ Has(m, {"state", "stack", "ticks", "obs"}) /\ IsSeq(m.stack) /\ IsSeq(m.ticks)
             /\ Has(m.state, StateNames) /\ Has(m.obs, ObsNames)

(* An end() callback that waits for 'finish' is not passed by, and one     *)
(* that waits for its tick has one.                                        *)
EndDue(m) == /\ m.obs.endcb = "once" => ~m.state.finished
             /\ m.obs.endcb = "ticked" => \E i \in 1 .. Len(m.ticks) : m.ticks[i].run = "endcb"

(* Nothing that was seen is forgotten.                                     *)
Kept(m, n) == /\ Shaped(n)
              /\ m.obs.errored => n.obs.errored
              /\ EndDue(m) => EndDue(n)

(* The queue of chunks is as it was, ...                                   *)
SameStream(s, r) == /\ r.buffer = s.buffer /\ r.bufferProcessing = s.bufferProcessing
                    /\ r.corked = s.corked /\ r.writing = s.writing
                    /\ r.ending = s.ending /\ r.ended = s.ended
                    /\ r.finished => s.finished \/ s.ending
SameSeen(o, p)   == p.sent = o.sent /\ p.acc = o.acc /\ p.errored = o.errored
SameQueue(m, n)  == SameStream(m.state, n.state) /\ SameSeen(m.obs, n.obs)
Unmoved(m, n)    == Kept(m, n) /\ SameQueue(m, n) /\ n.stack = m.stack /\ n.state.sync = m.state.sync

(* ... and at most a listener or a callback was called.                    *)
Calls(m, n, places) == n.stack = m.stack \/ \E f : f.at \in places /\ n.stack = Append(m.stack, f)
Quietly(m, n) == /\ Kept(m, n) /\ SameQueue(m, n)
                 /\ \/ Calls(m, n, {"cb", "drain", "error"})
                    \/ m.state.ending /\ Calls(m, n, {"prefinish", "finish"})

LEMMA AppendAny ==
    ASSUME NEW q, IsSeq(q), NEW e
    PROVE  /\ IsSeq(Append(q, e)) /\ Len(Append(q, e)) = Len(q) + 1 /\ Len(q) \in Nat
           /\ Append(q, e)[Len(q) + 1] = e /\ \A i \in 1 .. Len(q) : Append(q, e)[i] = q[i]
<1>1. PICK S : q \in Seq(S)
    BY DEF IsSeq
<1>2. q \in Seq(S \cup {e})
    BY <1>1
<1>3. Append(q, e) \in Seq(S \cup {e})
    BY <1>2
<1> QED
    BY <1>2, <1>3 DEF IsSeq

LEMMA MachineShaped == ASSUME NEW m \in Machine PROVE Shaped(m)
<1>1. Has(m.state, StateNames)
    BY DEF Machine, WritableState, StateFields, Has, StateNames
<1>2. Has(m.obs, ObsNames)
    BY DEF Machine, Observations, Has, ObsNames
<1>3. Has(m, {"state", "stack", "ticks", "obs"}) /\ IsSeq(m.stack) /\ IsSeq(m.ticks)
    BY DEF Machine, Has, IsSeq
<1> QED
    BY <1>1, <1>2, <1>3 DEF Shaped

LEMMA WithParts ==
    ASSUME NEW m, Shaped(m), NEW s, NEW o, Has(s, StateNames), Has(o, ObsNames)
    PROVE  LET n == With(m, s, o)
           IN  Shaped(n) /\ n.state = s /\ n.obs = o /\ n.stack = m.stack /\ n.ticks = m.ticks
    BY DEF With, Shaped, Has

LEMMA PushQuiet ==
    ASSUME NEW m, Shaped(m), NEW f
    PROVE  LET n == Push(m, f)
           IN  /\ Kept(m, n) /\ SameQueue(m, n) /\ n.state = m.state /\ n.obs = m.obs /\ n.ticks = m.ticks
               /\ n.stack = Append(m.stack, f)
               /\ f.at \in {"cb", "drain", "error"} => Quietly(m, n)
               /\ f.at \in {"prefinish", "finish"} /\ m.state.ending => Quietly(m, n)
<1>1. IsSeq(Append(m.stack, f))
    BY AppendAny DEF Shaped
<1>2. LET n == Push(m, f)
      IN  Shaped(n) /\ n.state = m.state /\ n.obs = m.obs /\ n.ticks = m.ticks /\ n.stack = Append(m.stack, f)
    BY <1>1 DEF Push, Shaped, Has
<1> QED
    BY <1>2 DEF Quietly, Kept, SameQueue, SameStream, SameSeen, Calls, EndDue

LEMMA NextTickUnmoved ==
    ASSUME NEW m, Shaped(m), NEW t
    PROVE  LET n == NextTick(m, t)
           IN  /\ Unmoved(m, n) /\ n.state = m.state /\ n.obs = m.obs /\ Len(n.ticks) \in Nat
               /\ 1 <= Len(n.ticks) /\ n.ticks[Len(n.ticks)] = t
<1>1. /\ IsSeq(Append(m.ticks, t)) /\ Len(Append(m.ticks, t)) = Len(m.ticks) + 1 /\ Len(m.ticks) \in Nat
      /\ Append(m.ticks, t)[Len(m.ticks) + 1] = t
      /\ \A i \in 1 .. Len(m.ticks) : Append(m.ticks, t)[i] = m.ticks[i] /\ i \in 1 .. Len(m.ticks) + 1
    BY AppendAny DEF Shaped
<1>2. LET n == NextTick(m, t)
      IN  Shaped(n) /\ n.state = m.state /\ n.obs = m.obs /\ n.ticks = Append(m.ticks, t) /\ n.stack = m.stack
    BY <1>1 DEF NextTick, Shaped, Has
<1> QED
    BY <1>1, <1>2 DEF Unmoved, Kept, SameQueue, SameStream, SameSeen, EndDue

LEMMA QuietAfter ==
    ASSUME NEW m, NEW n, NEW r, Unmoved(m, n), Quietly(n, r)
    PROVE  Quietly(m, r)
    BY DEF Unmoved, Quietly, Kept, SameQueue, SameStream, SameSeen, Calls

(* Updates of fields that are not looked at here.                          *)
LEMMA WithUnmoved ==
    ASSUME NEW m, Shaped(m), NEW s, NEW o, Has(s, StateNames), Has(o, ObsNames),
           SameStream(m.state, s), s.finished = m.state.finished, s.sync = m.state.sync,
           SameSeen(m.obs, o), o.endcb = m.obs.endcb
    PROVE  Unmoved(m, With(m, s, o))
    BY WithParts DEF Unmoved, Kept, SameQueue, SameSeen, EndDue

LEMMA CallCbQuiet ==
    ASSUME NEW m, Shaped(m), NEW ids, NEW ok, NEW then
    PROVE  Quietly(m, CallCb(m, ids, ok, then))
<1> DEFINE s == [m.state EXCEPT !.pendingcb = @ - 1]
           o == [m.obs EXCEPT !.called = Append(@, [id |-> Head(ids), ok |-> ok])]
           f == [Frame("cb") EXCEPT !.cb = [v |-> FALSE, ids |-> ids], !.ok = ok, !.then = then]
<1>1. Has(s, StateNames) /\ SameStream(m.state, s) /\ s.finished = m.state.finished /\ s.sync = m.state.sync
    BY DEF Shaped, Has, StateNames, SameStream
<1>2. Has(o, ObsNames) /\ SameSeen(m.obs, o) /\ o.endcb = m.obs.endcb
    BY DEF Shaped, Has, ObsNames, SameSeen
<1>3. f.at = "cb"
    BY DEF Frame
<1>4. CallCb(m, ids, ok, then) = Push(With(m, s, o), f)
    BY DEF CallCb
<1> HIDE DEF s, o, f
<1>5. Unmoved(m, With(m, s, o))
    BY <1>1, <1>2, WithUnmoved
<1>6. Quietly(With(m, s, o), Push(With(m, s, o), f))
    BY <1>3, <1>5, PushQuiet DEF Unmoved, Kept
<1> QED
    BY <1>4, <1>5, <1>6, QuietAfter

LEMMA RunCbQuiet ==
    ASSUME NEW m, Shaped(m), NEW cb, NEW ok, NEW then
    PROVE  Quietly(m, RunCb(m, cb, ok, then))
<1> DEFINE s == [m.state EXCEPT !.pendingcb = @ - (IF cb.v THEN 1 ELSE 0)]
<1>1. Has(s, StateNames) /\ SameStream(m.state, s) /\ s.finished = m.state.finished /\ s.sync = m.state.sync
    BY DEF Shaped, Has, StateNames, SameStream
<1>2. RunCb(m, cb, ok, then) = CallCb(With(m, s, m.obs), cb.ids, ok, then)
    BY DEF RunCb, WithState
<1> HIDE DEF s
<1>3. Unmoved(m, With(m, s, m.obs))
    BY <1>1, WithUnmoved DEF Shaped, SameSeen
<1>4. Quietly(With(m, s, m.obs), CallCb(With(m, s, m.obs), cb.ids, ok, then))
    BY <1>3, CallCbQuiet DEF Unmoved, Kept
<1> QED
    BY <1>2, <1>3, <1>4, QuietAfter

LEMMA AfterWriteQuiet ==
    ASSUME NEW m, Shaped(m), NEW fin, NEW cb
    PROVE  Quietly(m, AfterWrite(m, fin, cb))
<1> DEFINE s == [m.state EXCEPT !.needDrain = FALSE]
           o == [m.obs EXCEPT !.owed = FALSE]
           f == [Frame("drain") EXCEPT !.cb = cb]
<1>1. Has(s, StateNames) /\ SameStream(m.state, s) /\ s.finished = m.state.finished /\ s.sync = m.state.sync
    BY DEF Shaped, Has, StateNames, SameStream
<1>2. Has(o, ObsNames) /\ SameSeen(m.obs, o) /\ o.endcb = m.obs.endcb
    BY DEF Shaped, Has, ObsNames, SameSeen
<1>3. f.at = "drain"
    BY DEF Frame
<1>4. AfterWrite(m, fin, cb) = IF DrainDue(m.state, fin) THEN Push(With(m, s, o), f)
                               ELSE RunCb(m, cb, TRUE, "finishMaybe")
    BY DEF AfterWrite
<1> HIDE DEF s, o, f
<1>5. Unmoved(m, With(m, s, o))
    BY <1>1, <1>2, WithUnmoved
<1>6. Quietly(With(m, s, o), Push(With(m, s, o), f))
    BY <1>3, <1>5, PushQuiet DEF Unmoved, Kept
<1> QED
    BY <1>4, <1>5, <1>6, QuietAfter, RunCbQuiet

LEMMA EmitFinishQuiet ==
    ASSUME NEW m, Shaped(m), m.state.ending
    PROVE  Quietly(m, EmitFinish(m)) /\ Calls(m, EmitFinish(m), {"prefinish", "finish"})
<1> DEFINE s == [m.state EXCEPT !.finished = TRUE]
           o == [m.obs EXCEPT !.finishes = @ + 1, !.endcb = FireOnce(@)]
           n == With(m, s, o)
<1>1. Has(s, StateNames) /\ SameStream(m.state, s) /\ s.ending
    BY DEF Shaped, Has, StateNames, SameStream
<1>2. Has(o, ObsNames) /\ SameSeen(m.obs, o) /\ o.endcb = FireOnce(m.obs.endcb)
    BY DEF Shaped, Has, ObsNames, SameSeen
<1>3. EmitFinish(m) = Push(n, Frame("finish")) /\ Frame("finish").at = "finish"
    BY DEF EmitFinish, Frame
<1>4. o.endcb # "once" /\ (o.endcb = "ticked" => m.obs.endcb = "ticked")
    BY <1>2 DEF FireOnce
<1> HIDE DEF s, o
<1>5. Shaped(n) /\ n.state = s /\ n.obs = o /\ n.stack = m.stack /\ n.ticks = m.ticks
    BY <1>1, <1>2, WithParts
<1> HIDE DEF n
<1>6. Quietly(n, Push(n, Frame("finish")))
    BY <1>1, <1>3, <1>5, PushQuiet
<1>7. Kept(m, n) /\ SameQueue(m, n)
    BY <1>1, <1>2, <1>4, <1>5 DEF Kept, SameQueue, SameSeen, EndDue
<1>8. Push(n, Frame("finish")).stack = Append(m.stack, Frame("finish"))
    BY <1>5, PushQuiet
<1>9. Kept(m, Push(n, Frame("finish"))) /\ SameQueue(m, Push(n, Frame("finish")))
    BY <1>6, <1>7 DEF Quietly, Kept, SameQueue, SameStream, SameSeen
<1> QED
    BY <1>3, <1>8, <1>9 DEF Quietly, Calls

LEMMA QuietSelf == ASSUME NEW m, Shaped(m) PROVE Unmoved(m, m) /\ Quietly(m, m)
    BY DEF Unmoved, Quietly, Kept, SameQueue, SameStream, SameSeen, Calls

LEMMA FinishMaybeQuiet ==
    ASSUME NEW m, Shaped(m)
    PROVE  LET n == FinishMaybe(m)
           IN  /\ Quietly(m, n)
               /\ \/ n.stack = m.stack
                  \/ m.state.ending /\ Calls(m, n, {"prefinish", "finish"})
<1> DEFINE s == [m.state EXCEPT !.prefinished = TRUE]
           n == With(m, s, m.obs)
           f == [Frame("prefinish") EXCEPT !.fin = CalledBack(m.state)]
<1>1. CASE ~NeedFinish(m.state) \/ (m.state.prefinished /\ ~CalledBack(m.state))
    BY <1>1, QuietSelf DEF FinishMaybe
<1>2. CASE NeedFinish(m.state) /\ m.state.prefinished /\ CalledBack(m.state)
  <2>1. FinishMaybe(m) = EmitFinish(m) /\ m.state.ending
      BY <1>2 DEF FinishMaybe, NeedFinish
  <2> QED
      BY <2>1, EmitFinishQuiet
<1>3. CASE NeedFinish(m.state) /\ ~m.state.prefinished
  <2>1. Has(s, StateNames) /\ SameStream(m.state, s) /\ s.finished = m.state.finished /\ s.sync = m.state.sync
      BY DEF Shaped, Has, StateNames, SameStream
  <2>2. FinishMaybe(m) = Push(n, f) /\ m.state.ending
      BY <1>3 DEF FinishMaybe, WithState, NeedFinish
  <2>3. f.at = "prefinish"
      BY DEF Frame
  <2> HIDE DEF s, f
  <2>4. Unmoved(m, n)
      BY <2>1, WithUnmoved DEF Shaped, SameSeen
  <2> HIDE DEF n
  <2>5. Shaped(n) /\ n.state.ending /\ n.stack = m.stack
      BY <2>2, <2>4 DEF Unmoved, Kept, SameQueue, SameStream
  <2>6. Quietly(n, Push(n, f)) /\ Push(n, f).stack = Append(m.stack, f)
      BY <2>3, <2>5, PushQuiet
  <2> QED
      BY <2>2, <2>3, <2>4, <2>6, QuietAfter DEF Calls
<1> QED
    BY <1>1, <1>2, <1>3

LEMMA RejectQuiet ==
    ASSUME NEW m, Shaped(m)
    PROVE  Quietly(m, Reject(m)) /\ Calls(m, Reject(m), {"error"})
<1> DEFINE o == [m.obs EXCEPT !.rejects = @ + 1]
           n == With(m, m.state, o)
           f == [Frame("error") EXCEPT !.then = "rejected"]
<1>1. Has(o, ObsNames) /\ SameSeen(m.obs, o) /\ o.endcb = m.obs.endcb
    BY DEF Shaped, Has, ObsNames, SameSeen
<1>2. f.at = "error" /\ Reject(m) = Push(n, f)
    BY DEF Frame, Reject, WithObs
<1> HIDE DEF o, f
<1>3. Unmoved(m, n)
    BY <1>1, WithUnmoved DEF Shaped, SameStream
<1> HIDE DEF n
<1>4. Quietly(n, Push(n, f)) /\ Push(n, f).stack = Append(m.stack, f)
    BY <1>2, <1>3, PushQuiet DEF Unmoved, Kept
<1> QED
    BY <1>2, <1>3, <1>4, QuietAfter DEF Calls

LEMMA NullUnmoved ==
    ASSUME NEW m, Shaped(m) PROVE Unmoved(m, NullWritten(m)) /\ Quietly(m, NullWritten(m))
<1> DEFINE s == [m.state EXCEPT !.pendingcb = @ + 1]
           o == [m.obs EXCEPT !.nulls = @ + 1]
<1>1. Has(s, StateNames) /\ SameStream(m.state, s) /\ s.finished = m.state.finished /\ s.sync = m.state.sync
    BY DEF Shaped, Has, StateNames, SameStream
<1>2. Has(o, ObsNames) /\ SameSeen(m.obs, o) /\ o.endcb = m.obs.endcb
    BY DEF Shaped, Has, ObsNames, SameSeen
<1>3. NullWritten(m) = With(m, s, o)
    BY DEF NullWritten
<1> HIDE DEF s, o
<1>4. Unmoved(m, NullWritten(m))
    BY <1>1, <1>2, <1>3, WithUnmoved
<1> QED
    BY <1>4 DEF Unmoved, Quietly, Calls

LEMMA OnwriteReturnQuiet ==
    ASSUME NEW m, Shaped(m), NEW sync, NEW fin, NEW cb
    PROVE  LET n == OnwriteReturn(m, sync, fin, cb)
           IN  Quietly(m, n) /\ (sync => Unmoved(m, n))
<1>1. \A t : Unmoved(m, NextTick(m, t)) /\ Quietly(m, NextTick(m, t))
    BY NextTickUnmoved DEF Unmoved, Quietly, Calls
<1> QED
    BY <1>1, AfterWriteQuiet DEF OnwriteReturn

-----------------------------------------------------------------------------
(* What the other functions keep.                                          *)

LEMMA KeptAfter == ASSUME NEW m, NEW n, NEW r, Kept(m, n), Kept(n, r) PROVE Kept(m, r)
    BY DEF Kept

LEMMA QuietKept == ASSUME NEW m, NEW n, Quietly(m, n) \/ Unmoved(m, n) PROVE Kept(m, n) /\ Shaped(n)
    BY DEF Quietly, Unmoved, Kept

(* Updates that concern neither end() nor errors.                          *)
LEMMA WithKept ==
    ASSUME NEW m, Shaped(m), NEW s, NEW o, Has(s, StateNames), Has(o, ObsNames),
           s.finished = m.state.finished, o.endcb = m.obs.endcb, m.obs.errored => o.errored
    PROVE  LET n == With(m, s, o) IN Kept(m, n) /\ n.state = s /\ n.obs = o /\ n.stack = m.stack
    BY WithParts DEF Kept, EndDue

LEMMA PopKept ==
    ASSUME NEW m, Shaped(m), m.stack # <<>>
    PROVE  LET n == Pop(m)
           IN  Kept(m, n) /\ SameQueue(m, n) /\ n.state = m.state /\ n.obs = m.obs /\ n.ticks = m.ticks
<1>1. IsSeq(SubSeq(m.stack, 1, Len(m.stack) - 1))
  <2>1. PICK S : m.stack \in Seq(S)
      BY DEF Shaped, IsSeq
  <2>2. SubSeq(m.stack, 1, Len(m.stack) - 1) \in Seq(S)
      BY <2>1
  <2> QED
      BY <2>2 DEF IsSeq
<1>2. LET n == Pop(m)
      IN  Shaped(n) /\ n.state = m.state /\ n.obs = m.obs /\ n.ticks = m.ticks
    BY <1>1 DEF Pop, Shaped, Has
<1> QED
    BY <1>2 DEF Kept, SameQueue, SameStream, SameSeen, EndDue

(* What doWrite() changes, and the frame of the call. *)
Calling(m, n, f) == n.stack = Append(m.stack, f)
Sends(m, n, chunks, f) ==
    /\ Kept(m, n) /\ n.obs.errored = m.obs.errored /\ n.obs.acc = m.obs.acc
    /\ n.state.buffer = m.state.buffer /\ n.state.bufferProcessing = m.state.bufferProcessing
    /\ n.state.ending = m.state.ending /\ n.state.ended = m.state.ended
    /\ n.state.finished = m.state.finished /\ n.state.sync = TRUE /\ n.state.corked = m.state.corked
    /\ n.obs.sent = m.obs.sent \o Ids(chunks)
    /\ Calling(m, n, f)

LEMMA DoWriteSends ==
    ASSUME NEW m, Shaped(m), NEW v, NEW len, NEW chunks, NEW cb, NEW c
    PROVE  LET n == DoWrite(m, v, len, chunks, cb, c)
           IN  \E f : f.at = (IF v THEN "_writev" ELSE "_write") /\ f.c = c /\ Sends(m, n, chunks, f)
<1> DEFINE s == [m.state EXCEPT !.writelen = len, !.writecb = cb, !.writing = TRUE, !.sync = TRUE]
           o == [m.obs EXCEPT !.sent = @ \o Ids(chunks), !.inflight = @ + 1]
           f == [Frame(IF v THEN "_writev" ELSE "_write") EXCEPT !.c = c, !.cb = cb]
           n == With(m, s, o)
<1>1. /\ Has(s, StateNames) /\ s.buffer = m.state.buffer /\ s.bufferProcessing = m.state.bufferProcessing
      /\ s.ending = m.state.ending /\ s.ended = m.state.ended /\ s.finished = m.state.finished /\ s.sync = TRUE
      /\ s.corked = m.state.corked
    BY DEF Shaped, Has, StateNames
<1>2. /\ Has(o, ObsNames) /\ o.sent = m.obs.sent \o Ids(chunks) /\ o.acc = m.obs.acc /\ o.errored = m.obs.errored
      /\ o.endcb = m.obs.endcb
    BY DEF Shaped, Has, ObsNames
<1>3. f.at = (IF v THEN "_writev" ELSE "_write") /\ f.c = c
    BY DEF Frame
<1>4. DoWrite(m, v, len, chunks, cb, c) = Push(n, f)
    BY DEF DoWrite
<1> HIDE DEF s, o, f
<1>5. Kept(m, n) /\ n.state = s /\ n.obs = o /\ n.stack = m.stack
    BY <1>1, <1>2, WithKept
<1> HIDE DEF n
<1>6. LET r == Push(n, f) IN Kept(n, r) /\ r.state = s /\ r.obs = o /\ r.stack = Append(m.stack, f)
    BY <1>5, PushQuiet DEF Kept
<1> QED
    BY <1>1, <1>2, <1>3, <1>4, <1>5, <1>6, KeptAfter DEF Sends, Calling

LEMMA DoWriteKept ==
    ASSUME NEW m, Shaped(m), NEW v, NEW len, NEW chunks, NEW cb, NEW c
    PROVE  Kept(m, DoWrite(m, v, len, chunks, cb, c))
    BY DoWriteSends DEF Sends

LEMMA ClearBufferKept ==
    ASSUME NEW m, Shaped(m) PROVE Kept(m, ClearBuffer(m))
<1> DEFINE s == [m.state EXCEPT !.bufferProcessing = TRUE,
                   !.pendingcb = @ + (IF HasWritev /\ Len(m.state.buffer) > 1 THEN 1 ELSE 0)]
           n == With(m, s, m.obs)
<1>1. Has(s, StateNames) /\ s.finished = m.state.finished
    BY DEF Shaped, Has, StateNames
<1>2. \E v, len, chunks, cb, c : ClearBuffer(m) = DoWrite(n, v, len, chunks, cb, c)
    BY DEF ClearBuffer, WithState, WriteNth
<1> HIDE DEF s
<1>3. Kept(m, n)
    BY <1>1, WithKept DEF Shaped
<1> HIDE DEF n
<1>4. PICK v, len, chunks, cb, c : ClearBuffer(m) = DoWrite(n, v, len, chunks, cb, c)
    BY <1>2
<1>5. Kept(n, DoWrite(n, v, len, chunks, cb, c))
    BY <1>3, DoWriteKept DEF Kept
<1> QED
    BY <1>3, <1>4, <1>5, KeptAfter

LEMMA WriteOrBufferKept ==
    ASSUME NEW m, Shaped(m), NEW len PROVE Kept(m, WriteOrBuffer(m, len))
<1> DEFINE full == m.state.length + len >= HighWaterMark
           s == [m.state EXCEPT !.pendingcb = @ + 1, !.length = @ + len, !.needDrain = full]
           o == [m.obs EXCEPT !.acc = m.obs.acc + 1, !.owed = @ \/ full]
           n == With(m, s, o)
           b == [s EXCEPT !.buffer = Append(@, [id |-> m.obs.acc + 1, len |-> len])]
<1>1. Has(s, StateNames) /\ s.finished = m.state.finished /\ Has(b, StateNames) /\ b.finished = m.state.finished
    BY DEF Shaped, Has, StateNames
<1>2. Has(o, ObsNames) /\ o.endcb = m.obs.endcb /\ o.errored = m.obs.errored
    BY DEF Shaped, Has, ObsNames
<1> HIDE DEF s, o, b
<1>3. Kept(m, n) /\ n.state = s /\ n.obs = o
    BY <1>1, <1>2, WithKept
<1>4. Kept(n, With(n, b, n.obs))
    BY <1>1, <1>2, <1>3, WithKept DEF Kept
<1>5. \/ WriteOrBuffer(m, len) = With(n, b, n.obs)
      \/ \E v, l, chunks, cb, c : WriteOrBuffer(m, len) = DoWrite(n, v, l, chunks, cb, c)
    BY <1>3 DEF WriteOrBuffer, WithState, s, o, b
<1> HIDE DEF n
<1>6. \A v, l, chunks, cb, c : Kept(n, DoWrite(n, v, l, chunks, cb, c))
    BY <1>3, DoWriteKept DEF Kept
<1> QED
    BY <1>3, <1>4, <1>5, <1>6, KeptAfter

LEMMA UncorkToKept ==
    ASSUME NEW m, Shaped(m), NEW k PROVE Kept(m, UncorkTo(m, k))
<1> DEFINE s == [m.state EXCEPT !.corked = k]
           n == With(m, s, m.obs)
<1>1. Has(s, StateNames) /\ s.finished = m.state.finished
    BY DEF Shaped, Has, StateNames
<1>2. UncorkTo(m, k) \in {n, ClearBuffer(n)}
    BY DEF UncorkTo, WithState
<1> HIDE DEF s
<1>3. Kept(m, n)
    BY <1>1, WithKept DEF Shaped
<1> HIDE DEF n
<1> QED
    BY <1>2, <1>3, ClearBufferKept, KeptAfter DEF Kept

LEMMA EmitFinishKept == ASSUME NEW m, Shaped(m) PROVE Kept(m, EmitFinish(m))
<1> DEFINE s == [m.state EXCEPT !.finished = TRUE]
           o == [m.obs EXCEPT !.finishes = @ + 1, !.endcb = FireOnce(@)]
           n == With(m, s, o)
<1>1. Has(s, StateNames) /\ Has(o, ObsNames) /\ o.errored = m.obs.errored /\ o.endcb = FireOnce(m.obs.endcb)
    BY DEF Shaped, Has, StateNames, ObsNames
<1>2. EmitFinish(m) = Push(n, Frame("finish"))
    BY DEF EmitFinish
<1>3. o.endcb # "once" /\ (o.endcb = "ticked" => m.obs.endcb = "ticked")
    BY <1>1 DEF FireOnce
<1> HIDE DEF s, o
<1>4. Shaped(n) /\ n.obs = o /\ n.ticks = m.ticks
    BY <1>1, WithParts
<1> HIDE DEF n
<1>5. Kept(m, n)
    BY <1>1, <1>3, <1>4 DEF Kept, EndDue
<1> QED
    BY <1>2, <1>4, <1>5, PushQuiet, KeptAfter

LEMMA EndWritableKept ==
    ASSUME NEW m, Shaped(m), NEW hasCb PROVE Kept(m, EndWritable(m, hasCb))
<1> DEFINE s == [m.state EXCEPT !.ending = TRUE]
           n == With(m, s, m.obs)
           f == [Frame("endWritable") EXCEPT !.hasCb = hasCb]
<1>1. Has(s, StateNames) /\ s.finished = m.state.finished
    BY DEF Shaped, Has, StateNames
<1>2. EndWritable(m, hasCb) \in {m, FinishMaybe(Push(n, f))}
    BY DEF EndWritable, WithState
<1> HIDE DEF s, f
<1>3. Kept(m, n)
    BY <1>1, WithKept DEF Shaped
<1> HIDE DEF n
<1>4. Kept(n, Push(n, f))
    BY <1>3, PushQuiet DEF Kept
<1>5. Kept(Push(n, f), FinishMaybe(Push(n, f)))
    BY <1>4, FinishMaybeQuiet, QuietKept DEF Kept
<1>6. Kept(m, m)
    BY DEF Kept
<1> QED
    BY <1>2, <1>3, <1>4, <1>5, <1>6, KeptAfter

LEMMA EndUncorkKept ==
    ASSUME NEW m, Shaped(m), NEW hasCb PROVE Kept(m, EndUncork(m, hasCb))
<1> DEFINE f == [Frame("endUncork") EXCEPT !.hasCb = hasCb]
<1>1. EndUncork(m, hasCb) \in {UncorkTo(Push(m, f), 0), EndWritable(m, hasCb)}
    BY DEF EndUncork
<1> HIDE DEF f
<1>2. Kept(m, Push(m, f))
    BY PushQuiet
<1>3. Kept(Push(m, f), UncorkTo(Push(m, f), 0))
    BY <1>2, UncorkToKept DEF Kept
<1> QED
    BY <1>1, <1>2, <1>3, EndWritableKept, KeptAfter

LEMMA EndChunkKept ==
    ASSUME NEW m, Shaped(m), NEW len, NEW hasCb PROVE Kept(m, EndChunk(m, len, hasCb))
<1> DEFINE n == Push(m, [Frame("end") EXCEPT !.hasCb = hasCb])
<1>1. EndChunk(m, len, hasCb) \in {Reject(n), WriteOrBuffer(n, len)}
    BY DEF EndChunk
<1>2. Kept(m, n)
    BY PushQuiet
<1> HIDE DEF n
<1>3. Kept(n, Reject(n)) /\ Kept(n, WriteOrBuffer(n, len))
    BY <1>2, RejectQuiet, QuietKept, WriteOrBufferKept DEF Kept
<1> QED
    BY <1>1, <1>2, <1>3, KeptAfter

(* The callback of end() starts to wait, for 'finish' or for its tick.     *)
LEMMA EndReturnKept ==
    ASSUME NEW m, Shaped(m), NEW hasCb, m.state.finished \in BOOLEAN, hasCb \in BOOLEAN
    PROVE  Kept(m, EndReturn(m, hasCb))
<1> DEFINE next == IF ~hasCb THEN m.obs.endcb ELSE IF m.state.finished THEN "ticked" ELSE "once"
           s == [m.state EXCEPT !.ended = TRUE]
           o == [m.obs EXCEPT !.endcb = next]
           n == With(m, s, o)
<1>1. /\ Has(s, StateNames) /\ s.finished = m.state.finished
      /\ Has(o, ObsNames) /\ o.errored = m.obs.errored /\ o.endcb = next
    BY DEF Shaped, Has, StateNames, ObsNames
<1>2. EndReturn(m, hasCb) = IF hasCb /\ m.state.finished THEN NextTick(n, Tick("endcb")) ELSE n
    BY DEF EndReturn
<1> HIDE DEF s, o
<1>3. Shaped(n) /\ n.obs = o /\ n.state = s /\ n.ticks = m.ticks
    BY <1>1, WithParts
<1> HIDE DEF n
<1>4. CASE hasCb /\ m.state.finished
  <2>1. LET r == NextTick(n, Tick("endcb"))
        IN  /\ Unmoved(n, r) /\ r.state = s /\ r.obs = o /\ Len(r.ticks) \in Nat
            /\ 1 <= Len(r.ticks) /\ r.ticks[Len(r.ticks)] = Tick("endcb")
      BY <1>3, NextTickUnmoved
  <2>2. Tick("endcb").run = "endcb"
      BY DEF Tick
  <2>3. o.endcb = "ticked"
      BY <1>1, <1>4
  <2> QED
      BY <1>1, <1>2, <1>4, <2>1, <2>2, <2>3 DEF Kept, Unmoved, EndDue
<1>5. CASE hasCb /\ ~m.state.finished
  <2>1. o.endcb = "once"
      BY <1>1, <1>5
  <2> QED
      BY <1>1, <1>2, <1>3, <1>5, <2>1 DEF Kept, EndDue
<1>6. CASE ~hasCb
    BY <1>1, <1>2, <1>3, <1>6 DEF Kept, EndDue
<1> QED
    BY <1>4, <1>5, <1>6

LEMMA OnwriteStateUpdateKept ==
    ASSUME NEW m, Shaped(m)
    PROVE  LET n == OnwriteStateUpdate(m)
           IN  /\ Kept(m, n) /\ SameSeen(m.obs, n.obs) /\ n.stack = m.stack /\ n.state.sync = m.state.sync
               /\ n.state.buffer = m.state.buffer /\ n.state.bufferProcessing = m.state.bufferProcessing
               /\ n.state.corked = m.state.corked /\ n.state.writing = FALSE
               /\ n.state.ending = m.state.ending /\ n.state.ended = m.state.ended
               /\ n.state.finished = m.state.finished
<1> DEFINE s == [m.state EXCEPT !.writing = FALSE, !.writecb = NoCb, !.length = @ - m.state.writelen, !.writelen = 0]
           o == [m.obs EXCEPT !.inflight = @ - 1]
<1>1. /\ Has(s, StateNames) /\ s.buffer = m.state.buffer /\ s.bufferProcessing = m.state.bufferProcessing
      /\ s.corked = m.state.corked /\ s.ending = m.state.ending /\ s.ended = m.state.ended
      /\ s.finished = m.state.finished /\ s.sync = m.state.sync /\ s.writing = FALSE
    BY DEF Shaped, Has, StateNames
<1>2. Has(o, ObsNames) /\ SameSeen(m.obs, o) /\ o.endcb = m.obs.endcb
    BY DEF Shaped, Has, ObsNames, SameSeen
<1>3. OnwriteStateUpdate(m) = With(m, s, o)
    BY DEF OnwriteStateUpdate
<1> HIDE DEF s, o
<1>4. LET n == With(m, s, o) IN Kept(m, n) /\ n.state = s /\ n.obs = o /\ n.stack = m.stack
    BY <1>1, <1>2, WithKept DEF SameSeen
<1> QED
    BY <1>1, <1>2, <1>3, <1>4

LEMMA OnwriteErrorKept ==
    ASSUME NEW m, Shaped(m), NEW sync, NEW cb
    PROVE  LET n == OnwriteError(m, sync, cb) IN Kept(m, n) /\ n.obs.errored
<1> DEFINE o == [m.obs EXCEPT !.errored = TRUE]
           n == With(m, m.state, o)
           t == [Tick("error") EXCEPT !.cb = cb]
           r == NextTick(n, t)
<1>1. Has(o, ObsNames) /\ o.endcb = m.obs.endcb /\ o.errored
    BY DEF Shaped, Has, ObsNames
<1>2. OnwriteError(m, sync, cb) \in {Push(r, Frame("error")), RunCb(n, cb, FALSE, "error")}
    BY DEF OnwriteError, WithObs
<1> HIDE DEF o, t
<1>3. Kept(m, n) /\ n.obs.errored
    BY <1>1, WithKept DEF Shaped
<1> HIDE DEF n
<1>4. Kept(n, r) /\ Shaped(r)
    BY <1>3, NextTickUnmoved DEF Unmoved, Kept
<1> HIDE DEF r
<1>5. Kept(n, Push(r, Frame("error")))
    BY <1>4, PushQuiet, KeptAfter
<1>6. Kept(n, RunCb(n, cb, FALSE, "error"))
    BY <1>3, RunCbQuiet, QuietKept DEF Kept
<1>7. Kept(n, OnwriteError(m, sync, cb))
    BY <1>2, <1>5, <1>6
<1> QED
    BY <1>3, <1>7, KeptAfter DEF Kept

LEMMA OnwriteOkKept ==
    ASSUME NEW m, Shaped(m), NEW sync, NEW cb PROVE Kept(m, OnwriteOk(m, sync, cb))
<1> DEFINE fin == NeedFinish(m.state)
           n == Push(m, [Frame("onwrite") EXCEPT !.cb = cb, !.fin = fin, !.sync = sync])
<1>1. OnwriteOk(m, sync, cb) \in {ClearBuffer(n), OnwriteReturn(m, sync, fin, cb)}
    BY DEF OnwriteOk
<1>2. Kept(m, n)
    BY PushQuiet
<1> HIDE DEF n, fin
<1>3. Kept(n, ClearBuffer(n))
    BY <1>2, ClearBufferKept DEF Kept
<1>4. Kept(m, OnwriteReturn(m, sync, fin, cb))
    BY OnwriteReturnQuiet, QuietKept
<1> QED
    BY <1>1, <1>2, <1>3, <1>4, KeptAfter

LEMMA OnwriteKept ==
    ASSUME NEW m, Shaped(m), NEW ok
    PROVE  LET n == Onwrite(m, ok) IN Kept(m, n) /\ (ok = FALSE => n.obs.errored)
<1> DEFINE n == OnwriteStateUpdate(m)
<1>1. Onwrite(m, ok) = IF ok THEN OnwriteOk(n, m.state.sync, m.state.writecb)
                       ELSE OnwriteError(n, m.state.sync, m.state.writecb)
    BY DEF Onwrite
<1>2. Kept(m, n)
    BY OnwriteStateUpdateKept
<1> HIDE DEF n
<1> QED
    BY <1>1, <1>2, OnwriteOkKept, OnwriteErrorKept, KeptAfter DEF Kept

LEMMA WriteReturnsKept ==
    ASSUME NEW m, Shaped(m), m.stack # <<>> PROVE Kept(m, WriteReturns(m))
<1> DEFINE p == Pop(m)
           s == [m.state EXCEPT !.sync = FALSE]
           n == With(p, s, p.obs)
           b == [s EXCEPT !.buffer = NotWritten(@, Top(m).c), !.bufferProcessing = FALSE]
<1>1. Has(s, StateNames) /\ s.finished = m.state.finished /\ Has(b, StateNames) /\ b.finished = m.state.finished
    BY DEF Shaped, Has, StateNames
<1>2. Kept(m, p) /\ p.state = m.state /\ p.obs = m.obs /\ Shaped(p) /\ Has(p.obs, ObsNames)
    BY PopKept DEF Kept, Shaped
<1> HIDE DEF p, s, b
<1>3. Kept(p, n) /\ n.state = s /\ n.obs = p.obs
    BY <1>1, <1>2, WithKept
<1>4. WriteReturns(m) \in {n, WriteNth(n, Top(m).c + 1), With(n, b, n.obs)}
    BY <1>3 DEF WriteReturns, WithState, p, s, b
<1> HIDE DEF n
<1>5. Kept(n, With(n, b, n.obs))
    BY <1>1, <1>2, <1>3, WithKept DEF Kept
<1>6. Kept(n, WriteNth(n, Top(m).c + 1))
    BY <1>3, DoWriteKept DEF WriteNth, Kept
<1> QED
    BY <1>2, <1>3, <1>4, <1>5, <1>6, KeptAfter

LEMMA WritevReturnsKept ==
    ASSUME NEW m, Shaped(m), m.stack # <<>> PROVE Kept(m, WritevReturns(m))
<1> DEFINE s == [m.state EXCEPT !.sync = FALSE, !.buffer = <<>>, !.bufferProcessing = FALSE]
           p == Pop(m)
<1>1. Has(s, StateNames) /\ s.finished = m.state.finished
    BY DEF Shaped, Has, StateNames
<1>2. Kept(m, p) /\ p.state = m.state /\ p.obs = m.obs /\ Shaped(p) /\ Has(p.obs, ObsNames)
    BY PopKept DEF Kept, Shaped
<1>3. WritevReturns(m) = With(p, s, p.obs)
    BY DEF WritevReturns, WithState
<1> HIDE DEF p, s
<1>4. Kept(p, With(p, s, p.obs))
    BY <1>1, <1>2, WithKept
<1> QED
    BY <1>2, <1>3, <1>4, KeptAfter

LEMMA CbReturnsKept ==
    ASSUME NEW m, Shaped(m), m.stack # <<>> PROVE Kept(m, CbReturns(m))
<1> DEFINE p == Pop(m)
           ids == Tail(Top(m).cb.ids)
           ok == Top(m).ok
           then == Top(m).then
<1>1. Kept(m, p) /\ Shaped(p)
    BY PopKept DEF Kept
<1>2. CbReturns(m) \in {CallCb(p, ids, ok, then), FinishMaybe(p), Push(p, Frame("error")), p}
    BY DEF CbReturns
<1> HIDE DEF p, ids, ok, then
<1>3. /\ Kept(p, CallCb(p, ids, ok, then)) /\ Kept(p, FinishMaybe(p))
      /\ Kept(p, Push(p, Frame("error"))) /\ Kept(p, p)
    BY <1>1, CallCbQuiet, FinishMaybeQuiet, PushQuiet, QuietKept DEF Kept
<1> QED
    BY <1>1, <1>2, <1>3, KeptAfter

LEMMA UserReturnsKept ==
    ASSUME NEW m, Shaped(m), m.stack # <<>> PROVE Kept(m, UserReturns(m))
<1> DEFINE p == Pop(m)
           t == NextTick(p, Tick("rejected"))
           d == RunCb(p, Top(m).cb, TRUE, "finishMaybe")
<1>1. Kept(m, p) /\ Shaped(p)
    BY PopKept DEF Kept
<1>2. UserReturns(m) \in {WriteReturns(m), WritevReturns(m), CbReturns(m), d, t, p, EmitFinish(p)}
    BY DEF UserReturns, ErrorReturns
<1> HIDE DEF p
<1>3. Kept(p, t) /\ Kept(p, d) /\ Kept(p, EmitFinish(p))
    BY <1>1, NextTickUnmoved, RunCbQuiet, QuietKept, EmitFinishKept
<1> HIDE DEF t, d
<1>4. Kept(m, WriteReturns(m)) /\ Kept(m, WritevReturns(m)) /\ Kept(m, CbReturns(m))
    BY WriteReturnsKept, WritevReturnsKept, CbReturnsKept
<1> QED
    BY <1>1, <1>2, <1>3, <1>4, KeptAfter

LEMMA LibResumesKept ==
    ASSUME NEW m \in Machine, m.stack # <<>>, Top(m).at \in LibAt PROVE Kept(m, LibResumes(m))
<1> DEFINE p == Pop(m)
           f == Top(m)
<1>1. Kept(m, p) /\ Shaped(p) /\ p.state = m.state
    BY MachineShaped, PopKept DEF Kept
<1>2. m.state.finished \in BOOLEAN
    BY DEF Machine, WritableState, StateFields
<1>3. f \in Frames
  <2>1. m.stack \in Seq(Frames) /\ Len(m.stack) \in Nat \ {0}
      BY LenProperties, EmptySeq DEF Machine
  <2> QED
      BY <2>1, ElementOfSeq DEF Top
<1>4. f.hasCb \in BOOLEAN
    BY <1>3 DEF Frames, FrameFields
<1>5. LibResumes(m) \in {OnwriteReturn(p, f.sync, f.fin, f.cb), EndUncork(p, f.hasCb),
                         EndWritable(p, f.hasCb), EndReturn(p, f.hasCb)}
    BY DEF LibResumes, LibAt
<1> HIDE DEF p, f
<1>6. /\ Kept(p, OnwriteReturn(p, f.sync, f.fin, f.cb)) /\ Kept(p, EndUncork(p, f.hasCb))
      /\ Kept(p, EndWritable(p, f.hasCb)) /\ Kept(p, EndReturn(p, f.hasCb))
    BY <1>1, <1>2, <1>4, OnwriteReturnQuiet, QuietKept, EndUncorkKept, EndWritableKept, EndReturnKept
<1> QED
    BY <1>1, <1>5, <1>6, KeptAfter

(* Only the tick that calls back for end() may be taken while it waits.    *)
LEMMA RunTickKept ==
    ASSUME NEW m \in Machine, m.ticks # <<>> PROVE Kept(m, RunTick(m))
<1> DEFINE t == Head(m.ticks)
           p == [m EXCEPT !.ticks = Tail(@)]
<1>1. Shaped(m)
    BY MachineShaped
<1>2. /\ m.ticks \in Seq(Ticks) /\ t \in Ticks /\ t = m.ticks[1] /\ Len(m.ticks) \in Nat
      /\ Tail(m.ticks) \in Seq(Ticks) /\ Len(Tail(m.ticks)) = Len(m.ticks) - 1
      /\ \A i \in 1 .. Len(m.ticks) - 1 : Tail(m.ticks)[i] = m.ticks[i + 1]
    BY HeadTailProperties, LenProperties DEF Machine
<1>3. t.run \in {"afterWrite", "error", "rejected", "endcb"}
    BY <1>2 DEF Ticks, TickFields
<1>4. Shaped(p) /\ p.state = m.state /\ p.obs = m.obs /\ p.ticks = Tail(m.ticks)
    BY <1>1, <1>2 DEF Shaped, Has, IsSeq
<1>5. CASE t.run = "endcb"
  <2> DEFINE o == [m.obs EXCEPT !.endcb = "called"]
             n == With(p, p.state, o)
  <2>1. Has(o, ObsNames) /\ o.endcb = "called" /\ o.errored = m.obs.errored /\ Has(p.state, StateNames)
      BY <1>1, <1>4 DEF Shaped, Has, ObsNames
  <2>2. RunTick(m) = Push(n, Frame("cb"))
      BY <1>3, <1>4, <1>5 DEF RunTick, WithObs
  <2> HIDE DEF o, p
  <2>3. Shaped(n) /\ n.obs = o
      BY <1>4, <2>1, WithParts
  <2> HIDE DEF n
  <2>4. Kept(m, n)
      BY <2>1, <2>3 DEF Kept, EndDue
  <2> QED
      BY <2>2, <2>3, <2>4, PushQuiet, KeptAfter
<1>6. CASE t.run # "endcb"
  <2>1. ASSUME NEW i \in 1 .. Len(m.ticks), m.ticks[i].run = "endcb"
        PROVE  i - 1 \in 1 .. Len(p.ticks) /\ p.ticks[i - 1].run = "endcb"
    <3>1. i # 1
        BY <1>2, <1>6, <2>1
    <3>2. i - 1 \in 1 .. Len(m.ticks) - 1 /\ (i - 1) + 1 = i
        BY <1>2, <3>1
    <3> QED
        BY <1>2, <1>4, <2>1, <3>2
  <2>2. Kept(m, p)
      BY <1>4, <2>1 DEF Kept, EndDue
  <2>3. RunTick(m) \in {AfterWrite(p, t.fin, t.cb), RunCb(p, t.cb, FALSE, "return"), Push(p, Frame("cb"))}
      BY <1>3, <1>6 DEF RunTick
  <2> HIDE DEF p, t
  <2>4. /\ Kept(p, AfterWrite(p, t.fin, t.cb)) /\ Kept(p, RunCb(p, t.cb, FALSE, "return"))
        /\ Kept(p, Push(p, Frame("cb")))
      BY <1>4, AfterWriteQuiet, RunCbQuiet, PushQuiet, QuietKept
  <2>5. Kept(p, RunTick(m))
      BY <2>3, <2>4
  <2> QED
      BY <2>2, <2>5, KeptAfter
<1> QED
    BY <1>5, <1>6

(* What a step leads to is what the function it calls returns. *)
LEMMA BecomeShaped ==
    ASSUME NEW m, Shaped(m), Become(m) PROVE Now' = m
<1>1. m = [x \in {"state", "stack", "ticks", "obs"} |-> m[x]]
    BY DEF Shaped, Has
<1>2. Now' = [state |-> m.state, stack |-> m.stack, ticks |-> m.ticks, obs |-> m.obs]
    BY DEF Become, Now
<1> QED
    BY <1>1, <1>2

LEMMA BecomeKept == ASSUME NEW m, Become(m), Kept(Now, m) PROVE Kept(Now, Now')
    BY BecomeShaped DEF Kept

LEMMA StepKept ==
    ASSUME Inv(Now), [Next]_vars PROVE Kept(Now, Now')
<1>1. /\ Now \in Machine /\ Shaped(Now) /\ Now.state = state /\ Now.obs = obs
      /\ Now.stack = stack /\ Now.ticks = ticks
    BY MachineShaped DEF Inv, Good, Now
<1>2. ASSUME NEW len PROVE Kept(Now, WriteOrBuffer(Now, len))
    BY <1>1, WriteOrBufferKept
<1>3. CASE Write
    BY <1>2, <1>3, BecomeKept DEF Write
<1>4. CASE RejectedWrite
    BY <1>1, <1>4, RejectQuiet, QuietKept, BecomeKept DEF RejectedWrite
<1>n. CASE WriteNull
  <2>1. Become(NullWritten(Now))
      BY <1>n DEF WriteNull, NullWritten, Now
  <2> QED
      BY <1>1, <2>1, NullUnmoved, QuietKept, BecomeKept
<1>5. CASE Cork
  <2> DEFINE s == [state EXCEPT !.corked = @ + 1]
  <2>1. Has(s, StateNames) /\ s.finished = state.finished
      BY <1>1 DEF Shaped, Has, StateNames
  <2>2. Become(WithState(Now, s))
      BY <1>5 DEF Cork
  <2> HIDE DEF s
  <2>3. Kept(Now, WithState(Now, s))
      BY <1>1, <2>1, WithKept DEF WithState, Shaped
  <2> QED
      BY <2>2, <2>3, BecomeKept
<1>6. CASE Uncork
    BY <1>1, <1>6, UncorkToKept, BecomeKept DEF Uncork
<1>7. CASE End
    BY <1>1, <1>7, EndUncorkKept, BecomeKept DEF End
<1>8. CASE EndWithChunk
    BY <1>1, <1>8, EndChunkKept, BecomeKept DEF EndWithChunk
<1>9. CASE WriteDone
    BY <1>1, <1>9, OnwriteKept, BecomeKept DEF WriteDone
<1>10. CASE Return
    BY <1>1, <1>10, UserReturnsKept, BecomeKept DEF Return, Running
<1>11. CASE Resume
    BY <1>1, <1>11, LibResumesKept, BecomeKept DEF Resume, Running
<1>12. CASE ProcessTick
    BY <1>1, <1>12, RunTickKept, BecomeKept DEF ProcessTick
<1>13. CASE NewEvent
    BY <1>1, <1>13, PushQuiet, BecomeKept DEF NewEvent
<1>14. CASE UNCHANGED vars
  <2>1. Now' = Now
      BY <1>14 DEF vars, Now
  <2> QED
      BY <1>1, <2>1 DEF Kept
<1> QED
    BY <1>3, <1>4, <1>n, <1>5, <1>6, <1>7, <1>8, <1>9, <1>10, <1>11, <1>12, <1>13, <1>14 DEF Next

(* The callback given to end() waits for 'finish' or for its tick, and is  *)
(* never passed by: whatever listeners, callbacks and _write() do.         *)
THEOREM EndCallbackKept == Spec => []EndCallbackNotLost
<1>1. Init => EndDue(Now)
    BY DEF Init, EndDue, Now
<1>2. WritableInv /\ EndDue(Now) /\ [Next]_vars => EndDue(Now)'
  <2>1. ASSUME WritableInv, EndDue(Now), [Next]_vars PROVE EndDue(Now')
      BY <2>1, StepKept DEF WritableInv, Kept
  <2>2. EndDue(Now)' <=> EndDue(Now')
      BY DEF EndDue
  <2> QED
      BY <2>1, <2>2
<1>3. WritableInv /\ EndDue(Now) => EndCallbackNotLost
  <2> SUFFICES ASSUME WritableInv, EndDue(Now), Idle, state.finished
               PROVE  obs.endcb \in {"none", "called"}
      BY DEF EndCallbackNotLost
  <2>1. obs.endcb \in {"none", "once", "ticked", "called"}
      BY DEF WritableInv, Inv, Good, Machine, Observations, Now
  <2>2. obs.endcb # "once"
      BY DEF EndDue, Now
  <2>3. Len(ticks) = 0
      BY DEF Idle
  <2>4. obs.endcb # "ticked"
      BY <2>3 DEF EndDue, Now
  <2> QED
      BY <2>1, <2>2, <2>4
<1> QED
    BY <1>1, <1>2, <1>3, InvAlways, PTL DEF Spec
-----------------------------------------------------------------------------
(* The order of the chunks.  Without errors, and when only the frames that *)
(* Calm names call the stream, every chunk that was accepted was sent or   *)
(* waits in the buffer, in the order of the calls.                         *)

Calm == ApiFrames \subseteq {"event", "cb", "drain", "error"}

InWrite(f) == f.at \in {"_write", "_writev"}
NoWrite(m) == \A i \in 1 .. Len(m.stack) : ~InWrite(m.stack[i])
Typed(m)   == /\ Shaped(m) /\ m.state.buffer \in Seq(Chunk) /\ m.obs.sent \in Seq(Nat)
              /\ m.obs.acc \in Nat /\ m.state.corked \in Nat

(* All of the buffer but its first d chunks, which were sent already.      *)
Rest(m, d) == /\ d \in 0 .. Len(m.state.buffer)
              /\ Len(m.obs.sent) + Len(m.state.buffer) - d = m.obs.acc
              /\ \A k \in 1 .. Len(m.obs.sent) : m.obs.sent[k] = k
              /\ \A k \in d + 1 .. Len(m.state.buffer) : m.state.buffer[k].id = Len(m.obs.sent) + k - d

(* What finished or ended was told to end, and endWritable() is soon back. *)
Ended(m)  == /\ m.state.finished \/ m.state.ended => m.state.ending
             /\ \A i \in 1 .. Len(m.stack) : m.stack[i].at \in {"prefinish", "endWritable"} => m.state.ending
Closed(m) == m.state.ending => m.state.ended
OpenEnd(m) == ~Closed(m) =>
    /\ m.stack # <<>>
    /\ \/ Top(m).at = "endWritable"
       \/ /\ Top(m).at \in {"prefinish", "finish"} /\ Len(m.stack) > 1
          /\ m.stack[Len(m.stack) - 1].at = "endWritable"

(* Outside of _write() nothing waits that could be sent; inside, the frame *)
(* tells how much of the buffer was sent.                                  *)
Waits(m) == NoWrite(m) /\ ~m.state.bufferProcessing /\ Rest(m, 0)
Out(m)   == /\ Waits(m)
            /\ m.state.buffer # <<>> => m.state.writing \/ m.state.corked > 0 \/ m.state.ending

Taken(m) == IF Top(m).at = "_writev" THEN Len(m.state.buffer) ELSE Top(m).c
In(m)    == /\ m.stack # <<>> /\ InWrite(Top(m)) /\ m.state.sync /\ Top(m).c \in Nat
            /\ \A i \in 1 .. Len(m.stack) : InWrite(m.stack[i]) => i = Len(m.stack)
            /\ m.state.bufferProcessing <=> Top(m).at = "_writev" \/ Top(m).c # 0
            /\ Top(m).at = "_write" /\ Top(m).c = 0 => m.state.buffer = <<>>
            /\ Rest(m, Taken(m))

Sound(m)   == Typed(m) /\ Ended(m)
Settled(m) == Sound(m) /\ OpenEnd(m) /\ (Out(m) \/ In(m))
Ordered(m) == ~m.obs.errored => Settled(m)

(* A machine that other code may be given.                                 *)
Ready(m) == Sound(m) /\ Closed(m) /\ (Out(m) \/ In(m))

LEMMA ReadySettled == ASSUME NEW m, Ready(m) PROVE Settled(m)
    BY DEF Ready, Settled, OpenEnd

LEMMA RestAll ==
    ASSUME NEW m, m.state.buffer \in Seq(Chunk), m.obs.sent \in Seq(Nat)
    PROVE  Rest(m, 0) <=>
             /\ Len(m.obs.sent) + Len(m.state.buffer) = m.obs.acc
             /\ \A k \in 1 .. Len(m.obs.sent) : m.obs.sent[k] = k
             /\ \A k \in 1 .. Len(m.state.buffer) : m.state.buffer[k].id = Len(m.obs.sent) + k
<1> DEFINE l == Len(m.obs.sent)
           b == Len(m.state.buffer)
<1>1. l \in Nat /\ b \in Nat
    OBVIOUS
<1> HIDE DEF l, b
<1>2. /\ l + b - 0 = l + b /\ 0 \in 0 .. b /\ 0 + 1 .. b = 1 .. b
      /\ \A k \in 1 .. b : l + k - 0 = l + k
    BY <1>1
<1> QED
    BY <1>2 DEF Rest, l, b

LEMMA AppendFrame ==
    ASSUME NEW m, Shaped(m), NEW n, NEW f, Calling(m, n, f)
    PROVE  /\ Len(m.stack) \in Nat /\ Len(n.stack) = Len(m.stack) + 1 /\ n.stack # <<>>
           /\ Top(n) = f /\ n.stack[Len(n.stack)] = f
           /\ \A i \in 1 .. Len(n.stack) : i = Len(n.stack) \/ (i \in 1 .. Len(m.stack) /\ n.stack[i] = m.stack[i])
<1>1. /\ Len(n.stack) = Len(m.stack) + 1 /\ Len(m.stack) \in Nat
      /\ n.stack[Len(m.stack) + 1] = f /\ \A i \in 1 .. Len(m.stack) : n.stack[i] = m.stack[i]
    BY AppendAny DEF Shaped, Calling
<1>2. \A i \in 1 .. Len(n.stack) : i = Len(n.stack) \/ i \in 1 .. Len(m.stack)
    BY <1>1
<1>3. ASSUME n.stack = <<>> PROVE FALSE
  <2>1. Len(n.stack) = 0
      BY <1>3, EmptySeq, Zenon
  <2> DEFINE l == Len(n.stack)
             k == Len(m.stack)
  <2>2. l = k + 1 /\ k \in Nat /\ l = 0
      BY <1>1, <2>1
  <2> HIDE DEF l, k
  <2> QED
      BY <2>2
<1> QED
    BY <1>1, <1>2, <1>3 DEF Top

LEMMA PopFrames ==
    ASSUME NEW m, Shaped(m), m.stack # <<>>
    PROVE  /\ Len(m.stack) \in Nat \ {0} /\ Len(Pop(m).stack) = Len(m.stack) - 1
           /\ \A i \in 1 .. Len(m.stack) - 1 : Pop(m).stack[i] = m.stack[i]
<1>1. PICK S : m.stack \in Seq(S)
    BY DEF Shaped, IsSeq
<1>2. Len(m.stack) \in Nat \ {0}
    BY <1>1, LenProperties, EmptySeq
<1>3. /\ Len(SubSeq(m.stack, 1, Len(m.stack) - 1)) = Len(m.stack) - 1
      /\ \A i \in 1 .. Len(m.stack) - 1 : SubSeq(m.stack, 1, Len(m.stack) - 1)[i] = m.stack[i]
    BY <1>1, <1>2
<1>4. Pop(m).stack = SubSeq(m.stack, 1, Len(m.stack) - 1)
    BY DEF Pop, Shaped, Has
<1> QED
    BY <1>2, <1>3, <1>4

(* The predicates look at a few fields only.                               *)
LEMMA SameOrder ==
    ASSUME NEW m, NEW n, Typed(m), Shaped(n), SameQueue(m, n)
    PROVE  /\ Typed(n) /\ \A d : Rest(n, d) <=> Rest(m, d)
           /\ Closed(n) <=> Closed(m)
    BY DEF Typed, Rest, SameQueue, SameStream, SameSeen, Closed

LEMMA QuietOut ==
    ASSUME NEW m, NEW n, Sound(m), Out(m), Quietly(m, n)
    PROVE  Sound(n) /\ Out(n) /\ (Closed(n) <=> Closed(m))
<1>1. Typed(n) /\ (Closed(n) <=> Closed(m)) /\ Rest(n, 0)
    BY SameOrder DEF Quietly, Kept, Sound, Out, Waits
<1>2. CASE n.stack = m.stack
    BY <1>1, <1>2 DEF Quietly, SameQueue, SameStream, Sound, Ended, Out, Waits, NoWrite
<1>3. ASSUME NEW f, f.at \in {"cb", "drain", "error"} \/ (m.state.ending /\ f.at \in {"prefinish", "finish"}),
             n.stack = Append(m.stack, f)
      PROVE  Sound(n) /\ Out(n) /\ (Closed(n) <=> Closed(m))
  <2>1. /\ n.stack[Len(n.stack)] = f
        /\ \A i \in 1 .. Len(n.stack) : i = Len(n.stack) \/ (i \in 1 .. Len(m.stack) /\ n.stack[i] = m.stack[i])
      BY <1>3, AppendFrame DEF Sound, Typed, Calling
  <2>2. NoWrite(n)
      BY <1>3, <2>1 DEF NoWrite, InWrite, Out, Waits
  <2>3. Ended(n)
      BY <1>3, <2>1 DEF Quietly, SameQueue, SameStream, Sound, Ended
  <2> QED
      BY <1>1, <2>2, <2>3 DEF Quietly, SameQueue, SameStream, Sound, Out, Waits
<1> QED
    BY <1>2, <1>3 DEF Quietly, Calls

LEMMA QuietReady ==
    ASSUME NEW m, NEW n, Sound(m), Closed(m), Out(m), Quietly(m, n)
    PROVE  Ready(n) /\ Out(n)
    BY QuietOut DEF Ready

LEMMA UnmovedIn ==
    ASSUME NEW m, NEW n, Sound(m), Closed(m), In(m), Unmoved(m, n) PROVE Ready(n)
<1>1. Typed(n) /\ Closed(n) /\ \A d : Rest(n, d) <=> Rest(m, d)
    BY SameOrder DEF Unmoved, Kept, Sound
<1>2. n.stack = m.stack /\ Top(n) = Top(m) /\ Taken(n) = Taken(m) /\ SameStream(m.state, n.state)
    BY DEF Unmoved, Top, Taken, SameQueue, SameStream
<1>3. Ended(n)
    BY <1>2 DEF Sound, Ended, SameStream
<1>4. In(n)
    BY <1>1, <1>2 DEF In, Unmoved, SameStream
<1> QED
    BY <1>1, <1>3, <1>4 DEF Ready, Sound

LEMMA PopSound ==
    ASSUME NEW m, Sound(m), m.stack # <<>>, Out(m) \/ In(m)
    PROVE  LET p == Pop(m)
           IN  /\ Sound(p) /\ NoWrite(p) /\ Kept(m, p) /\ SameQueue(m, p) /\ (Closed(p) <=> Closed(m))
               /\ p.state = m.state /\ p.obs = m.obs /\ Len(p.stack) = Len(m.stack) - 1
               /\ \A d : Rest(p, d) <=> Rest(m, d)
               /\ Out(m) => Out(p)
<1> DEFINE p == Pop(m)
<1>1. Shaped(m)
    BY DEF Sound, Typed
<1>2. Kept(m, p) /\ SameQueue(m, p) /\ p.state = m.state /\ p.obs = m.obs
    BY <1>1, PopKept
<1>3. /\ Len(m.stack) \in Nat \ {0} /\ Len(p.stack) = Len(m.stack) - 1
      /\ \A i \in 1 .. Len(m.stack) - 1 : p.stack[i] = m.stack[i]
    BY <1>1, PopFrames
<1> HIDE DEF p
<1>4. Typed(p) /\ (Closed(p) <=> Closed(m)) /\ \A d : Rest(p, d) <=> Rest(m, d)
    BY <1>2, SameOrder DEF Sound, Kept
<1>5. Ended(p)
  <2>1. \A i \in 1 .. Len(p.stack) : i \in 1 .. Len(m.stack) /\ p.stack[i] = m.stack[i]
      BY <1>3
  <2> QED
      BY <1>2, <2>1 DEF Sound, Ended
<1>6. NoWrite(p)
  <2>1. CASE Out(m)
      BY <1>3, <2>1 DEF Out, Waits, NoWrite
  <2>2. CASE In(m)
      BY <1>3, <2>2 DEF In, NoWrite
  <2> QED
      BY <2>1, <2>2
<1>7. Out(m) => Out(p)
    BY <1>2, <1>4, <1>6 DEF Out, Waits
<1> QED
    BY <1>2, <1>3, <1>4, <1>5, <1>6, <1>7 DEF p, Sound

(* doWrite() with the chunks that are due: what is left of the buffer      *)
(* follows them.                                                           *)
Due(m, chunks, d) ==
    /\ chunks \in Seq(Chunk) /\ d \in 0 .. Len(m.state.buffer)
    /\ Len(m.obs.sent) + Len(chunks) + Len(m.state.buffer) - d = m.obs.acc
    /\ \A k \in 1 .. Len(m.obs.sent) : m.obs.sent[k] = k
    /\ \A k \in 1 .. Len(chunks) : chunks[k].id = Len(m.obs.sent) + k
    /\ \A k \in d + 1 .. Len(m.state.buffer) : m.state.buffer[k].id = Len(m.obs.sent) + Len(chunks) + k - d

LEMMA SendReady ==
    ASSUME NEW m, Sound(m), Closed(m), NoWrite(m), NEW n, NEW chunks, NEW f, Sends(m, n, chunks, f),
           InWrite(f), f.c \in Nat,
           Due(m, chunks, IF f.at = "_writev" THEN Len(m.state.buffer) ELSE f.c),
           m.state.bufferProcessing <=> f.at = "_writev" \/ f.c # 0,
           f.at = "_write" /\ f.c = 0 => m.state.buffer = <<>>
    PROVE  Ready(n)
<1> DEFINE d == IF f.at = "_writev" THEN Len(m.state.buffer) ELSE f.c
           ids == Ids(chunks)
<1>1. Shaped(m) /\ Calling(m, n, f) /\ n.obs.sent = m.obs.sent \o ids
    BY DEF Sound, Typed, Sends
<1> HIDE DEF ids
<1>2. /\ n.stack # <<>> /\ Top(n) = f
      /\ \A i \in 1 .. Len(n.stack) : i = Len(n.stack) \/ (i \in 1 .. Len(m.stack) /\ n.stack[i] = m.stack[i])
      /\ n.stack[Len(n.stack)] = f
    BY <1>1, AppendFrame
<1>3. ids \in Seq(Nat) /\ Len(ids) = Len(chunks) /\ \A k \in 1 .. Len(chunks) : ids[k] = chunks[k].id
  <2> USE DEF ids
  <2>1. Len(chunks) \in Nat
      BY DEF Due
  <2>2. Ids(chunks) = [i \in 1 .. Len(chunks) |-> chunks[i].id] /\ Ids(chunks) \in Seq(Nat)
      BY IdsType DEF Ids, Due
  <2>3. Len(Ids(chunks)) = Len(chunks)
      BY <2>1, <2>2
  <2> QED
      BY <2>2, <2>3
<1>4. /\ n.obs.sent \in Seq(Nat) /\ Len(n.obs.sent) = Len(m.obs.sent) + Len(chunks)
      /\ \A k \in 1 .. Len(n.obs.sent) : n.obs.sent[k] = k
  <2>1. m.obs.sent \in Seq(Nat) /\ Len(m.obs.sent) \in Nat /\ Len(chunks) \in Nat
      BY DEF Sound, Typed, Due
  <2>2. m.obs.sent \o ids \in Seq(Nat)
      BY <1>3, <2>1, ConcatProperties
  <2>3. Len(m.obs.sent \o ids) = Len(m.obs.sent) + Len(ids)
      BY <1>3, <2>1, ConcatProperties
  <2>4. \A k \in 1 .. Len(m.obs.sent) + Len(ids) :
          (m.obs.sent \o ids)[k] = IF k <= Len(m.obs.sent) THEN m.obs.sent[k] ELSE ids[k - Len(m.obs.sent)]
      BY <1>3, <2>1, ConcatProperties
  <2>5. ASSUME NEW k \in 1 .. Len(m.obs.sent) + Len(chunks) PROVE (m.obs.sent \o ids)[k] = k
    <3>1. CASE k <= Len(m.obs.sent)
      <4>1. k \in 1 .. Len(m.obs.sent) + Len(ids) /\ k \in 1 .. Len(m.obs.sent)
          BY <1>3, <2>1, <3>1
      <4>2. (m.obs.sent \o ids)[k] = m.obs.sent[k]
          BY <2>4, <3>1, <4>1
      <4> QED
          BY <4>1, <4>2 DEF Due
    <3>2. CASE ~(k <= Len(m.obs.sent))
      <4>1. k - Len(m.obs.sent) \in 1 .. Len(chunks)
          BY <2>1, <3>2
      <4>2. ids[k - Len(m.obs.sent)] = Len(m.obs.sent) + (k - Len(m.obs.sent))
          BY <1>3, <4>1 DEF Due
      <4>3. k \in 1 .. Len(m.obs.sent) + Len(ids)
          BY <1>3
      <4>4. (m.obs.sent \o ids)[k] = ids[k - Len(m.obs.sent)]
          BY <2>4, <3>2, <4>3
      <4>5. k \in Int
          BY <2>1
      <4>6. Len(m.obs.sent) + (k - Len(m.obs.sent)) = k
          BY <2>1, <4>5
      <4> QED
          BY <4>2, <4>4, <4>6
    <3> QED
        BY <3>1, <3>2
  <2> QED
      BY <1>1, <1>3, <2>2, <2>3, <2>5
<1>5. Typed(n) /\ Closed(n)
    BY <1>4 DEF Sends, Typed, Sound, Kept, Closed
<1>6. Ended(n)
    BY <1>1, <1>2 DEF Sends, Sound, Ended, InWrite
<1>7. Rest(n, d)
    BY <1>4 DEF Sends, Rest, Due
<1>8. Taken(n) = d
    BY <1>2 DEF Sends, Taken
<1>9. \A i \in 1 .. Len(n.stack) : InWrite(n.stack[i]) => i = Len(n.stack)
    BY <1>2 DEF NoWrite
<1>10. In(n)
    BY <1>2, <1>7, <1>8, <1>9 DEF Sends, In
<1> QED
    BY <1>5, <1>6, <1>10 DEF Ready, Sound

LEMMA DoWriteFrame ==
    ASSUME NEW m, Shaped(m), NEW len, NEW chunks, NEW cb, NEW c
    PROVE  /\ \E f : f.at = "_write" /\ f.c = c /\ Sends(m, DoWrite(m, FALSE, len, chunks, cb, c), chunks, f)
           /\ \E f : f.at = "_writev" /\ f.c = c /\ Sends(m, DoWrite(m, TRUE, len, chunks, cb, c), chunks, f)
    BY DoWriteSends

LEMMA WriteNthReady ==
    ASSUME NEW m, Sound(m), Closed(m), NoWrite(m), m.state.bufferProcessing, NEW c \in Nat, Rest(m, c),
           c < Len(m.state.buffer)
    PROVE  LET n == WriteNth(m, c + 1) IN Ready(n) /\ Kept(m, n)
<1> DEFINE chunk == m.state.buffer[c + 1]
           one == <<chunk>>
           n == DoWrite(m, FALSE, chunk.len, one, Cb1(chunk.id), c + 1)
<1>1. WriteNth(m, c + 1) = n
    BY DEF WriteNth
<1>2. m.state.buffer \in Seq(Chunk) /\ Len(m.state.buffer) \in Nat /\ m.obs.sent \in Seq(Nat) /\ Len(m.obs.sent) \in Nat
    BY DEF Sound, Typed
<1>3. c + 1 \in 1 .. Len(m.state.buffer) /\ chunk \in Chunk
    BY <1>2, ElementOfSeq
<1>4. chunk.id = Len(m.obs.sent) + 1
    BY <1>2, <1>3 DEF Rest
<1> HIDE DEF chunk
<1>5. one \in Seq(Chunk) /\ Len(one) = 1 /\ one[1] = chunk
    BY <1>3
<1> HIDE DEF one
<1>6. Due(m, one, c + 1)
  <2>1. \A k \in 1 .. Len(one) : one[k].id = Len(m.obs.sent) + k
      BY <1>4, <1>5
  <2>2. \A k \in c + 1 + 1 .. Len(m.state.buffer) :
           m.state.buffer[k].id = Len(m.obs.sent) + Len(one) + k - (c + 1)
      BY <1>2, <1>5 DEF Rest
  <2>3. Len(m.obs.sent) + Len(one) + Len(m.state.buffer) - (c + 1) = m.obs.acc
    <3> DEFINE l == Len(m.obs.sent)
               b == Len(m.state.buffer)
    <3>1. l \in Nat /\ b \in Nat /\ l + b - c = m.obs.acc
        BY <1>2 DEF Rest
    <3> HIDE DEF l, b
    <3>2. l + 1 + b - (c + 1) = m.obs.acc
        BY <3>1
    <3> QED
        BY <1>5, <3>2 DEF l, b
  <2>4. c + 1 \in 0 .. Len(m.state.buffer)
      BY <1>3
  <2>5. \A k \in 1 .. Len(m.obs.sent) : m.obs.sent[k] = k
      BY DEF Rest
  <2> QED
      BY <1>5, <2>1, <2>2, <2>3, <2>4, <2>5 DEF Due
<1>7. PICK f : f.at = "_write" /\ f.c = c + 1 /\ Sends(m, n, one, f)
    BY DoWriteFrame DEF Sound, Typed
<1> HIDE DEF n
<1>8. Ready(n)
    BY <1>6, <1>7, SendReady DEF InWrite
<1> QED
    BY <1>1, <1>7, <1>8 DEF Sends

LEMMA ClearBufferReady ==
    ASSUME NEW m, Sound(m), Closed(m), Waits(m), m.state.buffer # <<>>
    PROVE  LET n == ClearBuffer(m) IN Ready(n) /\ Kept(m, n)
<1> DEFINE buf == m.state.buffer
           group == HasWritev /\ Len(buf) > 1
           s == [m.state EXCEPT !.bufferProcessing = TRUE, !.pendingcb = @ + (IF group THEN 1 ELSE 0)]
           p == With(m, s, m.obs)
           n == DoWrite(p, TRUE, m.state.length, buf, [v |-> TRUE, ids |-> Ids(buf)], 0)
<1>1. /\ Has(s, StateNames) /\ s.finished = m.state.finished /\ s.buffer = buf /\ s.bufferProcessing = TRUE
      /\ s.ending = m.state.ending /\ s.ended = m.state.ended /\ s.corked = m.state.corked
    BY DEF Sound, Typed, Shaped, Has, StateNames
<1>2. ClearBuffer(m) = IF group THEN n ELSE WriteNth(p, 0 + 1)
    BY DEF ClearBuffer, WithState
<1> HIDE DEF s
<1>3. Kept(m, p) /\ p.state = s /\ p.obs = m.obs /\ p.stack = m.stack
    BY <1>1, WithKept DEF Sound, Typed, Shaped
<1> HIDE DEF p
<1>4. buf \in Seq(Chunk) /\ Len(buf) \in Nat \ {0} /\ Len(m.obs.sent) \in Nat
    BY EmptySeq, LenProperties DEF Sound, Typed
<1>5. Sound(p) /\ Closed(p) /\ NoWrite(p) /\ Rest(p, 0)
    BY <1>1, <1>3 DEF Sound, Typed, Kept, Ended, Closed, NoWrite, Rest, Waits
<1>6. Ready(WriteNth(p, 0 + 1)) /\ Kept(p, WriteNth(p, 0 + 1))
    BY <1>1, <1>3, <1>4, <1>5, WriteNthReady
<1>7. Due(p, buf, Len(p.state.buffer))
  <2>1. p.state.buffer = buf /\ p.obs.sent = m.obs.sent /\ p.obs.acc = m.obs.acc
      BY <1>1, <1>3
  <2>2. Len(p.obs.sent) + Len(buf) + Len(buf) - Len(buf) = p.obs.acc
    <3> DEFINE l == Len(m.obs.sent)
               b == Len(buf)
    <3>1. l \in Nat /\ b \in Nat /\ l + b - 0 = m.obs.acc
        BY <1>4 DEF Waits, Rest
    <3> HIDE DEF l, b
    <3>2. l + b + b - b = m.obs.acc
        BY <3>1
    <3> QED
        BY <2>1, <3>2 DEF l, b
  <2>4. \A k \in 1 .. Len(p.obs.sent) : p.obs.sent[k] = k
      BY <1>5 DEF Rest
  <2>5. ASSUME NEW k \in 1 .. Len(buf) PROVE buf[k].id = Len(p.obs.sent) + k
    <3>1. k \in 0 + 1 .. Len(buf)
        OBVIOUS
    <3>2. buf[k].id = Len(p.obs.sent) + k - 0
        BY <1>5, <2>1, <3>1 DEF Rest
    <3>3. Len(p.obs.sent) + k - 0 = Len(p.obs.sent) + k
        BY <1>4, <2>1
    <3> QED
        BY <3>2, <3>3
  <2>3. Len(buf) + 1 .. Len(buf) = {} /\ Len(buf) \in 0 .. Len(buf)
      BY <1>4
  <2> QED
      BY <1>4, <2>1, <2>2, <2>3, <2>4, <2>5 DEF Due
<1>8. PICK f : f.at = "_writev" /\ f.c = 0 /\ Sends(p, n, buf, f)
    BY <1>5, DoWriteFrame DEF Sound, Typed
<1> HIDE DEF n, buf
<1>9. Ready(n) /\ Kept(p, n)
  <2>1. InWrite(f) /\ f.c \in Nat /\ p.state.bufferProcessing = TRUE
      BY <1>1, <1>3, <1>8 DEF InWrite
  <2>2. Ready(n)
      BY <1>5, <1>7, <1>8, <2>1, SendReady
  <2> QED
      BY <1>8, <2>2 DEF Sends
<1> QED
    BY <1>2, <1>3, <1>6, <1>9, KeptAfter

LEMMA PushOut ==
    ASSUME NEW m, Sound(m), Waits(m), NEW f, ~InWrite(f), f.at \in {"prefinish", "endWritable"} => m.state.ending
    PROVE  LET n == Push(m, f)
           IN  /\ Sound(n) /\ Waits(n) /\ (Out(m) => Out(n)) /\ (Closed(n) <=> Closed(m)) /\ Calling(m, n, f)
               /\ n.state = m.state /\ n.obs = m.obs
<1> DEFINE n == Push(m, f)
<1>1. Kept(m, n) /\ SameQueue(m, n) /\ n.state = m.state /\ n.obs = m.obs /\ Calling(m, n, f)
    BY PushQuiet DEF Sound, Typed, Calling
<1> HIDE DEF n
<1>2. Typed(n) /\ Rest(n, 0) /\ (Closed(n) <=> Closed(m))
    BY <1>1, SameOrder DEF Sound, Kept, Waits
<1>3. /\ n.stack[Len(n.stack)] = f
      /\ \A i \in 1 .. Len(n.stack) : i = Len(n.stack) \/ (i \in 1 .. Len(m.stack) /\ n.stack[i] = m.stack[i])
    BY <1>1, AppendFrame DEF Sound, Typed
<1>4. NoWrite(n)
    BY <1>3 DEF NoWrite, Waits
<1>5. Ended(n)
    BY <1>1, <1>3 DEF Sound, Ended
<1> QED
    BY <1>1, <1>2, <1>4, <1>5 DEF Sound, Out, Waits, n

LEMMA UncorkToReady ==
    ASSUME NEW m, Sound(m), Closed(m), Out(m), NEW k \in Nat PROVE Ready(UncorkTo(m, k))
<1> DEFINE s == [m.state EXCEPT !.corked = k]
           p == With(m, s, m.obs)
<1>1. /\ Has(s, StateNames) /\ s.finished = m.state.finished /\ s.buffer = m.state.buffer
      /\ s.bufferProcessing = m.state.bufferProcessing /\ s.writing = m.state.writing
      /\ s.ending = m.state.ending /\ s.ended = m.state.ended /\ s.corked = k
    BY DEF Sound, Typed, Shaped, Has, StateNames
<1>2. UncorkTo(m, k) = IF /\ ~p.state.writing /\ p.state.corked = 0 /\ ~p.state.finished
                          /\ ~p.state.bufferProcessing /\ p.state.buffer # <<>>
                       THEN ClearBuffer(p) ELSE p
    BY DEF UncorkTo, WithState
<1> HIDE DEF s
<1>3. Kept(m, p) /\ p.state = s /\ p.obs = m.obs /\ p.stack = m.stack
    BY <1>1, WithKept DEF Sound, Typed, Shaped
<1> HIDE DEF p
<1>4. Sound(p) /\ Closed(p) /\ Waits(p)
    BY <1>1, <1>3 DEF Sound, Typed, Kept, Ended, Closed, NoWrite, Rest, Waits, Out
<1>5. CASE UncorkTo(m, k) = ClearBuffer(p) /\ p.state.buffer # <<>>
    BY <1>4, <1>5, ClearBufferReady
<1>6. CASE UncorkTo(m, k) = p /\ (p.state.writing \/ k # 0 \/ p.state.finished \/ p.state.buffer = <<>>)
  <2>1. Out(p)
      BY <1>1, <1>3, <1>4, <1>6 DEF Out, Sound, Ended
  <2> QED
      BY <1>4, <1>6, <2>1 DEF Ready
<1> QED
    BY <1>1, <1>2, <1>3, <1>4, <1>5, <1>6 DEF Waits

LEMMA WriteOrBufferReady ==
    ASSUME NEW m, Sound(m), ~m.state.ending, Out(m), NEW len \in Nat
    PROVE  Ready(WriteOrBuffer(m, len))
<1> DEFINE full == m.state.length + len >= HighWaterMark
           id == m.obs.acc + 1
           chunk == [id |-> id, len |-> len]
           one == <<chunk>>
           s == [m.state EXCEPT !.pendingcb = @ + 1, !.length = @ + len, !.needDrain = full]
           o == [m.obs EXCEPT !.acc = id, !.owed = @ \/ full]
           p == With(m, s, o)
           b == [s EXCEPT !.buffer = Append(@, chunk)]
           r == With(p, b, p.obs)
           n == DoWrite(p, FALSE, len, one, Cb1(id), 0)
<1>1. /\ Has(s, StateNames) /\ s.finished = m.state.finished /\ s.buffer = m.state.buffer
      /\ s.bufferProcessing = m.state.bufferProcessing /\ s.writing = m.state.writing
      /\ s.ending = m.state.ending /\ s.ended = m.state.ended /\ s.corked = m.state.corked
    BY DEF Sound, Typed, Shaped, Has, StateNames
<1>2. Has(o, ObsNames) /\ o.acc = id /\ o.sent = m.obs.sent /\ o.errored = m.obs.errored /\ o.endcb = m.obs.endcb
    BY DEF Sound, Typed, Shaped, Has, ObsNames
<1>3. /\ Has(b, StateNames) /\ b.finished = s.finished /\ b.buffer = Append(s.buffer, chunk)
      /\ b.bufferProcessing = s.bufferProcessing /\ b.writing = s.writing
      /\ b.ending = s.ending /\ b.ended = s.ended /\ b.corked = s.corked
    BY <1>1 DEF Has, StateNames
<1> HIDE DEF s, o, b, one
<1>4. Kept(m, p) /\ p.state = s /\ p.obs = o /\ p.stack = m.stack
    BY <1>1, <1>2, WithKept DEF Sound, Typed
<1>5. WriteOrBuffer(m, len) = IF MustBuffer(m.state) THEN r ELSE n
    BY <1>4 DEF WriteOrBuffer, WithState, s, o, b, one
<1> HIDE DEF p
<1>6. Kept(p, r) /\ r.state = b /\ r.obs = o /\ r.stack = m.stack
    BY <1>1, <1>2, <1>3, <1>4, WithKept DEF Kept
<1> HIDE DEF r
<1>a. /\ m.state.buffer \in Seq(Chunk) /\ Len(m.state.buffer) \in Nat /\ m.obs.sent \in Seq(Nat)
      /\ Len(m.obs.sent) \in Nat /\ m.obs.acc \in Nat
    BY DEF Sound, Typed
<1>b. id \in Nat /\ chunk \in Chunk /\ chunk.id = id
    BY <1>a DEF Chunk
<1>c. /\ Len(m.obs.sent) + Len(m.state.buffer) = m.obs.acc
      /\ \A k \in 1 .. Len(m.obs.sent) : m.obs.sent[k] = k
      /\ \A k \in 1 .. Len(m.state.buffer) : m.state.buffer[k].id = Len(m.obs.sent) + k
    BY <1>a, RestAll DEF Out, Waits
<1>d. Len(m.obs.sent) + (Len(m.state.buffer) + 1) = id
  <2> DEFINE l == Len(m.obs.sent)
             q == Len(m.state.buffer)
  <2>1. l \in Nat /\ q \in Nat /\ l + q = m.obs.acc
      BY <1>a, <1>c
  <2> HIDE DEF l, q
  <2>2. l + (q + 1) = m.obs.acc + 1
      BY <2>1
  <2> QED
      BY <2>2 DEF l, q
<1>7. /\ m.state.buffer \in Seq(Chunk) /\ Len(m.state.buffer) \in Nat /\ m.obs.sent \in Seq(Nat)
      /\ Len(m.obs.sent) \in Nat /\ id \in Nat /\ chunk \in Chunk /\ chunk.id = id
      /\ Len(m.obs.sent) + (Len(m.state.buffer) + 1) = id
    BY <1>a, <1>b, <1>d
<1> HIDE DEF id, chunk
<1>8. Typed(p) /\ Ended(p) /\ Closed(p) /\ NoWrite(p) /\ ~p.state.bufferProcessing
    BY <1>1, <1>2, <1>4, <1>7 DEF Sound, Typed, Kept, Ended, Closed, NoWrite, Waits, Out
<1>9. CASE MustBuffer(m.state)
  <2>1. /\ b.buffer \in Seq(Chunk) /\ Len(b.buffer) = Len(m.state.buffer) + 1
        /\ b.buffer[Len(m.state.buffer) + 1] = chunk
        /\ \A k \in 1 .. Len(m.state.buffer) : b.buffer[k] = m.state.buffer[k]
      BY <1>1, <1>3, <1>7, AppendProperties
  <2>2. Rest(r, 0)
    <3>1. ASSUME NEW k \in 1 .. Len(b.buffer) PROVE b.buffer[k].id = Len(m.obs.sent) + k
      <4>1. k \in 1 .. Len(m.state.buffer) \/ k = Len(m.state.buffer) + 1
          BY <1>7, <2>1
      <4> QED
          BY <1>7, <1>c, <2>1, <4>1
    <3>2. r.state.buffer = b.buffer /\ r.obs.sent = m.obs.sent /\ r.obs.acc = id
        BY <1>2, <1>6
    <3>3. Len(m.obs.sent) + Len(b.buffer) = id
        BY <1>7, <2>1
    <3> QED
        BY <1>7, <1>c, <2>1, <3>1, <3>2, <3>3, RestAll
  <2>3. Typed(r) /\ Ended(r) /\ Closed(r) /\ NoWrite(r) /\ ~r.state.bufferProcessing
      BY <1>2, <1>3, <1>4, <1>6, <1>7, <1>8, <2>1 DEF Typed, Kept, Ended, Closed, NoWrite
  <2>4. r.state.writing \/ r.state.corked > 0
      BY <1>1, <1>3, <1>6, <1>9 DEF MustBuffer
  <2> QED
      BY <1>5, <1>9, <2>2, <2>3, <2>4 DEF Ready, Sound, Out, Waits
<1>10. CASE ~MustBuffer(m.state)
  <2>1. m.state.buffer = <<>> /\ Len(m.state.buffer) = 0 /\ p.state.buffer = <<>> /\ Len(p.state.buffer) = 0
      BY <1>1, <1>4, <1>10, EmptySeq DEF Out, MustBuffer
  <2>2. one \in Seq(Chunk) /\ Len(one) = 1 /\ one[1] = chunk
      BY <1>7 DEF one
  <2>3. Due(p, one, 0)
    <3>1. p.obs.sent = m.obs.sent /\ p.obs.acc = id /\ Len(m.obs.sent) + 1 = id
        BY <1>2, <1>4, <1>7, <2>1
    <3>2. \A k \in 1 .. Len(one) : one[k].id = Len(p.obs.sent) + k
        BY <1>7, <2>2, <3>1
    <3>3. Len(p.obs.sent) + Len(one) + Len(p.state.buffer) - 0 = id
        BY <1>7, <2>1, <2>2, <3>1
    <3>4. \A k \in 1 .. Len(p.obs.sent) : p.obs.sent[k] = k
        BY <3>1 DEF Out, Waits, Rest
    <3>5. 0 + 1 .. Len(p.state.buffer) = {} /\ 0 \in 0 .. Len(p.state.buffer)
        BY <2>1
    <3> QED
        BY <2>2, <3>1, <3>2, <3>3, <3>4, <3>5 DEF Due
  <2>4. PICK f : f.at = "_write" /\ f.c = 0 /\ Sends(p, n, one, f)
      BY <1>8, DoWriteFrame DEF Typed
  <2> HIDE DEF n
  <2>5. InWrite(f) /\ f.c \in Nat /\ Sound(p)
      BY <1>8, <2>4 DEF InWrite, Sound
  <2>6. Ready(n)
      BY <1>8, <2>1, <2>3, <2>4, <2>5, SendReady
  <2> QED
      BY <1>5, <1>10, <2>6
<1> QED
    BY <1>9, <1>10

(* Listeners of endWritable(): it is still the next to go on.              *)
LEMMA OpenCalls ==
    ASSUME NEW q, Shaped(q), q.stack # <<>>, Top(q).at = "endWritable", NEW r,
           r.stack = q.stack \/ Calls(q, r, {"prefinish", "finish"})
    PROVE  OpenEnd(r)
<1>1. Len(q.stack) \in Nat \ {0}
    BY PopFrames
<1>2. CASE r.stack = q.stack
  <2>1. Top(r).at = "endWritable" /\ r.stack # <<>>
      BY <1>2 DEF Top
  <2> QED
      BY <2>1 DEF OpenEnd
<1>3. ASSUME NEW g, g.at \in {"prefinish", "finish"}, Calling(q, r, g) PROVE OpenEnd(r)
  <2>1. /\ r.stack # <<>> /\ Top(r) = g /\ Len(r.stack) = Len(q.stack) + 1
        /\ \A i \in 1 .. Len(r.stack) : i = Len(r.stack) \/ r.stack[i] = q.stack[i]
      BY <1>3, AppendFrame
  <2>2. Len(r.stack) > 1 /\ Len(r.stack) - 1 = Len(q.stack) /\ Len(q.stack) \in 1 .. Len(r.stack)
      BY <1>1, <2>1
  <2>3. r.stack[Len(q.stack)] = q.stack[Len(q.stack)]
      BY <1>1, <2>1, <2>2
  <2> QED
      BY <1>3, <2>1, <2>2, <2>3 DEF OpenEnd, Top
<1> QED
    BY <1>2, <1>3 DEF Calls, Calling

LEMMA EndWritableSettled ==
    ASSUME NEW m, Sound(m), Closed(m), Out(m), NEW hasCb PROVE Settled(EndWritable(m, hasCb))
<1> DEFINE s == [m.state EXCEPT !.ending = TRUE]
           p == With(m, s, m.obs)
           f == [Frame("endWritable") EXCEPT !.hasCb = hasCb]
           q == Push(p, f)
           r == FinishMaybe(q)
<1>1. /\ Has(s, StateNames) /\ s.finished = m.state.finished /\ s.buffer = m.state.buffer
      /\ s.bufferProcessing = m.state.bufferProcessing /\ s.ending = TRUE /\ s.corked = m.state.corked
    BY DEF Sound, Typed, Shaped, Has, StateNames
<1>2. EndWritable(m, hasCb) \in {m, r}
    BY DEF EndWritable, WithState
<1>3. f.at = "endWritable" /\ ~InWrite(f)
    BY DEF Frame, InWrite
<1> HIDE DEF s, f
<1>4. Kept(m, p) /\ p.state = s /\ p.obs = m.obs /\ p.stack = m.stack
    BY <1>1, WithKept DEF Sound, Typed, Shaped
<1> HIDE DEF p
<1>5. Sound(p) /\ Waits(p) /\ Out(p)
    BY <1>1, <1>4 DEF Sound, Typed, Kept, Ended, NoWrite, Rest, Waits, Out
<1>6. Sound(q) /\ Out(q) /\ Calling(p, q, f) /\ q.state = s
    BY <1>1, <1>3, <1>4, <1>5, PushOut
<1> HIDE DEF q
<1>7. Quietly(q, r) /\ (r.stack = q.stack \/ Calls(q, r, {"prefinish", "finish"}))
    BY <1>6, FinishMaybeQuiet DEF Sound, Typed
<1> HIDE DEF r
<1>8. Sound(r) /\ Out(r)
    BY <1>6, <1>7, QuietOut
<1>9. q.stack # <<>> /\ Top(q) = f
    BY <1>5, <1>6, AppendFrame DEF Sound, Typed
<1>10. Settled(r)
    BY <1>3, <1>6, <1>7, <1>8, <1>9, OpenCalls DEF Settled, Sound, Typed
<1> QED
    BY <1>2, <1>10, ReadySettled DEF Ready

LEMMA EndUncorkSettled ==
    ASSUME NEW m, Sound(m), Closed(m), Out(m), NEW hasCb PROVE Settled(EndUncork(m, hasCb))
<1> DEFINE f == [Frame("endUncork") EXCEPT !.hasCb = hasCb]
           p == Push(m, f)
<1>1. EndUncork(m, hasCb) \in {UncorkTo(p, 0), EndWritable(m, hasCb)}
    BY DEF EndUncork
<1>2. f.at = "endUncork" /\ ~InWrite(f)
    BY DEF Frame, InWrite
<1> HIDE DEF f
<1>3. Sound(p) /\ Closed(p) /\ Out(p)
    BY <1>2, PushOut DEF Out
<1> HIDE DEF p
<1>4. Settled(UncorkTo(p, 0))
    BY <1>3, UncorkToReady, ReadySettled
<1> QED
    BY <1>1, <1>4, EndWritableSettled

LEMMA EndChunkReady ==
    ASSUME NEW m, Sound(m), Closed(m), Out(m), NEW len \in Nat, NEW hasCb
    PROVE  Ready(EndChunk(m, len, hasCb))
<1> DEFINE f == [Frame("end") EXCEPT !.hasCb = hasCb]
           p == Push(m, f)
<1>1. EndChunk(m, len, hasCb) = IF m.state.ended THEN Reject(p) ELSE WriteOrBuffer(p, len)
    BY DEF EndChunk
<1>2. f.at = "end" /\ ~InWrite(f)
    BY DEF Frame, InWrite
<1> HIDE DEF f
<1>3. Sound(p) /\ Closed(p) /\ Out(p) /\ p.state = m.state
    BY <1>2, PushOut DEF Out
<1> HIDE DEF p
<1>4. Ready(Reject(p))
    BY <1>3, RejectQuiet, QuietReady DEF Sound, Typed
<1>5. ~m.state.ended => Ready(WriteOrBuffer(p, len))
    BY <1>3, WriteOrBufferReady DEF Closed
<1> QED
    BY <1>1, <1>4, <1>5

LEMMA EndReturnReady ==
    ASSUME NEW m, Sound(m), m.state.ending, Out(m), NEW hasCb PROVE Ready(EndReturn(m, hasCb))
<1> DEFINE s == [m.state EXCEPT !.ended = TRUE]
           o == [m.obs EXCEPT !.endcb = IF ~hasCb THEN m.obs.endcb
                                        ELSE IF m.state.finished THEN "ticked" ELSE "once"]
           p == With(m, s, o)
           t == NextTick(p, Tick("endcb"))
<1>1. /\ Has(s, StateNames) /\ s.finished = m.state.finished /\ s.buffer = m.state.buffer
      /\ s.bufferProcessing = m.state.bufferProcessing /\ s.ending = m.state.ending /\ s.ended = TRUE
      /\ s.corked = m.state.corked
    BY DEF Sound, Typed, Shaped, Has, StateNames
<1>2. Has(o, ObsNames) /\ o.acc = m.obs.acc /\ o.sent = m.obs.sent
    BY DEF Sound, Typed, Shaped, Has, ObsNames
<1>3. EndReturn(m, hasCb) \in {t, p}
    BY DEF EndReturn
<1> HIDE DEF s, o
<1>4. Shaped(p) /\ p.state = s /\ p.obs = o /\ p.stack = m.stack
    BY <1>1, <1>2, WithParts DEF Sound, Typed
<1> HIDE DEF p
<1>5. Sound(p) /\ Closed(p) /\ Out(p)
    BY <1>1, <1>2, <1>4 DEF Sound, Typed, Ended, Closed, NoWrite, Rest, Waits, Out
<1>6. Quietly(p, t)
    BY <1>4, NextTickUnmoved DEF Unmoved, Quietly, Calls
<1> HIDE DEF t
<1>7. Ready(t)
    BY <1>5, <1>6, QuietReady
<1> QED
    BY <1>3, <1>5, <1>7 DEF Ready

(* The callback of a _write(): inside it, the library only takes note.     *)
LEMMA OnwriteReady ==
    ASSUME NEW m, Ready(m), NEW ok, ok # FALSE, ok \in BOOLEAN PROVE Ready(Onwrite(m, ok))
<1> DEFINE u == OnwriteStateUpdate(m)
           sync == m.state.sync
           cb == m.state.writecb
           fin == NeedFinish(u.state)
           f == [Frame("onwrite") EXCEPT !.cb = cb, !.fin = fin, !.sync = sync]
           p == Push(u, f)
           n == OnwriteReturn(u, sync, fin, cb)
<1>1. Onwrite(m, ok) = IF ~fin /\ u.state.corked = 0 /\ ~u.state.bufferProcessing /\ u.state.buffer # <<>>
                       THEN ClearBuffer(p) ELSE n
    BY DEF Onwrite, OnwriteOk
<1>2. /\ Kept(m, u) /\ SameSeen(m.obs, u.obs) /\ u.stack = m.stack /\ u.state.sync = m.state.sync
      /\ u.state.buffer = m.state.buffer /\ u.state.bufferProcessing = m.state.bufferProcessing
      /\ u.state.corked = m.state.corked /\ u.state.writing = FALSE
      /\ u.state.ending = m.state.ending /\ u.state.ended = m.state.ended
      /\ u.state.finished = m.state.finished
    BY OnwriteStateUpdateKept DEF Ready, Sound, Typed
<1>3. fin => u.state.ending
    BY DEF NeedFinish
<1>4. f.at = "onwrite" /\ ~InWrite(f)
    BY DEF Frame, InWrite
<1> HIDE DEF u, fin, f, cb
<1>5. Sound(u) /\ Closed(u) /\ \A d : Rest(u, d) <=> Rest(m, d)
    BY <1>2 DEF Ready, Sound, Typed, Kept, SameSeen, Ended, Closed, Rest
<1>6. CASE In(m)
  <2>1. In(u)
      BY <1>2, <1>5, <1>6 DEF In, Top, Taken
  <2>2. sync = TRUE \/ sync
      BY <1>6 DEF In
  <2>3. ~u.state.bufferProcessing => u.state.buffer = <<>>
      BY <2>1 DEF In, InWrite
  <2>4. Onwrite(m, ok) = n
      BY <1>1, <2>3
  <2>5. Unmoved(u, n)
      BY <1>5, <2>2, OnwriteReturnQuiet DEF Sound, Typed
  <2> HIDE DEF n
  <2> QED
      BY <1>5, <2>1, <2>4, <2>5, UnmovedIn
<1>7. CASE Out(m)
  <2>1. Waits(u)
      BY <1>2, <1>5, <1>7 DEF Out, Waits, NoWrite
  <2>2. Sound(p) /\ Waits(p) /\ Closed(p) /\ p.state = u.state
      BY <1>4, <1>5, <2>1, PushOut
  <2> HIDE DEF p
  <2>3. u.state.buffer # <<>> => Ready(ClearBuffer(p))
      BY <2>2, ClearBufferReady
  <2>4. ASSUME Out(u) PROVE Ready(n)
    <3>1. Quietly(u, n)
        BY <1>5, OnwriteReturnQuiet DEF Sound, Typed
    <3> HIDE DEF n
    <3> QED
        BY <1>5, <2>4, <3>1, QuietReady
  <2>5. u.state.buffer = <<>> \/ u.state.ending \/ u.state.corked # 0 => Out(u)
      BY <1>5, <2>1 DEF Out, Sound, Typed
  <2> HIDE DEF n
  <2> QED
      BY <1>1, <1>3, <2>1, <2>3, <2>4, <2>5 DEF Waits
<1> QED
    BY <1>6, <1>7 DEF Ready

(* A call of _write() returns: the loop goes on or leaves what is left.    *)
LEMMA WriteReturnsReady ==
    ASSUME NEW m, Sound(m), Closed(m), In(m), Top(m).at = "_write" PROVE Ready(WriteReturns(m))
<1> DEFINE p == Pop(m)
           c == Top(m).c
           s == [m.state EXCEPT !.sync = FALSE]
           n == With(p, s, p.obs)
           b == [s EXCEPT !.buffer = NotWritten(@, c), !.bufferProcessing = FALSE]
           r == With(n, b, n.obs)
<1>1. /\ Has(s, StateNames) /\ s.finished = m.state.finished /\ s.buffer = m.state.buffer
      /\ s.bufferProcessing = m.state.bufferProcessing /\ s.ending = m.state.ending /\ s.ended = m.state.ended
      /\ s.corked = m.state.corked /\ s.writing = m.state.writing
    BY DEF Sound, Typed, Shaped, Has, StateNames
<1>2. /\ Has(b, StateNames) /\ b.finished = m.state.finished /\ b.buffer = SubSeq(m.state.buffer, c + 1, Len(m.state.buffer))
      /\ b.bufferProcessing = FALSE /\ b.ending = m.state.ending /\ b.ended = m.state.ended
      /\ b.corked = m.state.corked /\ b.writing = m.state.writing
    BY <1>1 DEF Has, StateNames, NotWritten
<1>3. /\ Sound(p) /\ NoWrite(p) /\ p.state = m.state /\ p.obs = m.obs /\ (Closed(p) <=> Closed(m))
      /\ \A d : Rest(p, d) <=> Rest(m, d)
    BY PopSound DEF In
<1> HIDE DEF p, s, b
<1>4. Kept(p, n) /\ n.state = s /\ n.obs = p.obs /\ n.stack = p.stack
    BY <1>1, <1>3, WithKept DEF Sound, Typed, Shaped
<1>5. WriteReturns(m) = IF c = 0 THEN n
                        ELSE IF ~m.state.writing /\ c < Len(m.state.buffer) THEN WriteNth(n, c + 1) ELSE r
    BY <1>1, <1>4 DEF WriteReturns, WithState, p, s, b
<1> HIDE DEF n
<1>6. Kept(n, r) /\ r.state = b /\ r.obs = p.obs /\ r.stack = p.stack
  <2>1. Shaped(n) /\ Has(n.obs, ObsNames) /\ b.finished = n.state.finished
      BY <1>1, <1>2, <1>4 DEF Kept, Shaped
  <2>2. Kept(n, r) /\ r.state = b /\ r.obs = n.obs /\ r.stack = n.stack
      BY <1>2, <2>1, WithKept
  <2> QED
      BY <1>4, <2>2
<1> HIDE DEF r
<1>7. Sound(n) /\ Closed(n) /\ NoWrite(n) /\ \A d : Rest(n, d) <=> Rest(m, d)
  <2>1. /\ n.state.buffer = m.state.buffer /\ n.obs = m.obs /\ n.stack = p.stack /\ Shaped(n)
        /\ n.state.corked = m.state.corked /\ n.state.ending = p.state.ending
        /\ n.state.ended = p.state.ended /\ n.state.finished = p.state.finished
      BY <1>1, <1>3, <1>4 DEF Kept
  <2>2. Typed(n) /\ \A d : Rest(n, d) <=> Rest(m, d)
      BY <1>3, <2>1 DEF Sound, Typed, Rest
  <2>3. Ended(n) /\ Closed(n) /\ NoWrite(n)
      BY <1>3, <2>1 DEF Sound, Ended, Closed, NoWrite
  <2> QED
      BY <2>2, <2>3 DEF Sound
<1>8. c \in Nat /\ Rest(m, c) /\ (m.state.bufferProcessing <=> c # 0) /\ (c = 0 => m.state.buffer = <<>>)
    BY DEF In, Taken
<1> HIDE DEF c
<1>9. CASE c = 0
  <2>1. Out(n)
      BY <1>1, <1>4, <1>7, <1>8, <1>9 DEF Out, Waits
  <2> QED
      BY <1>5, <1>7, <1>9, <2>1 DEF Ready
<1>10. CASE c # 0 /\ ~m.state.writing /\ c < Len(m.state.buffer)
  <2>1. n.state.bufferProcessing /\ c < Len(n.state.buffer) /\ Rest(n, c)
      BY <1>1, <1>4, <1>7, <1>8, <1>10
  <2> QED
      BY <1>5, <1>7, <1>8, <1>10, <2>1, WriteNthReady
<1>11. CASE c # 0 /\ (m.state.writing \/ ~(c < Len(m.state.buffer)))
  <2> DEFINE buf == m.state.buffer
             l == Len(m.obs.sent)
             q == Len(buf)
             left == SubSeq(buf, c + 1, q)
  <2>1. buf \in Seq(Chunk) /\ q \in Nat /\ m.obs.sent \in Seq(Nat) /\ l \in Nat
      BY DEF Sound, Typed
  <2>2. /\ c <= q /\ l + q - c = m.obs.acc
        /\ \A k \in 1 .. l : m.obs.sent[k] = k
        /\ \A k \in c + 1 .. q : buf[k].id = l + k - c
    <3>1. c \in 0 .. q /\ l + q - c = m.obs.acc
        BY <1>8 DEF Rest
    <3>2. c <= q
        BY <2>1, <3>1
    <3> QED
        BY <1>8, <3>1, <3>2 DEF Rest
  <2>3. left \in Seq(Chunk)
      BY <1>8, <2>1, SubSeqType
  <2>4. Len(left) = q - c /\ \A k \in 1 .. q - c : left[k] = buf[c + k]
    <3>1. \A i \in c + 1 .. q : buf[i] \in Chunk
        BY <1>8, <2>1, ElementOfSeq
    <3> HIDE DEF buf, l, q
    <3>2. c + 1 \in Int /\ q \in Int /\ (c + 1 <= q + 1) /\ q - (c + 1) + 1 = q - c
        BY <1>8, <2>1, <2>2
    <3>3. Len(left) = q - c
        BY <3>1, <3>2, <2>1, SubSeqProperties
    <3>4. ASSUME NEW k \in 1 .. q - c PROVE left[k] = buf[c + k]
      <4>1. left[k] = buf[c + 1 + k - 1]
          BY <3>1, <3>2, <3>3, <2>1, SubSeqProperties
      <4>2. c + 1 + k - 1 = c + k
          BY <1>8
      <4> QED
          BY <4>1, <4>2
    <3> QED
        BY <3>3, <3>4
  <2>5. r.state.buffer = left /\ r.obs.sent = m.obs.sent /\ r.obs.acc = m.obs.acc
      BY <1>2, <1>3, <1>6
  <2> HIDE DEF left
  <2>6. Rest(r, 0)
    <3>1. ASSUME NEW k \in 1 .. Len(left) PROVE left[k].id = l + k
      <4> HIDE DEF buf, l, q
      <4>1. k \in 1 .. q - c /\ c + k \in c + 1 .. q /\ l + (c + k) - c = l + k
          BY <1>8, <2>1, <2>2, <2>4
      <4> QED
          BY <2>2, <2>4, <4>1
    <3>2. l + Len(left) = m.obs.acc
      <4> HIDE DEF buf, l, q
      <4> QED
          BY <1>8, <2>1, <2>2, <2>4
    <3> QED
        BY <2>1, <2>2, <2>3, <2>5, <3>1, <3>2, RestAll
  <2>7. left # <<>> => r.state.writing
    <3>1. ASSUME ~m.state.writing PROVE left = <<>>
      <4>1. Len(left) = 0
        <5> HIDE DEF buf, l, q
        <5>1. c = q
            BY <1>8, <1>11, <2>1, <2>2, <3>1 DEF buf, q
        <5> QED
            BY <2>1, <2>4, <5>1
      <4> QED
          BY <2>3, <4>1, EmptySeq
    <3> QED
        BY <1>2, <1>6, <3>1
  <2>8. Sound(r) /\ Closed(r) /\ NoWrite(r) /\ ~r.state.bufferProcessing
      BY <1>2, <1>3, <1>6, <2>3, <2>5 DEF Sound, Typed, Kept, Ended, Closed, NoWrite
  <2>9. Out(r)
      BY <2>5, <2>6, <2>7, <2>8 DEF Out, Waits
  <2> QED
      BY <1>5, <1>11, <2>8, <2>9 DEF Ready
<1> QED
    BY <1>9, <1>10, <1>11

LEMMA WritevReturnsReady ==
    ASSUME NEW m, Sound(m), Closed(m), In(m), Top(m).at = "_writev" PROVE Ready(WritevReturns(m))
<1> DEFINE p == Pop(m)
           s == [m.state EXCEPT !.sync = FALSE, !.buffer = <<>>, !.bufferProcessing = FALSE]
           n == With(p, s, p.obs)
<1>1. /\ Has(s, StateNames) /\ s.finished = m.state.finished /\ s.buffer = <<>>
      /\ s.bufferProcessing = FALSE /\ s.ending = m.state.ending /\ s.ended = m.state.ended
      /\ s.corked = m.state.corked
    BY DEF Sound, Typed, Shaped, Has, StateNames
<1>2. /\ Sound(p) /\ NoWrite(p) /\ p.state = m.state /\ p.obs = m.obs /\ (Closed(p) <=> Closed(m))
    BY PopSound DEF In
<1>3. WritevReturns(m) = n
    BY DEF WritevReturns, WithState
<1> HIDE DEF p, s
<1>4. Kept(p, n) /\ n.state = s /\ n.obs = m.obs /\ n.stack = p.stack
    BY <1>1, <1>2, WithKept DEF Sound, Typed, Shaped
<1> HIDE DEF n
<1>5. Rest(m, Len(m.state.buffer))
    BY DEF In, Taken
<1>6. <<>> \in Seq(Chunk) /\ Len(<<>>) = 0
    BY EmptySeq
<1>7. Rest(n, 0)
  <2> DEFINE l == Len(m.obs.sent)
             q == Len(m.state.buffer)
  <2>1. l \in Nat /\ q \in Nat
      BY DEF Sound, Typed
  <2>2. l + q - q = m.obs.acc /\ \A k \in 1 .. l : m.obs.sent[k] = k
      BY <1>5 DEF Rest
  <2>3. l + 0 = m.obs.acc
    <3> HIDE DEF l, q
    <3> QED
        BY <2>1, <2>2
  <2>4. n.state.buffer = <<>> /\ n.obs.sent = m.obs.sent /\ n.obs.acc = m.obs.acc
      BY <1>1, <1>4
  <2>5. \A k \in 1 .. Len(<<>>) : FALSE
      BY <1>6
  <2> QED
      BY <1>6, <2>2, <2>3, <2>4, <2>5, RestAll DEF Sound, Typed
<1>8. Sound(n) /\ Closed(n) /\ NoWrite(n) /\ ~n.state.bufferProcessing
    BY <1>1, <1>2, <1>4, <1>6 DEF Sound, Typed, Kept, Ended, Closed, NoWrite
<1> QED
    BY <1>1, <1>3, <1>4, <1>7, <1>8 DEF Ready, Out, Waits

(* Only a listener of endWritable() or itself runs on an open end.         *)
LEMMA SettledReady ==
    ASSUME NEW m, Settled(m),
           m.stack = <<>> \/ Top(m).at \notin {"prefinish", "finish", "endWritable"}
    PROVE  Ready(m)
    BY DEF Settled, Ready, OpenEnd

LEMMA SettledOut ==
    ASSUME NEW m, Settled(m), m.stack = <<>> \/ ~InWrite(Top(m)) PROVE Sound(m) /\ Out(m)
    BY DEF Settled, In

LEMMA SettledIn ==
    ASSUME NEW m, Settled(m), m.stack # <<>>, InWrite(Top(m)) PROVE Sound(m) /\ Closed(m) /\ In(m)
<1>1. Len(m.stack) \in 1 .. Len(m.stack)
    BY PopFrames DEF Settled, Sound, Typed
<1>2. ~Out(m)
    BY <1>1 DEF Out, Waits, NoWrite, Top
<1> QED
    BY <1>2 DEF Settled, OpenEnd, InWrite

LEMMA PopOpen ==
    ASSUME NEW m, Settled(m), m.stack # <<>>, Top(m).at \in {"prefinish", "finish"}, ~Closed(m)
    PROVE  Pop(m).stack # <<>> /\ Top(Pop(m)).at = "endWritable"
<1> DEFINE p == Pop(m)
<1>1. Len(m.stack) > 1 /\ m.stack[Len(m.stack) - 1].at = "endWritable"
    BY DEF Settled, OpenEnd
<1>2. /\ Len(m.stack) \in Nat \ {0} /\ Len(p.stack) = Len(m.stack) - 1
      /\ \A i \in 1 .. Len(m.stack) - 1 : p.stack[i] = m.stack[i]
    BY PopFrames DEF Settled, Sound, Typed
<1> HIDE DEF p
<1>3. Len(m.stack) - 1 \in 1 .. Len(m.stack) - 1
    BY <1>1, <1>2
<1>4. p.stack[Len(p.stack)].at = "endWritable"
    BY <1>1, <1>2, <1>3
<1>5. ASSUME p.stack = <<>> PROVE FALSE
  <2>1. Len(p.stack) = 0
      BY <1>5, EmptySeq, Zenon
  <2> DEFINE l == Len(m.stack)
             k == Len(p.stack)
  <2>2. l \in Nat /\ l > 1 /\ k = l - 1 /\ k = 0
      BY <1>1, <1>2, <2>1
  <2> HIDE DEF l, k
  <2> QED
      BY <2>2
<1> QED
    BY <1>4, <1>5 DEF Top, p

LEMMA FinishReturnsSettled ==
    ASSUME NEW m, Settled(m), m.stack # <<>>, Top(m).at \in {"prefinish", "finish"}
    PROVE  /\ Settled(Pop(m))
           /\ Top(m).at = "prefinish" => Settled(EmitFinish(Pop(m)))
<1> DEFINE p == Pop(m)
<1>1. Sound(m) /\ Out(m)
    BY SettledOut DEF InWrite
<1>2. Sound(p) /\ Out(p) /\ (Closed(p) <=> Closed(m)) /\ p.state = m.state
    BY <1>1, PopSound
<1>3. ~Closed(m) => p.stack # <<>> /\ Top(p).at = "endWritable"
    BY PopOpen
<1> HIDE DEF p
<1>4. Settled(p)
    BY <1>2, <1>3 DEF Settled, OpenEnd
<1>5. ASSUME Top(m).at = "prefinish" PROVE Settled(EmitFinish(p))
  <2>1. Len(m.stack) \in 1 .. Len(m.stack)
      BY <1>1, PopFrames DEF Sound, Typed
  <2>2. p.state.ending
      BY <1>1, <1>2, <1>5, <2>1 DEF Sound, Ended, Top
  <2>3. Quietly(p, EmitFinish(p)) /\ Calls(p, EmitFinish(p), {"prefinish", "finish"})
      BY <1>2, <2>2, EmitFinishQuiet DEF Sound, Typed
  <2> DEFINE r == EmitFinish(p)
  <2> HIDE DEF r
  <2>4. Sound(r) /\ Out(r) /\ (Closed(r) <=> Closed(p))
      BY <1>2, <2>3, QuietOut DEF r
  <2>5. ~Closed(m) => OpenEnd(r)
      BY <1>2, <1>3, <2>3, OpenCalls DEF Sound, Typed, r
  <2>6. OpenEnd(r)
      BY <1>2, <2>4, <2>5 DEF OpenEnd
  <2> QED
      BY <2>4, <2>6 DEF Settled, r
<1> QED
    BY <1>4, <1>5 DEF p

LEMMA UserReturnsSettled ==
    ASSUME NEW m, Settled(m), m.stack # <<>>, Top(m).at \in UserAt PROVE Settled(UserReturns(m))
<1>1. CASE Top(m).at = "_write"
  <2>1. Ready(WriteReturns(m))
      BY <1>1, SettledIn, WriteReturnsReady DEF InWrite
  <2> QED
      BY <1>1, <2>1, ReadySettled DEF UserReturns
<1>2. CASE Top(m).at = "_writev"
  <2>1. Ready(WritevReturns(m))
      BY <1>2, SettledIn, WritevReturnsReady DEF InWrite
  <2> QED
      BY <1>2, <2>1, ReadySettled DEF UserReturns
<1>3. CASE Top(m).at \in {"prefinish", "finish"}
    BY <1>3, FinishReturnsSettled DEF UserReturns
<1>4. CASE Top(m).at \in {"event", "cb", "drain", "error"}
  <2> DEFINE p == Pop(m)
             f == Top(m)
  <2>1. Sound(m) /\ Out(m) /\ Closed(m)
      BY <1>4, SettledOut, SettledReady DEF InWrite, Ready
  <2>2. Sound(p) /\ Closed(p) /\ Out(p) /\ Shaped(p)
      BY <2>1, PopSound DEF Sound, Typed
  <2>3. \/ \E ids, ok, then : UserReturns(m) = CallCb(p, ids, ok, then)
        \/ \E cb : UserReturns(m) = RunCb(p, cb, TRUE, "finishMaybe")
        \/ UserReturns(m) \in {FinishMaybe(p), Push(p, Frame("error")), p, NextTick(p, Tick("rejected"))}
      BY <1>4 DEF UserReturns, CbReturns, ErrorReturns
  <2> HIDE DEF p, f
  <2>4. Frame("error").at = "error"
      BY DEF Frame
  <2>5. /\ \A ids, ok, then : Quietly(p, CallCb(p, ids, ok, then))
        /\ \A cb : Quietly(p, RunCb(p, cb, TRUE, "finishMaybe"))
        /\ Quietly(p, FinishMaybe(p)) /\ Quietly(p, Push(p, Frame("error"))) /\ Quietly(p, p)
      BY <2>2, <2>4, CallCbQuiet, RunCbQuiet, FinishMaybeQuiet, PushQuiet, QuietSelf
  <2>6. Quietly(p, NextTick(p, Tick("rejected")))
      BY <2>2, NextTickUnmoved DEF Unmoved, Quietly, Calls
  <2>7. Quietly(p, UserReturns(m))
      BY <2>3, <2>5, <2>6
  <2> QED
      BY <2>2, <2>7, QuietReady, ReadySettled
<1> QED
    BY <1>1, <1>2, <1>3, <1>4 DEF UserAt

LEMMA LibResumesSettled ==
    ASSUME NEW m, Settled(m), m.stack # <<>>, Top(m).at \in LibAt PROVE Settled(LibResumes(m))
<1> DEFINE p == Pop(m)
           f == Top(m)
<1>1. Sound(m) /\ Out(m)
    BY SettledOut DEF LibAt, InWrite
<1>2. Sound(p) /\ Out(p) /\ (Closed(p) <=> Closed(m)) /\ p.state = m.state /\ Shaped(p)
    BY <1>1, PopSound DEF Sound, Typed
<1>3. CASE f.at = "onwrite"
  <2>1. LibResumes(m) = OnwriteReturn(p, f.sync, f.fin, f.cb)
      BY <1>3 DEF LibResumes
  <2>2. Closed(p)
      BY <1>2, <1>3, SettledReady DEF Ready
  <2> HIDE DEF p, f
  <2>3. Quietly(p, OnwriteReturn(p, f.sync, f.fin, f.cb))
      BY <1>2, OnwriteReturnQuiet
  <2> QED
      BY <1>2, <2>1, <2>2, <2>3, QuietReady, ReadySettled
<1>4. CASE f.at \in {"end", "endUncork"}
  <2>1. LibResumes(m) \in {EndUncork(p, f.hasCb), EndWritable(p, f.hasCb)}
      BY <1>4 DEF LibResumes
  <2>2. Closed(p)
      BY <1>2, <1>4, SettledReady DEF Ready
  <2> HIDE DEF p, f
  <2> QED
      BY <1>2, <2>1, <2>2, EndUncorkSettled, EndWritableSettled
<1>5. CASE f.at = "endWritable"
  <2>1. LibResumes(m) = EndReturn(p, f.hasCb)
      BY <1>5 DEF LibResumes
  <2>2. Len(m.stack) \in 1 .. Len(m.stack)
      BY <1>1, PopFrames DEF Sound, Typed
  <2>3. p.state.ending
      BY <1>1, <1>2, <1>5, <2>2 DEF Sound, Ended, Top
  <2> HIDE DEF p, f
  <2> QED
      BY <1>2, <2>1, <2>3, EndReturnReady, ReadySettled
<1> QED
    BY <1>3, <1>4, <1>5 DEF LibAt

LEMMA RunTickReady ==
    ASSUME NEW m, m \in Machine, Settled(m), m.stack = <<>>, m.ticks # <<>> PROVE Ready(RunTick(m))
<1> DEFINE t == Head(m.ticks)
           p == [m EXCEPT !.ticks = Tail(@)]
           o == [p.obs EXCEPT !.endcb = "called"]
           n == With(p, p.state, o)
<1>1. Sound(m) /\ Out(m) /\ Closed(m) /\ Shaped(m)
    BY SettledOut, SettledReady DEF Ready, Sound, Typed
<1>2. t \in Ticks /\ Tail(m.ticks) \in Seq(Ticks)
    BY HeadTailProperties DEF Machine
<1>3. t.run \in {"afterWrite", "error", "rejected", "endcb"}
    BY <1>2 DEF Ticks, TickFields
<1>4. Shaped(p) /\ p.state = m.state /\ p.obs = m.obs /\ p.stack = m.stack
    BY <1>1, <1>2 DEF Shaped, Has, IsSeq
<1>5. Has(o, ObsNames) /\ o.acc = m.obs.acc /\ o.sent = m.obs.sent
    BY <1>4 DEF Shaped, Has, ObsNames
<1>6. RunTick(m) \in {AfterWrite(p, t.fin, t.cb), RunCb(p, t.cb, FALSE, "return"), Push(p, Frame("cb")),
                      Push(n, Frame("cb"))}
    BY <1>3 DEF RunTick, WithObs
<1> HIDE DEF p, t, o
<1>7. Sound(p) /\ Out(p) /\ Closed(p)
    BY <1>1, <1>4 DEF Sound, Typed, Ended, Closed, NoWrite, Rest, Waits, Out
<1>8. Shaped(n) /\ n.state = p.state /\ n.obs = o /\ n.stack = p.stack
    BY <1>4, <1>5, WithParts DEF Shaped
<1> HIDE DEF n
<1>9. Sound(n) /\ Out(n) /\ Closed(n)
    BY <1>1, <1>4, <1>5, <1>8 DEF Sound, Typed, Ended, Closed, NoWrite, Rest, Waits, Out
<1>10. Frame("cb").at = "cb"
    BY DEF Frame
<1>11. /\ Quietly(p, AfterWrite(p, t.fin, t.cb)) /\ Quietly(p, RunCb(p, t.cb, FALSE, "return"))
       /\ Quietly(p, Push(p, Frame("cb"))) /\ Quietly(n, Push(n, Frame("cb")))
    BY <1>4, <1>8, <1>10, AfterWriteQuiet, RunCbQuiet, PushQuiet
<1>12. /\ Ready(AfterWrite(p, t.fin, t.cb)) /\ Ready(RunCb(p, t.cb, FALSE, "return"))
       /\ Ready(Push(p, Frame("cb"))) /\ Ready(Push(n, Frame("cb")))
    BY <1>7, <1>9, <1>11, QuietReady
<1> QED
    BY <1>6, <1>12

LEMMA BecomeSettled == ASSUME NEW m, Become(m), Settled(m) PROVE Settled(Now')
    BY BecomeShaped DEF Settled, Sound, Typed

LEMMA InitSettled == ASSUME Init PROVE Settled(Now)
<1>1. /\ Now.state.buffer = <<>> /\ Now.obs.sent = <<>> /\ Now.obs.acc = 0 /\ Now.stack = <<>>
      /\ Now.state.corked = 0 /\ ~Now.state.bufferProcessing
      /\ ~Now.state.ending /\ ~Now.state.ended /\ ~Now.state.finished
    BY DEF Init, Now
<1>2. Shaped(Now)
    BY InitInv, MachineShaped DEF Inv, Good
<1>3. <<>> \in Seq(Chunk) /\ <<>> \in Seq(Nat) /\ Len(<<>>) = 0
    BY EmptySeq
<1>4. \A k \in 1 .. Len(<<>>) : FALSE
    BY <1>3
<1>5. Typed(Now)
    BY <1>1, <1>2, <1>3 DEF Typed
<1>6. Rest(Now, 0)
  <2>1. Len(Now.obs.sent) = 0 /\ Len(Now.state.buffer) = 0
      BY <1>1, <1>3
  <2>2. 0 + 0 = 0 /\ 1 .. 0 = {}
      OBVIOUS
  <2>3. Now.state.buffer \in Seq(Chunk) /\ Now.obs.sent \in Seq(Nat)
      BY <1>5 DEF Typed
  <2> QED
      BY <1>1, <2>1, <2>2, <2>3, RestAll
<1>7. Ended(Now) /\ NoWrite(Now) /\ OpenEnd(Now)
    BY <1>1, <1>4 DEF Ended, NoWrite, OpenEnd, Closed
<1> QED
    BY <1>1, <1>5, <1>6, <1>7 DEF Settled, Sound, Out, Waits

LEMMA StepOrdered ==
    ASSUME Calm, Inv(Now), Ordered(Now), [Next]_vars PROVE Ordered(Now')
<1> SUFFICES ASSUME ~Now'.obs.errored PROVE Settled(Now')
    BY DEF Ordered
<1>1. Kept(Now, Now')
    BY StepKept
<1>2. Settled(Now) /\ Shaped(Now)
    BY <1>1 DEF Ordered, Kept, Settled, Sound, Typed
<1>3. Now \in Machine /\ Now.state = state /\ Now.obs = obs /\ Now.stack = stack /\ Now.ticks = ticks
    BY DEF Inv, Good, Now
<1>4. ASSUME Running(ApiFrames)
      PROVE  Sound(Now) /\ Out(Now) /\ Closed(Now)
  <2>1. Now.stack # <<>> /\ Top(Now).at \in {"event", "cb", "drain", "error"}
      BY <1>3, <1>4 DEF Running, Calm
  <2> QED
      BY <1>2, <2>1, SettledOut, SettledReady DEF Ready, InWrite
<1>5. ASSUME NEW m, Become(m), Ready(m) PROVE Settled(Now')
    BY <1>5, ReadySettled, BecomeSettled
<1>6. CASE Write
  <2>1. PICK len \in Sizes : Become(WriteOrBuffer(Now, len))
      BY <1>6 DEF Write
  <2>2. len \in Nat /\ ~Now.state.ending
      BY <1>3, <1>4, <1>6, WritableAssumption DEF Write, Closed, WritableAssumption
  <2>3. Ready(WriteOrBuffer(Now, len))
      BY <1>4, <1>6, <2>2, WriteOrBufferReady DEF Write
  <2> QED
      BY <1>5, <2>1, <2>3
<1>7. CASE RejectedWrite
  <2>1. Ready(Reject(Now))
      BY <1>2, <1>4, <1>7, RejectQuiet, QuietReady DEF RejectedWrite
  <2> QED
      BY <1>5, <1>7, <2>1 DEF RejectedWrite
<1>n. CASE WriteNull
  <2>1. Become(NullWritten(Now))
      BY <1>n DEF WriteNull, NullWritten, Now
  <2>2. Ready(NullWritten(Now))
      BY <1>2, <1>4, <1>n, NullUnmoved, QuietReady DEF WriteNull
  <2> QED
      BY <1>5, <2>1, <2>2
<1>8. CASE Cork
  <2> DEFINE s == [state EXCEPT !.corked = @ + 1]
             n == With(Now, s, obs)
  <2>1. Sound(Now) /\ Out(Now) /\ Closed(Now) /\ Become(n)
      BY <1>3, <1>4, <1>8 DEF Cork, WithState
  <2>2. /\ Has(s, StateNames) /\ s.buffer = state.buffer /\ s.bufferProcessing = state.bufferProcessing
        /\ s.ending = state.ending /\ s.ended = state.ended /\ s.finished = state.finished
        /\ s.corked \in Nat /\ s.corked > 0
    <3>1. Has(state, StateNames) /\ state.corked \in Nat
        BY <1>2, <1>3, <2>1 DEF Sound, Typed, Shaped
    <3>2. s.corked = state.corked + 1 /\ Has(s, StateNames)
        BY <3>1 DEF Has, StateNames
    <3>3. /\ s.buffer = state.buffer /\ s.bufferProcessing = state.bufferProcessing
          /\ s.ending = state.ending /\ s.ended = state.ended /\ s.finished = state.finished
        BY <3>1 DEF Has, StateNames
    <3> HIDE DEF s
    <3> QED
        BY <3>1, <3>2, <3>3
  <2> HIDE DEF s
  <2>3. Shaped(n) /\ n.state = s /\ n.obs = obs /\ n.stack = stack
      BY <1>2, <1>3, <2>2, WithParts DEF Shaped
  <2> HIDE DEF n
  <2>4. Ready(n)
      BY <1>3, <2>1, <2>2, <2>3 DEF Ready, Sound, Typed, Ended, Closed, NoWrite, Rest, Waits, Out
  <2> QED
      BY <1>5, <2>1, <2>4
<1>9. CASE Uncork
  <2>1. state.corked - 1 \in Nat
      BY <1>3, <1>4, <1>9 DEF Uncork, Sound, Typed
  <2>2. Ready(UncorkTo(Now, state.corked - 1))
      BY <1>4, <1>9, <2>1, UncorkToReady DEF Uncork
  <2> QED
      BY <1>5, <1>9, <2>2 DEF Uncork
<1>10. CASE End
    BY <1>4, <1>10, EndUncorkSettled, BecomeSettled DEF End
<1>11. CASE EndWithChunk
  <2>1. PICK len \in Sizes, hasCb \in BOOLEAN : Become(EndChunk(Now, len, hasCb))
      BY <1>11 DEF EndWithChunk
  <2>2. len \in Nat
      BY WritableAssumption DEF WritableAssumption
  <2>3. Ready(EndChunk(Now, len, hasCb))
      BY <1>4, <1>11, <2>2, EndChunkReady DEF EndWithChunk
  <2> QED
      BY <1>5, <2>1, <2>3
<1>12. CASE WriteDone
  <2>1. PICK ok \in Outcomes : Become(Onwrite(Now, ok))
      BY <1>12 DEF WriteDone
  <2>2. ok \in BOOLEAN
      BY WritableAssumption DEF WritableAssumption
  <2>3. ok # FALSE
    <3>1. Kept(Now, Onwrite(Now, ok)) /\ (ok = FALSE => Onwrite(Now, ok).obs.errored)
        BY <1>2, OnwriteKept
    <3>2. Now' = Onwrite(Now, ok)
        BY <2>1, <3>1, BecomeShaped DEF Kept
    <3> QED
        BY <3>1, <3>2
  <2>4. Ready(Now)
    <3>1. Now.stack # <<>> /\ Top(Now).at \in {"event", "cb", "drain", "error", "_write", "_writev"}
        BY <1>3, <1>12 DEF WriteDone, Running, Calm
    <3> QED
        BY <1>2, <3>1, SettledReady
  <2>5. Ready(Onwrite(Now, ok))
      BY <2>2, <2>3, <2>4, OnwriteReady
  <2> QED
      BY <1>5, <2>1, <2>5
<1>13. CASE Return
    BY <1>2, <1>3, <1>13, UserReturnsSettled, BecomeSettled DEF Return, Running
<1>14. CASE Resume
    BY <1>2, <1>3, <1>14, LibResumesSettled, BecomeSettled DEF Resume, Running
<1>15. CASE ProcessTick
  <2>1. Ready(RunTick(Now))
      BY <1>2, <1>3, <1>15, RunTickReady DEF ProcessTick
  <2> QED
      BY <1>5, <1>15, <2>1 DEF ProcessTick
<1>16. CASE NewEvent
  <2> DEFINE n == Push(Now, Frame("event"))
  <2>1. Sound(Now) /\ Out(Now) /\ Closed(Now)
      BY <1>2, <1>3, <1>16, SettledOut, SettledReady DEF NewEvent, Ready
  <2>2. Frame("event").at = "event" /\ ~InWrite(Frame("event"))
      BY DEF Frame, InWrite
  <2>3. Ready(n)
      BY <2>1, <2>2, PushOut DEF Ready, Out
  <2> HIDE DEF n
  <2>4. Become(n)
      BY <1>16 DEF NewEvent, n
  <2> QED
      BY <1>5, <2>3, <2>4
<1>17. CASE UNCHANGED vars
  <2>1. Now' = Now
      BY <1>17 DEF vars, Now
  <2> QED
      BY <1>2, <2>1
<1> QED
    BY <1>6, <1>7, <1>n, <1>8, <1>9, <1>10, <1>11, <1>12, <1>13, <1>14, <1>15, <1>16, <1>17 DEF Next

LEMMA OrderedAlways == ASSUME Calm PROVE Spec => [](WritableInv /\ Ordered(Now))
<1>1. Init => Ordered(Now)
    BY InitSettled DEF Ordered
<1>2. WritableInv /\ Ordered(Now) /\ [Next]_vars => Ordered(Now)'
  <2>1. ASSUME WritableInv, Ordered(Now), [Next]_vars PROVE Ordered(Now')
      BY <2>1, StepOrdered DEF WritableInv
  <2>2. Ordered(Now)' <=> Ordered(Now')
      OBVIOUS
  <2> QED
      BY <2>1, <2>2
<1> QED
    BY <1>1, <1>2, InvAlways, PTL DEF Spec

(* Listeners, write callbacks and events may write, cork, uncork and end   *)
(* at any time: without a write error every chunk reaches _write() or      *)
(* _writev() once, in the order of the calls.                              *)
THEOREM ChunksInOrder ==
    ASSUME ApiFrames \subseteq {"event", "cb", "drain", "error"} PROVE Spec => []InOrder
<1>1. WritableInv /\ Ordered(Now) => InOrder
  <2> SUFFICES ASSUME Ordered(Now), ~obs.errored, NEW i \in DOMAIN obs.sent PROVE obs.sent[i] = i
      BY DEF InOrder
  <2>1. Typed(Now) /\ \E d : Rest(Now, d)
      BY DEF Ordered, Settled, Sound, Out, Waits, In, Now
  <2>2. obs.sent \in Seq(Nat) /\ \A k \in 1 .. Len(obs.sent) : obs.sent[k] = k
      BY <2>1 DEF Typed, Rest, Now
  <2> QED
      BY <2>2
<1> QED
    BY <1>1, OrderedAlways, PTL DEF Calm

(* For the same streams: whoever wrote has the result of its write()       *)
(* before a callback, 'drain' or 'finish' tells it of the outcome.         *)
THEOREM ResultBeforeOutcome ==
    ASSUME ApiFrames \subseteq {"event", "cb", "drain", "error"} PROVE Spec => []NoCallbackInsideWrite
<1>1. WritableInv /\ Ordered(Now) => NoCallbackInsideWrite
  <2> SUFFICES ASSUME Ordered(Now), ~obs.errored, NEW i \in DOMAIN stack, stack[i].at \in {"_write", "_writev"},
                      NEW j \in i + 1 .. Len(stack)
               PROVE  FALSE
      BY DEF NoCallbackInsideWrite
  <2>1. Settled(Now) /\ Now.stack = stack
      BY DEF Ordered, Now
  <2>2. Len(stack) \in Nat /\ DOMAIN stack = 1 .. Len(stack)
      BY <2>1 DEF Settled, Sound, Typed, Shaped, IsSeq
  <2>3. i = Len(stack)
      BY <2>1, <2>2 DEF Settled, Out, Waits, NoWrite, In, InWrite
  <2> QED
      BY <2>2, <2>3
<1> QED
    BY <1>1, OrderedAlways, PTL DEF Calm

-----------------------------------------------------------------------------
(* Where the callback of a write() is.  Without _writev() it is in one     *)
(* place at any time, wherever the program calls the stream from and       *)
(* whatever fails: with the chunk in the buffer, with the write in flight, *)
(* on the tick queue, in a frame that will call it, or called; and within  *)
(* a function of the library in its hand.                                  *)

Places == {"queue", "flight", "tick", "frame", "called", "hand"}

(* Each of 1 .. n has one place.                                           *)
Partition(b, n) ==
    /\ \A id \in 1 .. n : \E k \in Places : id \in b[k]
    /\ \A k \in Places : \A id \in b[k] : id \in 1 .. n
    /\ \A k, l \in Places : \A id \in b[k] : id \in b[l] => k = l

(* One of them goes to another place.                                      *)
Moves(b, c, k, l, x) ==
    \A p \in Places : \A id :
      id \in c[p] <=> (id \in b[p] /\ ~(p = k /\ id = x)) \/ (p = l /\ id = x)

(* The callbacks still have one place each.                                *)
LEMMA Moved ==
    ASSUME NEW b, NEW c, NEW n, Partition(b, n), NEW k \in Places, NEW l \in Places, NEW x \in b[k],
           k # l, Moves(b, c, k, l, x)
    PROVE  Partition(c, n)
<1>1. ASSUME NEW id \in 1 .. n PROVE \E p \in Places : id \in c[p]
  <2>1. PICK p \in Places : id \in b[p]
      BY DEF Partition
  <2> QED
      BY <2>1 DEF Moves
<1>2. ASSUME NEW p \in Places, NEW id \in c[p] PROVE id \in 1 .. n
    BY <1>2 DEF Partition, Moves
<1>3. ASSUME NEW p \in Places, NEW q \in Places, NEW id \in c[p], id \in c[q] PROVE p = q
  <2>1. \A r \in Places : x \in b[r] => r = k
      BY DEF Partition
  <2>2. CASE id = x
      BY <1>3, <2>1, <2>2 DEF Moves
  <2>3. CASE id # x
      BY <1>3, <2>3 DEF Moves, Partition
  <2> QED
      BY <2>2, <2>3
<1> QED
    BY <1>1, <1>2, <1>3 DEF Partition

(* One more is given a place.                                              *)
LEMMA Added ==
    ASSUME NEW b, NEW c, NEW n \in Nat, Partition(b, n), NEW l \in Places,
           \A p \in Places : \A id : id \in c[p] <=> id \in b[p] \/ (p = l /\ id = n + 1)
    PROVE  Partition(c, n + 1)
<1>1. \A id : id \in 1 .. n + 1 <=> id \in 1 .. n \/ id = n + 1
    OBVIOUS
<1>2. n + 1 \notin 1 .. n
    OBVIOUS
<1>3. \A p \in Places : n + 1 \notin b[p]
    BY <1>2 DEF Partition
<1> DEFINE x == n + 1
<1>4. \A p \in Places : \A id : id \in c[p] <=> id \in b[p] \/ (p = l /\ id = x)
    OBVIOUS
<1> HIDE DEF x
<1>5. ASSUME NEW id \in 1 .. n + 1 PROVE \E p \in Places : id \in c[p]
    BY <1>1, <1>4 DEF Partition, x
<1>6. ASSUME NEW p \in Places, NEW id \in c[p] PROVE id \in 1 .. n + 1
    BY <1>1, <1>4, <1>6 DEF Partition, x
<1>7. ASSUME NEW p \in Places, NEW q \in Places, NEW id \in c[p], id \in c[q] PROVE p = q
  <2>1. CASE id = x
      BY <1>3, <1>4, <1>7, <2>1 DEF x
  <2>2. CASE id # x
      BY <1>4, <1>7, <2>2 DEF Partition
  <2> QED
      BY <2>1, <2>2
<1> QED
    BY <1>5, <1>6, <1>7 DEF Partition

(* What the frames of a stack or the ticks of a queue owe: those whose     *)
(* field key has one of some names.                                        *)
Single(cb) == \E id : cb = Cb1(id)
Debts(q, key, names) == {q[i].cb.ids[1] : i \in {k \in 1 .. Len(q) : q[k][key] \in names}}
Owed(q, key, names) ==
    /\ IsSeq(q)
    /\ \A i \in 1 .. Len(q) : q[i][key] \in names => Single(q[i].cb)
    /\ \A i, j \in 1 .. Len(q) :
         q[i][key] \in names /\ q[j][key] \in names /\ q[i].cb.ids[1] = q[j].cb.ids[1] => i = j

(* One more frame or tick, ...                                             *)
LEMMA DebtAdded ==
    ASSUME NEW q, NEW key, NEW names, Owed(q, key, names), NEW e,
           e[key] \in names => Single(e.cb) /\ e.cb.ids[1] \notin Debts(q, key, names)
    PROVE  /\ Owed(Append(q, e), key, names)
           /\ \A id : id \in Debts(Append(q, e), key, names) <=>
                        id \in Debts(q, key, names) \/ (e[key] \in names /\ id = e.cb.ids[1])
<1> DEFINE r == Append(q, e)
           l == Len(q)
<1>1. /\ IsSeq(r) /\ Len(r) = l + 1 /\ l \in Nat /\ r[l + 1] = e
      /\ \A i \in 1 .. l : r[i] = q[i]
    BY AppendAny DEF Owed
<1>2. /\ \A i \in 1 .. l : i \in 1 .. Len(r) /\ i # l + 1
      /\ \A i \in 1 .. Len(r) : i \in 1 .. l \/ i = l + 1
      /\ l + 1 \in 1 .. Len(r)
    BY <1>1
<1> DEFINE t == l + 1
<1>3. /\ IsSeq(r) /\ r[t] = e /\ t \in 1 .. Len(r) /\ \A i \in 1 .. l : r[i] = q[i]
      /\ \A i \in 1 .. l : i \in 1 .. Len(r) /\ i # t
      /\ \A i \in 1 .. Len(r) : i \in 1 .. l \/ i = t
    BY <1>1, <1>2
<1> HIDE DEF r, t
<1>4. \A id : id \in Debts(r, key, names) <=> \E i \in 1 .. Len(r) : r[i][key] \in names /\ id = r[i].cb.ids[1]
    BY DEF Debts
<1>5. \A id : id \in Debts(q, key, names) <=> \E i \in 1 .. l : q[i][key] \in names /\ id = q[i].cb.ids[1]
    BY DEF Debts
<1>6. \A id : id \in Debts(r, key, names) <=> id \in Debts(q, key, names) \/ (e[key] \in names /\ id = e.cb.ids[1])
    BY <1>3, <1>4, <1>5
<1>7. \A i \in 1 .. Len(r) : r[i][key] \in names => Single(r[i].cb)
    BY <1>3 DEF Owed
<1>8. ASSUME NEW i \in 1 .. Len(r), NEW j \in 1 .. Len(r), r[i][key] \in names, r[j][key] \in names,
             r[i].cb.ids[1] = r[j].cb.ids[1]
      PROVE  i = j
  <2>1. CASE i \in 1 .. l /\ j \in 1 .. l
      BY <1>3, <1>8, <2>1 DEF Owed
  <2>2. CASE (i = t /\ j \in 1 .. l) \/ (j = t /\ i \in 1 .. l)
      BY <1>3, <1>5, <1>8, <2>2
  <2> QED
      BY <1>3, <2>1, <2>2
<1> QED
    BY <1>3, <1>6, <1>7, <1>8 DEF Owed, r

(* What is below the last of a sequence.                                   *)
LEMMA FrontOf ==
    ASSUME NEW q, IsSeq(q), q # <<>>
    PROVE  LET p == SubSeq(q, 1, Len(q) - 1)
           IN  /\ IsSeq(p) /\ Len(q) \in Nat \ {0} /\ Len(p) = Len(q) - 1
               /\ \A i \in 1 .. Len(q) - 1 : p[i] = q[i]
<1>1. PICK S : q \in Seq(S)
    BY DEF IsSeq
<1>2. Len(q) \in Nat \ {0}
    BY <1>1, LenProperties, EmptySeq
<1> DEFINE l == Len(q)
           n == l - 1
           p == SubSeq(q, 1, n)
<1>3. Len(p) = n /\ \A i \in 1 .. n : p[i] = q[i]
  <2>1. n \in Nat /\ n \in 0 .. Len(q) /\ 1 \in 1 .. Len(q) + 1 /\ 1 - 1 = 0
      BY <1>2
  <2> HIDE DEF n
  <2>2. Len(p) = n - 1 + 1 /\ \A i \in 1 .. n - 1 + 1 : p[i] = q[1 + i - 1]
      BY <1>1, <2>1, SubSeqProperties
  <2>3. n - 1 + 1 = n /\ \A i \in 1 .. n : 1 + i - 1 = i
      BY <2>1
  <2> HIDE DEF p
  <2> QED
      BY <2>2, <2>3
<1>4. SubSeq(q, 1, Len(q) - 1) \in Seq(S)
    BY <1>1
<1> QED
    BY <1>2, <1>3, <1>4 DEF IsSeq

(* ... the last one gone, ...                                              *)
LEMMA LastDebt ==
    ASSUME NEW q, NEW key, NEW names, Owed(q, key, names), q # <<>>
    PROVE  LET p == SubSeq(q, 1, Len(q) - 1)
               e == q[Len(q)]
           IN  /\ Owed(p, key, names)
               /\ \A id : id \in Debts(p, key, names) <=>
                            id \in Debts(q, key, names) /\ ~(e[key] \in names /\ id = e.cb.ids[1])
               /\ e[key] \in names => Single(e.cb) /\ e.cb.ids[1] \in Debts(q, key, names)
<1> DEFINE p == SubSeq(q, 1, Len(q) - 1)
           l == Len(q)
           e == q[l]
<1>1. IsSeq(p) /\ l \in Nat \ {0} /\ Len(p) = l - 1 /\ \A i \in 1 .. l - 1 : p[i] = q[i]
    BY FrontOf DEF Owed
<1>4. /\ IsSeq(p) /\ l \in 1 .. l /\ \A i \in 1 .. Len(p) : i \in 1 .. l /\ i # l /\ p[i] = q[i]
      /\ \A i \in 1 .. l : i \in 1 .. Len(p) \/ i = l
  <2>3. /\ l \in 1 .. l /\ \A i \in 1 .. l - 1 : i \in 1 .. l /\ i # l
        /\ \A i \in 1 .. l : i \in 1 .. l - 1 \/ i = l
      BY <1>1
  <2> HIDE DEF p, l
  <2> QED
      BY <1>1, <2>3
<1> HIDE DEF p
<1>5. \A id : id \in Debts(p, key, names) <=> \E i \in 1 .. Len(p) : p[i][key] \in names /\ id = p[i].cb.ids[1]
    BY DEF Debts
<1>6. \A id : id \in Debts(q, key, names) <=> \E i \in 1 .. l : q[i][key] \in names /\ id = q[i].cb.ids[1]
    BY DEF Debts
<1> HIDE DEF l
<1>7. /\ \A i \in 1 .. l : q[i][key] \in names => Single(q[i].cb)
      /\ \A i, j \in 1 .. l :
           q[i][key] \in names /\ q[j][key] \in names /\ q[i].cb.ids[1] = q[j].cb.ids[1] => i = j
    BY DEF Owed, l
<1>8. Owed(p, key, names)
    BY <1>4, <1>7 DEF Owed
<1>9. ASSUME NEW id
      PROVE  id \in Debts(p, key, names) <=>
               id \in Debts(q, key, names) /\ ~(e[key] \in names /\ id = e.cb.ids[1])
    BY <1>4, <1>5, <1>6, <1>7
<1>10. e[key] \in names => Single(e.cb) /\ e.cb.ids[1] \in Debts(q, key, names)
    BY <1>4, <1>6, <1>7
<1> QED
    BY <1>8, <1>9, <1>10 DEF p, l

(* ... or the first.                                                       *)
LEMMA FirstDebt ==
    ASSUME NEW q, NEW key, NEW names, Owed(q, key, names), q # <<>>
    PROVE  LET p == Tail(q)
               e == Head(q)
           IN  /\ Owed(p, key, names)
               /\ \A id : id \in Debts(p, key, names) <=>
                            id \in Debts(q, key, names) /\ ~(e[key] \in names /\ id = e.cb.ids[1])
               /\ e[key] \in names => Single(e.cb) /\ e.cb.ids[1] \in Debts(q, key, names)
<1> DEFINE p == Tail(q)
           l == Len(q)
           e == Head(q)
<1>1. PICK S : q \in Seq(S)
    BY DEF Owed, IsSeq
<1>2. l \in Nat \ {0}
    BY <1>1, LenProperties, EmptySeq
<1>3. p \in Seq(S) /\ Len(p) = l - 1 /\ e = q[1] /\ \A i \in 1 .. l - 1 : p[i] = q[i + 1]
    BY <1>1, <1>2
<1>4. /\ IsSeq(p) /\ 1 \in 1 .. l
      /\ \A i \in 1 .. Len(p) : i + 1 \in 1 .. l /\ i + 1 # 1 /\ p[i] = q[i + 1]
      /\ \A i \in 1 .. l : i = 1 \/ \E j \in 1 .. Len(p) : i = j + 1
  <2>1. \A i \in 1 .. l : i = 1 \/ (i - 1 \in 1 .. l - 1 /\ i = i - 1 + 1)
      BY <1>2
  <2> QED
      BY <1>2, <1>3, <2>1 DEF IsSeq
<1>5. \A i, j \in 1 .. Len(p) : i + 1 = j + 1 => i = j
    OBVIOUS
<1> HIDE DEF p, e
<1>6. \A id : id \in Debts(p, key, names) <=> \E i \in 1 .. Len(p) : p[i][key] \in names /\ id = p[i].cb.ids[1]
    BY DEF Debts
<1>7. \A id : id \in Debts(q, key, names) <=> \E i \in 1 .. l : q[i][key] \in names /\ id = q[i].cb.ids[1]
    BY DEF Debts
<1> HIDE DEF l
<1>8. /\ \A i \in 1 .. l : q[i][key] \in names => Single(q[i].cb)
      /\ \A i, j \in 1 .. l :
           q[i][key] \in names /\ q[j][key] \in names /\ q[i].cb.ids[1] = q[j].cb.ids[1] => i = j
    BY DEF Owed, l
<1>9. Owed(p, key, names)
  <2>1. \A i \in 1 .. Len(p) : p[i][key] \in names => Single(p[i].cb)
      BY <1>4, <1>8
  <2>2. ASSUME NEW i \in 1 .. Len(p), NEW j \in 1 .. Len(p), p[i][key] \in names, p[j][key] \in names,
               p[i].cb.ids[1] = p[j].cb.ids[1]
        PROVE  i = j
    <3>1. i + 1 = j + 1
        BY <1>4, <1>8, <2>2
    <3> QED
        BY <1>5, <3>1
  <2> QED
      BY <1>4, <2>1, <2>2 DEF Owed
<1>10. ASSUME NEW id
       PROVE  id \in Debts(p, key, names) <=>
                id \in Debts(q, key, names) /\ ~(e[key] \in names /\ id = e.cb.ids[1])
  <2>1. ASSUME id \in Debts(p, key, names) PROVE id \in Debts(q, key, names)
      BY <1>4, <1>6, <1>7, <2>1
  <2>2. ASSUME id \in Debts(p, key, names), e[key] \in names, id = e.cb.ids[1] PROVE FALSE
    <3>1. PICK i \in 1 .. Len(p) : p[i][key] \in names /\ id = p[i].cb.ids[1]
        BY <1>6, <2>2
    <3>2. i + 1 = 1
        BY <1>3, <1>4, <1>8, <2>2, <3>1
    <3> QED
        BY <1>4, <3>2
  <2>3. ASSUME id \in Debts(q, key, names), ~(e[key] \in names /\ id = e.cb.ids[1])
        PROVE  id \in Debts(p, key, names)
    <3>1. PICK i \in 1 .. l : q[i][key] \in names /\ id = q[i].cb.ids[1]
        BY <1>7, <2>3
    <3>2. PICK j \in 1 .. Len(p) : i = j + 1
        BY <1>3, <1>4, <2>3, <3>1
    <3> QED
        BY <1>4, <1>6, <3>1, <3>2
  <2> QED
      BY <2>1, <2>2, <2>3
<1>11. e[key] \in names => Single(e.cb) /\ e.cb.ids[1] \in Debts(q, key, names)
    BY <1>3, <1>4, <1>7, <1>8
<1> QED
    BY <1>9, <1>10, <1>11 DEF p, e

(* The same places under other names.                                      *)
LEMMA Unmoving ==
    ASSUME NEW b, NEW c, NEW n, Partition(b, n), \A p \in Places : \A id : id \in c[p] <=> id \in b[p]
    PROVE  Partition(c, n)
    BY DEF Partition

OweFrames == {"onwrite", "drain"}
OweTicks  == {"afterWrite", "error"}
Queue(m, d)  == {m.state.buffer[k].id : k \in d + 1 .. Len(m.state.buffer)}
Flight(m)    == IF m.state.writing THEN {m.state.writecb.ids[1]} ELSE {}
CalledIds(m) == {m.obs.called[i].id : i \in 1 .. Len(m.obs.called)}

(* Where the callbacks are: d chunks of the buffer were sent already, and  *)
(* those of X are in the hand of the library.                              *)
Book(m, X, d) ==
    [p \in Places |-> IF p = "queue" THEN Queue(m, d)
                      ELSE IF p = "flight" THEN Flight(m)
                      ELSE IF p = "tick" THEN Debts(m.ticks, "run", OweTicks)
                      ELSE IF p = "frame" THEN Debts(m.stack, "at", OweFrames)
                      ELSE IF p = "called" THEN CalledIds(m)
                      ELSE X]

(* The length of the stream is what is in flight and in the buffer; g      *)
(* gives the length of its first k chunks.                                 *)
Lengths(s, g) ==
    /\ g \in [0 .. Len(s.buffer) -> Nat]
    /\ \A k \in 1 .. Len(s.buffer) : g[k] = g[k - 1] + s.buffer[k].len
    /\ \A i, j \in 0 .. Len(s.buffer) : i <= j => g[i] <= g[j]
Ledger(s, d) == \E g : Lengths(s, g) /\ s.length = s.writelen + (g[Len(s.buffer)] - g[d])

(* The chunks in the buffer and in flight.                                 *)
Chunks(s, d) ==
    /\ s.buffer \in Seq(Chunk) /\ d \in 0 .. Len(s.buffer)
    /\ \A k \in 1 .. Len(s.buffer) : s.buffer[k].len \in Sizes
    /\ \A i, j \in d + 1 .. Len(s.buffer) : s.buffer[i].id = s.buffer[j].id => i = j
Flying(s) == IF s.writing THEN Single(s.writecb) /\ s.writelen \in Sizes ELSE s.writelen = 0
Stored(s, d) == Chunks(s, d) /\ Flying(s) /\ Ledger(s, d)

CalledOnce(o) == /\ o.acc \in Nat /\ IsSeq(o.called)
                 /\ \A i, j \in 1 .. Len(o.called) : o.called[i].id = o.called[j].id => i = j

(* The frames of a stack: no _writev(), and at most one turn of the loop   *)
(* of clearBuffer(), the one after d chunks.                               *)
Loop(f) == f.at = "_write" /\ f.c # 0
NoLoop(q) == \A i \in 1 .. Len(q) : ~Loop(q[i])
Lawful(f, d) == /\ f.at # "_writev" /\ (Loop(f) => f.c = d)
                /\ f.at = "cb" => f.cb = NoCb \/ Single(f.cb)
AllLawful(q, d) == /\ \A i \in 1 .. Len(q) : Lawful(q[i], d)
                   /\ \A i, j \in 1 .. Len(q) : Loop(q[i]) /\ Loop(q[j]) => i = j

Books(m, X, d) ==
    /\ Shaped(m) /\ Stored(m.state, d) /\ CalledOnce(m.obs) /\ AllLawful(m.stack, d)
    /\ Owed(m.stack, "at", OweFrames) /\ Owed(m.ticks, "run", OweTicks)
    /\ Partition(Book(m, X, d), m.obs.acc)
    /\ m.state.bufferProcessing <=> d # 0
Balanced(m, X) == \E d : Books(m, X, d)

(* The stores of the stream are as they were.                              *)
SameStore(s, r) ==
    /\ r.buffer = s.buffer /\ r.length = s.length /\ r.writing = s.writing
    /\ r.writecb = s.writecb /\ r.writelen = s.writelen
SameTold(o, p) == p.acc = o.acc /\ p.called = o.called
Same(m, n) == /\ Shaped(n) /\ SameStore(m.state, n.state) /\ SameTold(m.obs, n.obs)
              /\ n.state.bufferProcessing = m.state.bufferProcessing

(* The pages of the book.                                                  *)
LEMMA BookAt ==
    ASSUME NEW m, NEW X, NEW d
    PROVE  LET b == Book(m, X, d)
           IN  /\ b["queue"] = Queue(m, d) /\ b["flight"] = Flight(m)
               /\ b["tick"] = Debts(m.ticks, "run", OweTicks)
               /\ b["frame"] = Debts(m.stack, "at", OweFrames)
               /\ b["called"] = CalledIds(m) /\ b["hand"] = X
    BY DEF Book, Places

(* The stores as before: what they hold is as before.                      *)
LEMMA SameStored ==
    ASSUME NEW m, NEW n, NEW d, SameStore(m.state, n.state)
    PROVE  /\ Stored(m.state, d) => Stored(n.state, d)
           /\ Queue(n, d) = Queue(m, d) /\ Flight(n) = Flight(m)
<1>1. Ledger(m.state, d) => Ledger(n.state, d)
    BY DEF SameStore, Ledger, Lengths
<1>2. Chunks(m.state, d) /\ Flying(m.state) => Chunks(n.state, d) /\ Flying(n.state)
    BY DEF SameStore, Chunks, Flying
<1> QED
    BY <1>1, <1>2 DEF SameStore, Stored, Queue, Flight

(* The calls as before.                                                    *)
LEMMA SameToldOnce ==
    ASSUME NEW m, NEW n, SameTold(m.obs, n.obs)
    PROVE  (CalledOnce(m.obs) => CalledOnce(n.obs)) /\ CalledIds(n) = CalledIds(m)
    BY DEF SameTold, CalledOnce, CalledIds

(* Both.                                                                   *)
LEMMA SameParts ==
    ASSUME NEW m, NEW n, NEW X, NEW d, Books(m, X, d), Same(m, n)
    PROVE  /\ Stored(n.state, d) /\ CalledOnce(n.obs) /\ n.obs.acc = m.obs.acc
           /\ Queue(n, d) = Queue(m, d) /\ Flight(n) = Flight(m) /\ CalledIds(n) = CalledIds(m)
<1>1. Stored(n.state, d) /\ Queue(n, d) = Queue(m, d) /\ Flight(n) = Flight(m)
    BY SameStored DEF Books, Same
<1>2. CalledOnce(n.obs) /\ CalledIds(n) = CalledIds(m)
    BY SameToldOnce DEF Books, Same
<1> QED
    BY <1>1, <1>2 DEF Same, SameTold

(* The books after a step of one of the pages: the other pages as before,  *)
(* and one callback moved or none.                                         *)
SamePages(b, c, pages) == \A p \in Places \ pages : \A id : id \in c[p] <=> id \in b[p]

(* A callback goes from one page to another, ...                           *)
LEMMA Turned ==
    ASSUME NEW b, NEW c, NEW n, Partition(b, n), NEW k \in Places, NEW l \in Places, k # l, NEW x,
           SamePages(b, c, {k, l}), x \in b[k],
           \A id : id \in c[k] <=> id \in b[k] /\ id # x,
           \A id : id \in c[l] <=> id \in b[l] \/ id = x
    PROVE  Partition(c, n)
<1>1. Moves(b, c, k, l, x)
    BY DEF Moves, SamePages
<1> QED
    BY <1>1, Moved

(* ... or none does.                                                       *)
LEMMA Resting ==
    ASSUME NEW b, NEW c, NEW n, Partition(b, n), SamePages(b, c, {})
    PROVE  Partition(c, n)
<1>1. \A p \in Places : \A id : id \in c[p] <=> id \in b[p]
    BY DEF SamePages
<1> QED
    BY <1>1, Unmoving

(* The conjuncts of Books.                                                 *)
LEMMA BooksParts ==
    ASSUME NEW m, NEW X, NEW d, Books(m, X, d)
    PROVE  /\ Shaped(m) /\ Stored(m.state, d) /\ CalledOnce(m.obs) /\ AllLawful(m.stack, d)
           /\ Owed(m.stack, "at", OweFrames) /\ Owed(m.ticks, "run", OweTicks)
           /\ Partition(Book(m, X, d), m.obs.acc)
           /\ m.state.bufferProcessing <=> d # 0
    BY DEF Books

(* Fields that are not looked at change.                                   *)
LEMMA SameBooks ==
    ASSUME NEW m, NEW n, NEW X, NEW d, Books(m, X, d), Same(m, n), n.stack = m.stack, n.ticks = m.ticks
    PROVE  Books(n, X, d)
<1>1. Stored(n.state, d) /\ CalledOnce(n.obs) /\ Queue(n, d) = Queue(m, d) /\ Flight(n) = Flight(m)
      /\ CalledIds(n) = CalledIds(m)
    BY SameParts
<1>2. Book(n, X, d) = Book(m, X, d)
    BY <1>1 DEF Book
<1> QED
    BY <1>1, <1>2 DEF Books, Same, SameTold

(* A frame is pushed, which may take what was in hand.                     *)
LEMMA LawfulPushed ==
    ASSUME NEW m, NEW f, NEW d, Shaped(m), AllLawful(m.stack, d), Lawful(f, d),
           Loop(f) => NoLoop(m.stack)
    PROVE  AllLawful(Append(m.stack, f), d)
<1> DEFINE q == Append(m.stack, f)
           l == Len(q)
<1>1. /\ q[l] = f
      /\ \A i \in 1 .. l : i = l \/ (i \in 1 .. Len(m.stack) /\ q[i] = m.stack[i])
  <2> DEFINE n == [m EXCEPT !.stack = q]
  <2>1. n.stack = q
      BY DEF Shaped, Has
  <2> HIDE DEF n
  <2>2. /\ n.stack[Len(n.stack)] = f
        /\ \A i \in 1 .. Len(n.stack) : i = Len(n.stack) \/ (i \in 1 .. Len(m.stack) /\ n.stack[i] = m.stack[i])
      BY <2>1, AppendFrame DEF Calling
  <2> HIDE DEF q
  <2> QED
      BY <2>1, <2>2
<1> HIDE DEF q, l
<1>2. \A i \in 1 .. Len(q) : Lawful(q[i], d)
    BY <1>1 DEF AllLawful, l
<1>3. \A i, j \in 1 .. Len(q) : Loop(q[i]) /\ Loop(q[j]) => i = j
    BY <1>1 DEF AllLawful, NoLoop, l
<1> QED
    BY <1>2, <1>3 DEF AllLawful, q

(* A frame is pushed: it may owe what was in hand.                         *)
LEMMA PushBooks ==
    ASSUME NEW m, NEW n, NEW X, NEW Y, NEW d, NEW f, Books(m, X, d), Same(m, n),
           n.stack = Append(m.stack, f), n.ticks = m.ticks,
           Lawful(f, d), Loop(f) => NoLoop(m.stack),
           IF f.at \in OweFrames THEN Single(f.cb) /\ X = {f.cb.ids[1]} /\ Y = {} ELSE Y = X
    PROVE  Books(n, Y, d)
<1> DEFINE b == Book(m, X, d)
           c == Book(n, Y, d)
<1>1. /\ Stored(n.state, d) /\ CalledOnce(n.obs)
      /\ Queue(n, d) = Queue(m, d) /\ Flight(n) = Flight(m) /\ CalledIds(n) = CalledIds(m)
    BY SameParts
<1>2. /\ b["queue"] = Queue(m, d) /\ b["flight"] = Flight(m) /\ b["tick"] = Debts(m.ticks, "run", OweTicks)
      /\ b["frame"] = Debts(m.stack, "at", OweFrames) /\ b["called"] = CalledIds(m) /\ b["hand"] = X
    BY BookAt
<1>3. /\ c["queue"] = Queue(n, d) /\ c["flight"] = Flight(n) /\ c["tick"] = Debts(n.ticks, "run", OweTicks)
      /\ c["frame"] = Debts(n.stack, "at", OweFrames) /\ c["called"] = CalledIds(n) /\ c["hand"] = Y
    BY DEF Book, Places
<1>4. Partition(b, m.obs.acc) /\ n.obs.acc = m.obs.acc
  <2>1. Partition(b, m.obs.acc)
      BY DEF Books
  <2> QED
      BY <2>1, SameParts
<1> HIDE DEF b, c
<1>5. f.at \in OweFrames => f.cb.ids[1] \notin b["frame"]
    BY <1>2, <1>4 DEF Partition, Places
<1>6. /\ Owed(n.stack, "at", OweFrames)
      /\ \A id : id \in c["frame"] <=> id \in b["frame"] \/ (f.at \in OweFrames /\ id = f.cb.ids[1])
    BY <1>2, <1>3, <1>5, DebtAdded DEF Books
<1>7. AllLawful(n.stack, d)
    BY LawfulPushed DEF Books
<1>8. SamePages(b, c, {"hand", "frame"})
    BY <1>1, <1>2, <1>3 DEF SamePages, Places
<1>9. Partition(c, m.obs.acc)
  <2>1. CASE f.at \in OweFrames
    <3> DEFINE x == f.cb.ids[1]
    <3>1. x \in b["hand"] /\ \A id : id \in c["hand"] <=> id \in b["hand"] /\ id # x
        BY <1>2, <1>3, <2>1
    <3>2. \A id : id \in c["frame"] <=> id \in b["frame"] \/ id = x
        BY <1>6, <2>1
    <3> HIDE DEF x
    <3> QED
        BY <1>4, <1>8, <3>1, <3>2, Turned DEF Places
  <2>2. CASE f.at \notin OweFrames
    <3>1. SamePages(b, c, {})
        BY <1>2, <1>3, <1>6, <1>8, <2>2 DEF SamePages, Places
    <3> QED
        BY <1>4, <3>1, Resting
  <2> QED
      BY <2>1, <2>2
<1> QED
    BY <1>1, <1>4, <1>6, <1>7, <1>9 DEF Books, Same, c

(* The innermost frame returns and hands over what it owes.                *)
LEMMA LawfulPopped ==
    ASSUME NEW m, NEW d, Shaped(m), AllLawful(m.stack, d), m.stack # <<>>
    PROVE  /\ AllLawful(Pop(m).stack, d) /\ Lawful(Top(m), d)
           /\ Loop(Top(m)) => NoLoop(Pop(m).stack)
<1> DEFINE p == Pop(m).stack
           q == m.stack
           l == Len(q)
<1>1. /\ l \in Nat \ {0} /\ Len(p) = l - 1 /\ \A i \in 1 .. l - 1 : p[i] = q[i]
    BY PopFrames
<1> HIDE DEF p
<1>2. l \in 1 .. l /\ \A i \in 1 .. Len(p) : i \in 1 .. l /\ i # l /\ p[i] = q[i]
  <2> HIDE DEF l
  <2> QED
      BY <1>1
<1> HIDE DEF l, q
<1>3. (\A i \in 1 .. l : Lawful(q[i], d)) /\ \A i, j \in 1 .. l : Loop(q[i]) /\ Loop(q[j]) => i = j
    BY DEF AllLawful, l, q
<1>4. AllLawful(p, d)
    BY <1>2, <1>3 DEF AllLawful
<1>5. Top(m) = q[l]
    BY DEF Top, l, q
<1>6. Loop(q[l]) => NoLoop(p)
    BY <1>2, <1>3 DEF NoLoop
<1> QED
    BY <1>2, <1>3, <1>4, <1>5, <1>6 DEF p

(* A frame is popped: what it owed is in hand.                             *)
LEMMA PopBooks ==
    ASSUME NEW m, NEW d, Books(m, {}, d), m.stack # <<>>
    PROVE  LET f == Top(m)
           IN  /\ f.at \in OweFrames => Single(f.cb) /\ Books(Pop(m), {f.cb.ids[1]}, d)
               /\ f.at \notin OweFrames => Books(Pop(m), {}, d)
               /\ Lawful(f, d) /\ (Loop(f) => NoLoop(Pop(m).stack))
               /\ Pop(m).state = m.state /\ Pop(m).obs = m.obs /\ Pop(m).ticks = m.ticks
<1> DEFINE f == Top(m)
           n == Pop(m)
<1>1. Shaped(m)
    BY DEF Books
<1>2. Shaped(n) /\ n.state = m.state /\ n.obs = m.obs
    BY <1>1, PopKept DEF Kept
<1>3. n.ticks = m.ticks /\ n.stack = SubSeq(m.stack, 1, Len(m.stack) - 1)
    BY <1>1 DEF Pop, Shaped, Has
<1>4. Same(m, n)
    BY <1>2 DEF Same, SameStore, SameTold
<1> HIDE DEF n
<1>5. /\ Stored(n.state, d) /\ CalledOnce(n.obs)
      /\ Queue(n, d) = Queue(m, d) /\ Flight(n) = Flight(m) /\ CalledIds(n) = CalledIds(m)
    BY <1>4, SameParts
<1>6. AllLawful(n.stack, d) /\ Lawful(f, d) /\ (Loop(f) => NoLoop(n.stack))
    BY <1>1, LawfulPopped DEF Books, n
<1>7. /\ Owed(n.stack, "at", OweFrames)
      /\ \A id : id \in Debts(n.stack, "at", OweFrames) <=>
                   id \in Debts(m.stack, "at", OweFrames) /\ ~(f.at \in OweFrames /\ id = f.cb.ids[1])
      /\ f.at \in OweFrames => Single(f.cb) /\ f.cb.ids[1] \in Debts(m.stack, "at", OweFrames)
    BY <1>3, LastDebt DEF Books, Top
<1> DEFINE b == Book(m, {}, d)
           Y == IF f.at \in OweFrames THEN {f.cb.ids[1]} ELSE {}
           c == Book(n, Y, d)
<1>8. /\ b["queue"] = Queue(m, d) /\ b["flight"] = Flight(m) /\ b["tick"] = Debts(m.ticks, "run", OweTicks)
      /\ b["frame"] = Debts(m.stack, "at", OweFrames) /\ b["called"] = CalledIds(m) /\ b["hand"] = {}
    BY BookAt
<1>9. /\ c["queue"] = Queue(n, d) /\ c["flight"] = Flight(n) /\ c["tick"] = Debts(n.ticks, "run", OweTicks)
      /\ c["frame"] = Debts(n.stack, "at", OweFrames) /\ c["called"] = CalledIds(n) /\ c["hand"] = Y
  <2> HIDE DEF Y
  <2> QED
      BY BookAt
<1>10. Partition(b, m.obs.acc)
    BY DEF Books
<1> HIDE DEF b, c
<1>11. SamePages(b, c, {"frame", "hand"})
    BY <1>3, <1>5, <1>8, <1>9 DEF SamePages, Places
<1>12. Partition(c, n.obs.acc)
  <2>1. CASE f.at \in OweFrames
    <3> DEFINE x == f.cb.ids[1]
    <3>1. x \in b["frame"] /\ \A id : id \in c["frame"] <=> id \in b["frame"] /\ id # x
        BY <1>7, <1>8, <1>9, <2>1
    <3>2. \A id : id \in c["hand"] <=> id \in b["hand"] \/ id = x
        BY <1>8, <1>9, <2>1
    <3> HIDE DEF x, f
    <3> QED
        BY <1>2, <1>10, <1>11, <3>1, <3>2, Turned DEF Places
  <2>2. CASE f.at \notin OweFrames
    <3>1. SamePages(b, c, {})
        BY <1>7, <1>8, <1>9, <1>11, <2>2 DEF SamePages, Places
    <3> QED
        BY <1>2, <1>10, <3>1, Resting
  <2> QED
      BY <2>1, <2>2
<1> HIDE DEF Y, f
<1>13. Books(n, Y, d)
    BY <1>2, <1>3, <1>5, <1>6, <1>7, <1>12 DEF Books, c
<1> QED
    BY <1>2, <1>3, <1>6, <1>7, <1>13 DEF Y, f, n

(* A tick is queued, which may take what was in hand.                      *)
LEMMA NextTickBooks ==
    ASSUME NEW m, NEW n, NEW X, NEW Y, NEW d, NEW t, Books(m, X, d), Same(m, n),
           n.ticks = Append(m.ticks, t), n.stack = m.stack,
           IF t.run \in OweTicks THEN Single(t.cb) /\ X = {t.cb.ids[1]} /\ Y = {} ELSE Y = X
    PROVE  Books(n, Y, d)
<1> DEFINE b == Book(m, X, d)
           c == Book(n, Y, d)
<1>1. /\ Stored(n.state, d) /\ CalledOnce(n.obs)
      /\ Queue(n, d) = Queue(m, d) /\ Flight(n) = Flight(m) /\ CalledIds(n) = CalledIds(m)
    BY SameParts
<1>2. /\ b["queue"] = Queue(m, d) /\ b["flight"] = Flight(m) /\ b["tick"] = Debts(m.ticks, "run", OweTicks)
      /\ b["frame"] = Debts(m.stack, "at", OweFrames) /\ b["called"] = CalledIds(m) /\ b["hand"] = X
    BY DEF Book, Places
<1>3. /\ c["queue"] = Queue(n, d) /\ c["flight"] = Flight(n) /\ c["tick"] = Debts(n.ticks, "run", OweTicks)
      /\ c["frame"] = Debts(n.stack, "at", OweFrames) /\ c["called"] = CalledIds(n) /\ c["hand"] = Y
    BY DEF Book, Places
<1>4. Partition(b, m.obs.acc) /\ n.obs.acc = m.obs.acc
  <2>1. Partition(b, m.obs.acc)
      BY DEF Books
  <2> QED
      BY <2>1, SameParts
<1> HIDE DEF b, c
<1>5. t.run \in OweTicks => t.cb.ids[1] \notin b["tick"]
    BY <1>2, <1>4 DEF Partition, Places
<1>6. /\ Owed(n.ticks, "run", OweTicks)
      /\ \A id : id \in c["tick"] <=> id \in b["tick"] \/ (t.run \in OweTicks /\ id = t.cb.ids[1])
    BY <1>2, <1>3, <1>5, DebtAdded DEF Books
<1>8. SamePages(b, c, {"hand", "tick"})
    BY <1>1, <1>2, <1>3 DEF SamePages, Places
<1>9. Partition(c, m.obs.acc)
  <2>1. CASE t.run \in OweTicks
    <3> DEFINE x == t.cb.ids[1]
    <3>1. x \in b["hand"] /\ \A id : id \in c["hand"] <=> id \in b["hand"] /\ id # x
        BY <1>2, <1>3, <2>1
    <3>2. \A id : id \in c["tick"] <=> id \in b["tick"] \/ id = x
        BY <1>6, <2>1
    <3> HIDE DEF x
    <3> QED
        BY <1>4, <1>8, <3>1, <3>2, Turned DEF Places
  <2>2. CASE t.run \notin OweTicks
    <3>1. SamePages(b, c, {})
        BY <1>2, <1>3, <1>6, <1>8, <2>2 DEF SamePages, Places
    <3> QED
        BY <1>4, <3>1, Resting
  <2> QED
      BY <2>1, <2>2
<1> QED
    BY <1>1, <1>4, <1>6, <1>9 DEF Books, Same, c

(* The oldest tick is taken off the queue.                                 *)
LEMMA TakeTickBooks ==
    ASSUME NEW m, NEW n, NEW d, Books(m, {}, d), m.ticks # <<>>, Same(m, n),
           n.ticks = Tail(m.ticks), n.stack = m.stack
    PROVE  LET t == Head(m.ticks)
           IN  /\ t.run \in OweTicks => Single(t.cb) /\ Books(n, {t.cb.ids[1]}, d)
               /\ t.run \notin OweTicks => Books(n, {}, d)
<1> DEFINE t == Head(m.ticks)
<1>2. Shaped(n)
    BY DEF Same
<1>5. /\ Stored(n.state, d) /\ CalledOnce(n.obs)
      /\ Queue(n, d) = Queue(m, d) /\ Flight(n) = Flight(m) /\ CalledIds(n) = CalledIds(m)
    BY SameParts
<1>7. /\ Owed(n.ticks, "run", OweTicks)
      /\ \A id : id \in Debts(n.ticks, "run", OweTicks) <=>
                   id \in Debts(m.ticks, "run", OweTicks) /\ ~(t.run \in OweTicks /\ id = t.cb.ids[1])
      /\ t.run \in OweTicks => Single(t.cb) /\ t.cb.ids[1] \in Debts(m.ticks, "run", OweTicks)
    BY FirstDebt DEF Books
<1> DEFINE b == Book(m, {}, d)
           Y == IF t.run \in OweTicks THEN {t.cb.ids[1]} ELSE {}
           c == Book(n, Y, d)
<1> HIDE DEF t
<1>8. /\ b["queue"] = Queue(m, d) /\ b["flight"] = Flight(m) /\ b["tick"] = Debts(m.ticks, "run", OweTicks)
      /\ b["frame"] = Debts(m.stack, "at", OweFrames) /\ b["called"] = CalledIds(m) /\ b["hand"] = {}
    BY BookAt
<1>9. /\ c["queue"] = Queue(n, d) /\ c["flight"] = Flight(n) /\ c["tick"] = Debts(n.ticks, "run", OweTicks)
      /\ c["frame"] = Debts(n.stack, "at", OweFrames) /\ c["called"] = CalledIds(n) /\ c["hand"] = Y
  <2> HIDE DEF Y
  <2> QED
      BY BookAt
<1>10. Partition(b, m.obs.acc) /\ n.obs.acc = m.obs.acc
  <2>1. Partition(b, m.obs.acc)
      BY DEF Books
  <2> QED
      BY <2>1, SameParts
<1> HIDE DEF b, c
<1>11. SamePages(b, c, {"tick", "hand"})
    BY <1>5, <1>8, <1>9 DEF SamePages, Places
<1>12. Partition(c, n.obs.acc)
  <2>1. CASE t.run \in OweTicks
    <3> DEFINE x == t.cb.ids[1]
    <3>1. x \in b["tick"] /\ \A id : id \in c["tick"] <=> id \in b["tick"] /\ id # x
        BY <1>7, <1>8, <1>9, <2>1
    <3>2. \A id : id \in c["hand"] <=> id \in b["hand"] \/ id = x
        BY <1>8, <1>9, <2>1
    <3> HIDE DEF x
    <3> QED
        BY <1>10, <1>11, <3>1, <3>2, Turned DEF Places
  <2>2. CASE t.run \notin OweTicks
    <3>1. SamePages(b, c, {})
        BY <1>7, <1>8, <1>9, <1>11, <2>2 DEF SamePages, Places
    <3> QED
        BY <1>10, <3>1, Resting
  <2> QED
      BY <2>1, <2>2
<1> HIDE DEF Y
<1>13. Books(n, Y, d)
    BY <1>2, <1>5, <1>7, <1>12 DEF Books, Same, c
<1> QED
    BY <1>7, <1>13 DEF Y, t

(* What was in hand is called.                                             *)
LEMMA CalledBooks ==
    ASSUME NEW m, NEW n, NEW d, NEW id, NEW e, Books(m, {id}, d), Shaped(n),
           SameStore(m.state, n.state), n.state.bufferProcessing = m.state.bufferProcessing,
           n.stack = m.stack, n.ticks = m.ticks,
           n.obs.acc = m.obs.acc, n.obs.called = Append(m.obs.called, e), e.id = id
    PROVE  Books(n, {}, d)
<1> DEFINE b == Book(m, {id}, d)
           c == Book(n, {}, d)
           q == m.obs.called
           r == n.obs.called
           l == Len(q)
           k == l + 1
<1>1. Stored(n.state, d) /\ Queue(n, d) = Queue(m, d) /\ Flight(n) = Flight(m)
    BY SameStored DEF Books
<1>2. /\ b["queue"] = Queue(m, d) /\ b["flight"] = Flight(m) /\ b["tick"] = Debts(m.ticks, "run", OweTicks)
      /\ b["frame"] = Debts(m.stack, "at", OweFrames) /\ b["called"] = CalledIds(m) /\ b["hand"] = {id}
    BY BookAt
<1>3. /\ c["queue"] = Queue(n, d) /\ c["flight"] = Flight(n) /\ c["tick"] = Debts(n.ticks, "run", OweTicks)
      /\ c["frame"] = Debts(n.stack, "at", OweFrames) /\ c["called"] = CalledIds(n) /\ c["hand"] = {}
    BY BookAt
<1>4. Partition(b, m.obs.acc)
    BY DEF Books
<1>5. IsSeq(q) /\ (\A i, j \in 1 .. l : q[i].id = q[j].id => i = j) /\ n.obs.acc \in Nat
    BY DEF Books, CalledOnce
<1> HIDE DEF b, c
<1>6. IsSeq(r) /\ Len(r) = k /\ l \in Nat /\ r[k] = e /\ \A i \in 1 .. l : r[i] = q[i]
    BY <1>5, AppendAny
<1> HIDE DEF q, r
<1>7. /\ k \in 1 .. k /\ \A i \in 1 .. l : i \in 1 .. k /\ i # k
      /\ \A i \in 1 .. k : i = k \/ i \in 1 .. l
  <2> HIDE DEF l
  <2> QED
      BY <1>6
<1> HIDE DEF l, k
<1>8. \A x : x \in b["called"] <=> \E i \in 1 .. l : x = q[i].id
    BY <1>2 DEF CalledIds, q, l
<1>9. \A x : x \in c["called"] <=> \E i \in 1 .. k : x = r[i].id
    BY <1>3, <1>6 DEF CalledIds, r
<1>10. id \notin b["called"]
    BY <1>2, <1>4 DEF Partition, Places
<1>11. \A x : x \in c["called"] <=> x \in b["called"] \/ x = id
    BY <1>6, <1>7, <1>8, <1>9
<1>12. \A i, j \in 1 .. k : r[i].id = r[j].id => i = j
    BY <1>5, <1>6, <1>7, <1>8, <1>10
<1>13. SamePages(b, c, {"hand", "called"})
    BY <1>1, <1>2, <1>3 DEF SamePages, Places
<1>14. id \in b["hand"] /\ \A x : x \in c["hand"] <=> x \in b["hand"] /\ x # id
    BY <1>2, <1>3
<1>15. Partition(c, m.obs.acc)
    BY <1>4, <1>11, <1>13, <1>14, Turned DEF Places
<1>16. CalledOnce(n.obs)
    BY <1>5, <1>6, <1>12 DEF CalledOnce, r
<1>17. n.state.bufferProcessing <=> d # 0
    BY DEF Books
<1> QED
    BY <1>1, <1>15, <1>16, <1>17 DEF Books, c

(* Sums of lengths.                                                        *)
LEMMA LengthsAt ==
    ASSUME NEW s, s.buffer \in Seq(Chunk), NEW g, Lengths(s, g), NEW d \in 0 .. Len(s.buffer)
    PROVE  /\ g[d] \in Nat /\ g[Len(s.buffer)] \in Nat /\ g[d] <= g[Len(s.buffer)]
           /\ d < Len(s.buffer) => /\ d + 1 \in 1 .. Len(s.buffer) /\ g[d + 1] = g[d] + s.buffer[d + 1].len
                                   /\ s.buffer[d + 1] \in Chunk /\ g[d + 1] \in Nat
                                   /\ g[d + 1] <= g[Len(s.buffer)]
<1> DEFINE l == Len(s.buffer)
           e == d + 1
<1>1. l \in Nat
    BY LenProperties
<1>2. d \in 0 .. l /\ l \in 0 .. l /\ d <= l
    BY <1>1
<1>3. d < l => e \in 1 .. l /\ e \in 0 .. l /\ e <= l /\ e - 1 = d
    BY <1>1
<1>4. /\ \A k \in 0 .. l : g[k] \in Nat
      /\ \A k \in 1 .. l : g[k] = g[k - 1] + s.buffer[k].len
      /\ \A i, j \in 0 .. l : i <= j => g[i] <= g[j]
    BY DEF Lengths
<1>5. \A k \in 1 .. l : s.buffer[k] \in Chunk
    BY ElementOfSeq
<1> HIDE DEF l, e
<1>6. g[d] \in Nat /\ g[l] \in Nat /\ g[d] <= g[l]
    BY <1>2, <1>4
<1>7. d < l => /\ e \in 1 .. l /\ g[e] = g[d] + s.buffer[e].len /\ s.buffer[e] \in Chunk
               /\ g[e] \in Nat /\ g[e] <= g[l]
    BY <1>2, <1>3, <1>4, <1>5
<1> QED
    BY <1>6, <1>7 DEF l, e

(* The next chunk of the buffer is in flight.                              *)
LEMMA LedgerSent ==
    ASSUME NEW s, NEW r, NEW d \in 0 .. Len(s.buffer), s.buffer \in Seq(Chunk), Ledger(s, d), s.writelen = 0,
           d < Len(s.buffer), r.buffer = s.buffer, r.length = s.length, r.writelen = s.buffer[d + 1].len
    PROVE  Ledger(r, d + 1)
<1>1. PICK g : Lengths(s, g) /\ s.length = s.writelen + (g[Len(s.buffer)] - g[d])
    BY DEF Ledger
<1> DEFINE a == g[d]
           b == g[d + 1]
           z == g[Len(s.buffer)]
           x == s.buffer[d + 1].len
<1>2. a \in Nat /\ b \in Nat /\ z \in Nat /\ b = a + x /\ x \in Nat
    BY <1>1, LengthsAt DEF Chunk
<1>3. s.length = 0 + (z - a)
    BY <1>1
<1> HIDE DEF a, b, z, x
<1>4. s.length = x + (z - b)
    BY <1>2, <1>3
<1>5. Lengths(r, g)
    BY <1>1 DEF Lengths
<1> QED
    BY <1>4, <1>5 DEF Ledger, z, b, x

(* A new chunk is in flight.                                               *)
LEMMA LedgerStarted ==
    ASSUME NEW s, NEW r, NEW d, NEW len \in Nat, s.buffer \in Seq(Chunk), d \in 0 .. Len(s.buffer), Ledger(s, d),
           s.writelen = 0, r.buffer = s.buffer, r.length = s.length + len, r.writelen = len
    PROVE  Ledger(r, d)
<1>1. PICK g : Lengths(s, g) /\ s.length = s.writelen + (g[Len(s.buffer)] - g[d])
    BY DEF Ledger
<1> DEFINE a == g[d]
           z == g[Len(s.buffer)]
<1>2. a \in Nat /\ z \in Nat
    BY <1>1, LengthsAt
<1>3. s.length = 0 + (z - a)
    BY <1>1
<1> HIDE DEF a, z
<1>4. r.length = r.writelen + (z - a)
    BY <1>2, <1>3
<1>5. Lengths(r, g)
    BY <1>1 DEF Lengths
<1> QED
    BY <1>4, <1>5 DEF Ledger, z, a

(* The chunk in flight has landed.                                         *)
LEMMA LedgerLanded ==
    ASSUME NEW s, NEW r, NEW d, s.buffer \in Seq(Chunk), d \in 0 .. Len(s.buffer), Ledger(s, d), s.writelen \in Nat,
           r.buffer = s.buffer, r.length = s.length - s.writelen, r.writelen = 0
    PROVE  Ledger(r, d)
<1>1. PICK g : Lengths(s, g) /\ s.length = s.writelen + (g[Len(s.buffer)] - g[d])
    BY DEF Ledger
<1> DEFINE a == g[d]
           z == g[Len(s.buffer)]
<1>2. a \in Nat /\ z \in Nat
    BY <1>1, LengthsAt
<1>3. s.length = s.writelen + (z - a)
    BY <1>1
<1> HIDE DEF a, z
<1>4. r.length = r.writelen + (z - a)
    BY <1>2, <1>3
<1>5. Lengths(r, g)
    BY <1>1 DEF Lengths
<1> QED
    BY <1>4, <1>5 DEF Ledger, z, a

(* A new chunk is in the buffer.                                           *)
LEMMA LedgerQueued ==
    ASSUME NEW s, NEW r, NEW d, NEW c \in Chunk, s.buffer \in Seq(Chunk), d \in 0 .. Len(s.buffer), Ledger(s, d),
           s.writelen \in Nat, r.buffer = Append(s.buffer, c), r.length = s.length + c.len, r.writelen = s.writelen
    PROVE  Ledger(r, d)
<1>1. PICK g : Lengths(s, g) /\ s.length = s.writelen + (g[Len(s.buffer)] - g[d])
    BY DEF Ledger
<1> DEFINE l == Len(s.buffer)
           t == l + 1
           a == g[d]
           z == g[l]
           x == c.len
           h == [k \in 0 .. t |-> IF k = t THEN z + x ELSE g[k]]
<1>2. a \in Nat /\ z \in Nat /\ x \in Nat
    BY <1>1, LengthsAt DEF Chunk
<1>3. l \in Nat /\ Len(r.buffer) = t /\ r.buffer[t] = c /\ \A k \in 1 .. l : r.buffer[k] = s.buffer[k]
    BY AppendProperties
<1>4. s.length = s.writelen + (z - a)
    BY <1>1
<1>5. /\ t \in 0 .. t /\ t - 1 = l /\ l \in 0 .. t /\ l # t /\ d \in 0 .. t /\ d # t
      /\ \A k \in 0 .. t : k = t \/ (k \in 0 .. l /\ k # t /\ k <= l)
      /\ \A k \in 0 .. l : k \in 0 .. t /\ k # t
      /\ \A k \in 1 .. t : k = t \/ (k \in 1 .. l /\ k - 1 \in 0 .. l /\ k \in 0 .. l)
      /\ \A k \in 0 .. l : ~(t <= k)
  <2> HIDE DEF a, z, x
  <2>1. d \in 0 .. l
      OBVIOUS
  <2> HIDE DEF l
  <2> QED
      BY <1>3, <2>1
<1>6. /\ \A k \in 0 .. l : g[k] \in Nat
      /\ \A k \in 1 .. l : g[k] = g[k - 1] + s.buffer[k].len
      /\ \A i, j \in 0 .. l : i <= j => g[i] <= g[j]
    BY <1>1 DEF Lengths
<1>7. DOMAIN h = 0 .. t /\ h[t] = z + x /\ \A k \in 0 .. l : h[k] = g[k]
    BY <1>5
<1> DEFINE y == z + x
<1>8. y \in Nat /\ z <= y
    BY <1>2
<1>9. h[t] = y /\ h = [k \in 0 .. t |-> h[k]]
    BY <1>7
<1>10. l \in 0 .. l /\ \A k \in 0 .. l : k <= l
  <2> HIDE DEF l
  <2> QED
      BY <1>3
<1> HIDE DEF h, l, t, y, a
<1>11. h \in [0 .. t -> Nat]
  <2>1. \A k \in 0 .. t : h[k] \in Nat
      BY <1>5, <1>6, <1>7, <1>8, <1>9
  <2> QED
      BY <1>9, <2>1
<1>12. \A k \in 1 .. t : h[k] = h[k - 1] + r.buffer[k].len
  <2> TAKE k \in 1 .. t
  <2>1. CASE k = t
    <3>1. h[k - 1] = z
        BY <1>5, <1>7, <1>10, <2>1 DEF z
    <3> QED
        BY <1>3, <1>9, <2>1, <3>1 DEF y, x
  <2>2. CASE k # t
    <3>1. h[k] = g[k] /\ h[k - 1] = g[k - 1] /\ r.buffer[k] = s.buffer[k] /\ k \in 1 .. l
        BY <1>3, <1>5, <1>7, <2>2
    <3> QED
        BY <1>6, <3>1
  <2> QED
      BY <2>1, <2>2
<1>13. \A i, j \in 0 .. t : i <= j => h[i] <= h[j]
  <2> TAKE i, j \in 0 .. t
  <2>1. CASE i = t /\ j = t
      BY <1>8, <1>9, <2>1
  <2>2. CASE i = t /\ j # t
      BY <1>5, <2>2
  <2>3. CASE i # t /\ j = t
    <3>1. i \in 0 .. l /\ h[i] = g[i] /\ g[i] <= z /\ g[i] \in Nat
        BY <1>5, <1>6, <1>7, <1>10, <2>3 DEF z
    <3> QED
        BY <1>2, <1>8, <1>9, <2>3, <3>1
  <2>4. CASE i # t /\ j # t
      BY <1>5, <1>6, <1>7, <2>4
  <2> QED
      BY <2>1, <2>2, <2>3, <2>4
<1>14. Lengths(r, h)
    BY <1>3, <1>11, <1>12, <1>13 DEF Lengths
<1>15. h[d] = a
    BY <1>5, <1>7 DEF a, l
<1> HIDE DEF z, x
<1>16. r.length = r.writelen + (y - a)
  <2>1. r.length = s.writelen + (z - a) + x
      BY <1>4 DEF x
  <2>2. a \in Nat
      BY <1>2 DEF a
  <2> QED
      BY <1>2, <2>1, <2>2 DEF y
<1> QED
    BY <1>3, <1>9, <1>14, <1>15, <1>16 DEF Ledger

(* The chunks that were sent leave the buffer.                             *)
LEMMA LedgerDropped ==
    ASSUME NEW s, NEW r, NEW d, s.buffer \in Seq(Chunk), d \in 0 .. Len(s.buffer), Ledger(s, d),
           r.buffer = NotWritten(s.buffer, d), r.length = s.length, r.writelen = s.writelen, s.writelen \in Nat
    PROVE  /\ Ledger(r, 0) /\ r.buffer \in Seq(Chunk) /\ Len(r.buffer) = Len(s.buffer) - d
           /\ \A k \in 1 .. Len(r.buffer) : k + d \in d + 1 .. Len(s.buffer) /\ r.buffer[k] = s.buffer[k + d]
<1>1. PICK g : Lengths(s, g) /\ s.length = s.writelen + (g[Len(s.buffer)] - g[d])
    BY DEF Ledger
<1> DEFINE l == Len(s.buffer)
           n == l - d
           a == g[d]
           z == g[l]
           h == [k \in 0 .. n |-> g[k + d] - a]
<1>2. a \in Nat /\ z \in Nat /\ s.length = s.writelen + (z - a)
    BY <1>1, LengthsAt
<1>3. l \in Nat /\ d \in Nat /\ d <= l /\ n \in Nat
    BY LenProperties
<1>4. r.buffer \in Seq(Chunk) /\ Len(r.buffer) = n /\ \A k \in 1 .. n : r.buffer[k] = s.buffer[k + d]
  <2>1. r.buffer \in Seq(Chunk)
      BY <1>3, SubSeqType DEF NotWritten
  <2>2. r.buffer = SubSeq(s.buffer, d + 1, l)
      BY DEF NotWritten
  <2>3. d + 1 \in 1 .. l + 1 /\ l \in d .. l /\ l - (d + 1) + 1 = n /\ \A k \in 1 .. n : d + 1 + k - 1 = k + d
    <3> HIDE DEF l
    <3> QED
        BY <1>3
  <2> DEFINE p == d + 1
  <2>4. \A i \in p .. l : s.buffer[i] \in Chunk
      BY <1>3, ElementOfSeq
  <2>5. Len(SubSeq(s.buffer, p, l)) = l - p + 1 /\ \A k \in 1 .. l - p + 1 : SubSeq(s.buffer, p, l)[k] = s.buffer[p + k - 1]
    <3>1. p \in Nat /\ l \in Nat /\ p <= l + 1
      <4> HIDE DEF l
      <4> QED
          BY <1>3
    <3> QED
        BY <2>3, SubSeqProperties
  <2> QED
      BY <2>1, <2>2, <2>3, <2>5
<1>5. /\ \A k \in 0 .. l : g[k] \in Nat
      /\ \A k \in 1 .. l : g[k] = g[k - 1] + s.buffer[k].len
      /\ \A i, j \in 0 .. l : i <= j => g[i] <= g[j]
    BY <1>1 DEF Lengths
<1> HIDE DEF l
<1>6. /\ \A k \in 0 .. n : k + d \in 0 .. l /\ d <= k + d /\ d \in 0 .. l
      /\ \A k \in 1 .. n : k + d \in 1 .. l /\ k - 1 \in 0 .. n /\ k \in 0 .. n /\ k + d - 1 = (k - 1) + d
                           /\ k + d \in d + 1 .. l
      /\ \A i, j \in 0 .. n : i <= j => i + d <= j + d
      /\ n \in 0 .. n /\ n + d = l /\ 0 \in 0 .. n /\ 0 + d = d
    BY <1>3
<1>7. \A k \in 0 .. n : g[k + d] - a \in Nat /\ h[k] = g[k + d] - a /\ g[k + d] \in Nat
  <2> TAKE k \in 0 .. n
  <2>1. h[k] = g[k + d] - a
      OBVIOUS
  <2>2. g[k + d] \in Nat /\ a <= g[k + d]
      BY <1>5, <1>6
  <2> HIDE DEF a, n, h
  <2> QED
      BY <1>2, <2>1, <2>2
<1>8. h \in [0 .. n -> Nat]
  <2> HIDE DEF a, n
  <2> QED
      BY <1>7
<1>9. \A k \in 1 .. n : h[k] = h[k - 1] + r.buffer[k].len
  <2> TAKE k \in 1 .. n
  <2> DEFINE u == g[k + d]
             v == g[(k - 1) + d]
             x == s.buffer[k + d].len
  <2>1. h[k] = u - a /\ h[k - 1] = v - a /\ u \in Nat /\ v \in Nat
    <3>1. k \in 0 .. n /\ k - 1 \in 0 .. n
        BY <1>6
    <3> HIDE DEF h, n, a
    <3> QED
        BY <1>7, <3>1
  <2>2. s.buffer[k + d] \in Chunk /\ k + d \in 1 .. l /\ r.buffer[k].len = x
    <3>1. k + d \in 1 .. l
        BY <1>6
    <3> QED
        BY <1>4, <3>1, ElementOfSeq DEF l
  <2>3. u = v + x /\ x \in Nat
    <3>1. g[k + d] = g[k + d - 1] + s.buffer[k + d].len
        BY <1>5, <2>2
    <3> HIDE DEF n
    <3> QED
        BY <1>6, <2>2, <3>1 DEF Chunk
  <2> HIDE DEF h, n, a, u, v, x
  <2> QED
      BY <1>2, <2>1, <2>2, <2>3 DEF a
<1>10. \A i, j \in 0 .. n : i <= j => h[i] <= h[j]
  <2> TAKE i, j \in 0 .. n
  <2> HAVE i <= j
  <2>1. g[i + d] <= g[j + d]
      BY <1>5, <1>6
  <2>2. h[i] = g[i + d] - a /\ h[j] = g[j + d] - a /\ g[i + d] \in Nat /\ g[j + d] \in Nat
    <3> HIDE DEF h, n, a
    <3> QED
        BY <1>7
  <2> HIDE DEF h, n, a
  <2> QED
      BY <1>2, <2>1, <2>2 DEF a
<1>11. Lengths(r, h)
  <2> HIDE DEF h, n, a
  <2> QED
      BY <1>4, <1>8, <1>9, <1>10 DEF Lengths
<1>12. h[n] = z - a /\ h[0] = 0
  <2>1. h[n] = g[n + d] - a /\ h[0] = g[0 + d] - a
      BY <1>6, <1>7
  <2>2. g[n + d] = z /\ g[0 + d] = a
      BY <1>6
  <2> HIDE DEF h, n, a, z
  <2> QED
      BY <1>2, <2>1, <2>2 DEF a, z
<1>13. r.length = r.writelen + (h[n] - h[0])
  <2> HIDE DEF h, n, a, z
  <2>1. a \in Nat /\ z \in Nat
      BY <1>2 DEF a, z
  <2>2. s.length = s.writelen + (z - a)
      BY <1>2
  <2> QED
      BY <1>12, <2>1, <2>2
<1>14. Ledger(r, 0)
  <2> HIDE DEF h, n, a, z
  <2> QED
      BY <1>4, <1>11, <1>13 DEF Ledger
<1> QED
    BY <1>4, <1>6, <1>14 DEF l

(* Cb1 is a single callback.                                               *)
LEMMA OneCb == ASSUME NEW id PROVE Single(Cb1(id)) /\ Cb1(id).ids[1] = id
    BY Zenon DEF Single, Cb1

(* What is in flight has a length.                                         *)
LEMMA FlyingNat == ASSUME NEW s, Flying(s) PROVE s.writelen \in Nat
<1>1. Sizes \subseteq Nat /\ 0 \in Nat
    BY WritableAssumption
<1>2. CASE s.writing
    BY <1>1, <1>2, Zenon DEF Flying
<1>3. CASE ~s.writing
    BY <1>1, <1>3, Zenon DEF Flying
<1> QED
    BY <1>2, <1>3

(* The next chunk of the buffer is sent.                                   *)
Lasting(m, n) == /\ Shaped(n) /\ n.stack = m.stack /\ n.ticks = m.ticks

(* clearBuffer() sends the next chunk of the buffer.                       *)
LEMMA SendBooks ==
    ASSUME NEW m, NEW n, NEW d, Books(m, {}, d), Lasting(m, n), NoLoop(m.stack), ~m.state.writing,
           d < Len(m.state.buffer), SameTold(m.obs, n.obs),
           n.state.buffer = m.state.buffer, n.state.length = m.state.length, n.state.writing = TRUE,
           n.state.writecb = Cb1(m.state.buffer[d + 1].id), n.state.writelen = m.state.buffer[d + 1].len,
           n.state.bufferProcessing
    PROVE  Books(n, {}, d + 1)
<1> DEFINE e == d + 1
           b == Book(m, {}, d)
           c == Book(n, {}, e)
           s == m.state
           r == n.state
           l == Len(s.buffer)
           x == s.buffer[e].id
<1>1. /\ s.buffer \in Seq(Chunk) /\ d \in 0 .. l /\ Ledger(s, d) /\ s.writelen = 0
      /\ \A k \in 1 .. l : s.buffer[k].len \in Sizes
      /\ \A i, j \in d + 1 .. l : s.buffer[i].id = s.buffer[j].id => i = j
    BY DEF Books, Stored, Chunks, Flying
<1>2. Ledger(r, e)
    BY <1>1, LedgerSent
<1>3. /\ l \in Nat /\ d \in Nat /\ e \in 0 .. l /\ e \in 1 .. l /\ e \in e .. l /\ e # 0
      /\ \A k \in e + 1 .. l : k \in e .. l /\ k # e
      /\ \A k \in e .. l : k = e \/ k \in e + 1 .. l
    BY <1>1
<1>4. Chunks(r, e)
    BY <1>1, <1>3 DEF Chunks
<1>5. Single(r.writecb) /\ r.writelen \in Sizes /\ r.writecb.ids[1] = x
  <2>1. r.writelen \in Sizes
      BY <1>1, <1>3
  <2>2. r.writecb = Cb1(x)
      OBVIOUS
  <2> QED
      BY <2>1, <2>2, OneCb
<1>6. Stored(r, e)
    BY <1>2, <1>4, <1>5 DEF Stored, Flying
<1>7. /\ b["queue"] = Queue(m, d) /\ b["flight"] = Flight(m) /\ b["tick"] = Debts(m.ticks, "run", OweTicks)
      /\ b["frame"] = Debts(m.stack, "at", OweFrames) /\ b["called"] = CalledIds(m) /\ b["hand"] = {}
    BY BookAt
<1>8. /\ c["queue"] = Queue(n, e) /\ c["flight"] = Flight(n) /\ c["tick"] = Debts(n.ticks, "run", OweTicks)
      /\ c["frame"] = Debts(n.stack, "at", OweFrames) /\ c["called"] = CalledIds(n) /\ c["hand"] = {}
  <2> HIDE DEF e
  <2> QED
      BY BookAt
<1>9. Partition(b, m.obs.acc) /\ n.obs.acc = m.obs.acc
  <2>1. Partition(b, m.obs.acc)
      BY DEF Books
  <2> QED
      BY <2>1 DEF SameTold
<1>10. CalledOnce(n.obs) /\ CalledIds(n) = CalledIds(m)
    BY SameToldOnce DEF Books
<1> HIDE DEF b, c
<1>11. /\ \A id : id \in b["queue"] <=> \E k \in e .. l : id = s.buffer[k].id
       /\ \A id : id \in c["queue"] <=> \E k \in e + 1 .. l : id = s.buffer[k].id
    BY <1>7, <1>8 DEF Queue
<1>12. x \in b["queue"]
    BY <1>3, <1>11
<1>13. \A id : id \in c["queue"] <=> id \in b["queue"] /\ id # x
  <2> HIDE DEF e, l, s
  <2>1. \A i, j \in e .. l : s.buffer[i].id = s.buffer[j].id => i = j
      BY <1>1 DEF e
  <2> QED
      BY <1>3, <1>11, <2>1
<1>14. \A id : id \in c["flight"] <=> id \in b["flight"] \/ id = x
  <2> HIDE DEF x
  <2> QED
      BY <1>5, <1>7, <1>8 DEF Flight
<1>15. SamePages(b, c, {"queue", "flight"})
    BY <1>7, <1>8, <1>10 DEF SamePages, Places, Lasting
<1>16. Partition(c, n.obs.acc)
  <2> HIDE DEF x
  <2> QED
      BY <1>9, <1>12, <1>13, <1>14, <1>15, Turned DEF Places
<1>17. AllLawful(n.stack, e)
  <2> HIDE DEF e
  <2> QED
      BY DEF Books, AllLawful, Lawful, NoLoop, Lasting
<1> HIDE DEF e
<1> QED
    BY <1>3, <1>6, <1>10, <1>16, <1>17 DEF Books, Lasting, c, e

(* One more write() was accepted, ...                                      *)
Accepts(m, n, len) ==
    /\ Lasting(m, n) /\ len \in Sizes
    /\ n.obs.acc = m.obs.acc + 1 /\ n.obs.called = m.obs.called
    /\ n.state.length = m.state.length + len
    /\ n.state.bufferProcessing = m.state.bufferProcessing

(* write() gives its callback a place: ...                                 *)
LEMMA AcceptPages ==
    ASSUME NEW m, NEW n, NEW d, NEW len, Books(m, {}, d), Accepts(m, n, len), NEW l \in {"queue", "flight"},
           LET b == Book(m, {}, d)
               c == Book(n, {}, d)
           IN  /\ SamePages(b, c, {"queue", "flight", "called"})
               /\ \A p \in {"queue", "flight"} : \A id : id \in c[p] <=> id \in b[p] \/ (p = l /\ id = m.obs.acc + 1),
           Stored(n.state, d)
    PROVE  Books(n, {}, d)
<1> DEFINE b == Book(m, {}, d)
           c == Book(n, {}, d)
<1>1. CalledOnce(n.obs) /\ CalledIds(n) = CalledIds(m) /\ m.obs.acc \in Nat
    BY DEF Books, Accepts, CalledOnce, CalledIds
<1>2. b["called"] = c["called"]
    BY <1>1, BookAt
<1>3. Partition(b, m.obs.acc)
    BY DEF Books
<1> HIDE DEF b, c
<1>4. \A p \in Places : \A id : id \in c[p] <=> id \in b[p] \/ (p = l /\ id = m.obs.acc + 1)
    BY <1>2 DEF SamePages, Places, b, c
<1>5. Partition(c, m.obs.acc + 1)
    BY <1>1, <1>3, <1>4, Added DEF Places
<1> QED
    BY <1>1, <1>5 DEF Books, Accepts, Lasting, c

(* ... and is sent, ...                                                    *)
LEMMA StartBooks ==
    ASSUME NEW m, NEW n, NEW d, NEW len, Books(m, {}, d), Accepts(m, n, len), ~m.state.writing,
           n.state.buffer = m.state.buffer, n.state.writing = TRUE,
           n.state.writecb = Cb1(m.obs.acc + 1), n.state.writelen = len
    PROVE  Books(n, {}, d)
<1> DEFINE s == m.state
           r == n.state
           b == Book(m, {}, d)
           c == Book(n, {}, d)
           x == m.obs.acc + 1
<1>1. Chunks(s, d) /\ Ledger(s, d) /\ s.writelen = 0 /\ s.buffer \in Seq(Chunk) /\ d \in 0 .. Len(s.buffer)
    BY DEF Books, Stored, Chunks, Flying
<1>2. len \in Nat
    BY WritableAssumption DEF Accepts
<1>3. Ledger(r, d)
    BY <1>1, <1>2, LedgerStarted DEF Accepts
<1>4. Chunks(r, d)
    BY <1>1 DEF Chunks
<1>5. Single(r.writecb) /\ r.writecb.ids[1] = x
    BY OneCb
<1>6. Stored(r, d)
    BY <1>3, <1>4, <1>5 DEF Stored, Flying, Accepts
<1>7. /\ b["queue"] = Queue(m, d) /\ b["flight"] = Flight(m) /\ b["tick"] = Debts(m.ticks, "run", OweTicks)
      /\ b["frame"] = Debts(m.stack, "at", OweFrames) /\ b["called"] = CalledIds(m) /\ b["hand"] = {}
    BY BookAt
<1>8. /\ c["queue"] = Queue(n, d) /\ c["flight"] = Flight(n) /\ c["tick"] = Debts(n.ticks, "run", OweTicks)
      /\ c["frame"] = Debts(n.stack, "at", OweFrames) /\ c["called"] = CalledIds(n) /\ c["hand"] = {}
    BY BookAt
<1>9. Queue(n, d) = Queue(m, d)
    BY DEF Queue
<1> HIDE DEF b, c, x
<1>10. \A id : id \in c["flight"] <=> id \in b["flight"] \/ id = x
    BY <1>5, <1>7, <1>8 DEF Flight
<1>11. SamePages(b, c, {"queue", "flight", "called"})
    BY <1>7, <1>8 DEF SamePages, Places, Accepts, Lasting
<1>12. \A p \in {"queue", "flight"} : \A id : id \in c[p] <=> id \in b[p] \/ (p = "flight" /\ id = x)
    BY <1>7, <1>8, <1>9, <1>10
<1> QED
    BY <1>6, <1>11, <1>12, AcceptPages DEF b, c, x

(* ... or waits in the buffer.                                             *)
LEMMA QueueBooks ==
    ASSUME NEW m, NEW n, NEW d, NEW len, Books(m, {}, d), Accepts(m, n, len),
           n.state.buffer = Append(m.state.buffer, [id |-> m.obs.acc + 1, len |-> len]),
           n.state.writing = m.state.writing, n.state.writecb = m.state.writecb,
           n.state.writelen = m.state.writelen
    PROVE  Books(n, {}, d)
<1> DEFINE s == m.state
           r == n.state
           b == Book(m, {}, d)
           c == Book(n, {}, d)
           x == m.obs.acc + 1
           e == [id |-> x, len |-> len]
           l == Len(s.buffer)
           t == l + 1
<1>1. /\ Chunks(s, d) /\ Ledger(s, d) /\ Flying(s) /\ s.buffer \in Seq(Chunk) /\ d \in 0 .. l
      /\ \A k \in 1 .. l : s.buffer[k].len \in Sizes
      /\ \A i, j \in d + 1 .. l : s.buffer[i].id = s.buffer[j].id => i = j
    BY DEF Books, Stored, Chunks
<1>2. len \in Nat /\ s.writelen \in Nat /\ m.obs.acc \in Nat /\ x \in Nat /\ e \in Chunk
  <2>1. len \in Nat /\ s.writelen \in Nat /\ m.obs.acc \in Nat
    <3>1. len \in Nat
        BY WritableAssumption DEF Accepts
    <3>2. s.writelen \in Nat
        BY <1>1, FlyingNat
    <3> QED
        BY <3>1, <3>2 DEF Books, CalledOnce
  <2> QED
      BY <2>1 DEF Chunk
<1>3. e.id = x /\ e.len = len
    OBVIOUS
<1> HIDE DEF e
<1>4. r.buffer = Append(s.buffer, e)
    BY DEF e
<1>5. Ledger(r, d)
  <2>1. r.length = s.length + e.len /\ r.writelen = s.writelen /\ d \in 0 .. Len(s.buffer)
      BY <1>1, <1>3 DEF Accepts
  <2> HIDE DEF x, s, r, l
  <2> QED
      BY <1>1, <1>2, <1>4, <2>1, LedgerQueued
<1>6. /\ r.buffer \in Seq(Chunk) /\ Len(r.buffer) = t /\ r.buffer[t] = e /\ l \in Nat
      /\ \A k \in 1 .. l : r.buffer[k] = s.buffer[k]
    BY <1>1, <1>2, <1>4, AppendProperties
<1>7. /\ d \in 0 .. t /\ t \in d + 1 .. t
      /\ \A k \in 1 .. t : k = t \/ k \in 1 .. l
      /\ \A k \in d + 1 .. t : k = t \/ (k \in d + 1 .. l /\ k \in 1 .. l)
      /\ \A k \in d + 1 .. l : k \in d + 1 .. t /\ k # t /\ k \in 1 .. l
  <2>1. l \in Nat /\ d \in 0 .. l
      BY <1>1, <1>6
  <2> HIDE DEF l
  <2> QED
      BY <2>1
<1>8. /\ b["queue"] = Queue(m, d) /\ b["flight"] = Flight(m) /\ b["tick"] = Debts(m.ticks, "run", OweTicks)
      /\ b["frame"] = Debts(m.stack, "at", OweFrames) /\ b["called"] = CalledIds(m) /\ b["hand"] = {}
    BY BookAt
<1>9. /\ c["queue"] = Queue(n, d) /\ c["flight"] = Flight(n) /\ c["tick"] = Debts(n.ticks, "run", OweTicks)
      /\ c["frame"] = Debts(n.stack, "at", OweFrames) /\ c["called"] = CalledIds(n) /\ c["hand"] = {}
    BY BookAt
<1>10. Partition(b, m.obs.acc)
    BY DEF Books
<1> HIDE DEF b, c, x, l, t
<1>11. x \notin 1 .. m.obs.acc
    BY <1>2 DEF x
<1>12. x \notin b["queue"]
    BY <1>10, <1>11 DEF Partition, Places
<1>13. /\ \A id : id \in b["queue"] <=> \E k \in d + 1 .. l : id = s.buffer[k].id
       /\ \A id : id \in c["queue"] <=> \E k \in d + 1 .. t : id = r.buffer[k].id
    BY <1>6, <1>8, <1>9 DEF Queue, l
<1>14. \A id : id \in c["queue"] <=> id \in b["queue"] \/ id = x
    BY <1>3, <1>6, <1>7, <1>13
<1>15. \A i, j \in d + 1 .. t : r.buffer[i].id = r.buffer[j].id => i = j
    BY <1>1, <1>3, <1>6, <1>7, <1>12, <1>13 DEF l
<1>16. \A k \in 1 .. t : r.buffer[k].len \in Sizes
    BY <1>1, <1>3, <1>6, <1>7 DEF Accepts, l
<1>17. Stored(r, d)
  <2>1. Chunks(r, d)
      BY <1>6, <1>7, <1>15, <1>16 DEF Chunks
  <2>2. Flying(r)
      BY <1>1 DEF Flying
  <2> QED
      BY <1>5, <2>1, <2>2 DEF Stored
<1>18. SamePages(b, c, {"queue", "flight", "called"})
    BY <1>8, <1>9 DEF SamePages, Places, Accepts, Lasting
<1>19. b["flight"] = c["flight"]
    BY <1>8, <1>9 DEF Flight
<1>20. \A p \in {"queue", "flight"} : \A id : id \in c[p] <=> id \in b[p] \/ (p = "queue" /\ id = x)
    BY <1>14, <1>19
<1> QED
    BY <1>17, <1>18, <1>20, AcceptPages DEF b, c, x

(* The write in flight has an outcome.                                     *)
LEMMA LandBooks ==
    ASSUME NEW m, NEW n, NEW d, Books(m, {}, d), m.state.writing, Lasting(m, n), SameTold(m.obs, n.obs),
           n.state.buffer = m.state.buffer, n.state.length = m.state.length - m.state.writelen,
           n.state.writing = FALSE, n.state.writelen = 0,
           n.state.bufferProcessing = m.state.bufferProcessing
    PROVE  Single(m.state.writecb) /\ Books(n, {m.state.writecb.ids[1]}, d)
<1> DEFINE s == m.state
           r == n.state
           x == s.writecb.ids[1]
           b == Book(m, {}, d)
           c == Book(n, {x}, d)
<1>1. Chunks(s, d) /\ Ledger(s, d) /\ Single(s.writecb) /\ s.writelen \in Nat
  <2>1. Chunks(s, d) /\ Ledger(s, d) /\ Single(s.writecb) /\ s.writelen \in Sizes
      BY DEF Books, Stored, Flying
  <2> QED
      BY <2>1, WritableAssumption
<1>2. Ledger(r, d)
    BY <1>1, LedgerLanded DEF Chunks
<1>3. Stored(r, d)
    BY <1>1, <1>2 DEF Stored, Flying, Chunks
<1>4. CalledOnce(n.obs) /\ CalledIds(n) = CalledIds(m)
    BY SameToldOnce DEF Books
<1>5. /\ b["queue"] = Queue(m, d) /\ b["flight"] = Flight(m) /\ b["tick"] = Debts(m.ticks, "run", OweTicks)
      /\ b["frame"] = Debts(m.stack, "at", OweFrames) /\ b["called"] = CalledIds(m) /\ b["hand"] = {}
    BY BookAt
<1>6. /\ c["queue"] = Queue(n, d) /\ c["flight"] = Flight(n) /\ c["tick"] = Debts(n.ticks, "run", OweTicks)
      /\ c["frame"] = Debts(n.stack, "at", OweFrames) /\ c["called"] = CalledIds(n) /\ c["hand"] = {x}
  <2> HIDE DEF x
  <2> QED
      BY BookAt
<1>7. Queue(n, d) = Queue(m, d)
    BY DEF Queue
<1>8. Partition(b, m.obs.acc) /\ n.obs.acc = m.obs.acc
  <2>1. Partition(b, m.obs.acc)
      BY DEF Books
  <2> QED
      BY <2>1 DEF SameTold
<1> HIDE DEF b, c
<1>9. Flight(m) = {x} /\ Flight(n) = {}
    BY DEF Flight
<1>10. SamePages(b, c, {"flight", "hand"})
    BY <1>4, <1>5, <1>6, <1>7 DEF SamePages, Places, Lasting
<1> HIDE DEF x
<1>11. Partition(c, n.obs.acc)
  <2>1. x \in b["flight"] /\ \A id : id \in c["flight"] <=> id \in b["flight"] /\ id # x
      BY <1>5, <1>6, <1>9
  <2>2. \A id : id \in c["hand"] <=> id \in b["hand"] \/ id = x
      BY <1>5, <1>6
  <2> QED
      BY <1>8, <1>10, <2>1, <2>2, Turned DEF Places
<1>12. Books(n, {x}, d)
    BY <1>3, <1>4, <1>11 DEF Books, Lasting, c
<1> QED
    BY <1>1, <1>12 DEF x

(* The chunks that were sent leave the buffer.                             *)
LEMMA DropBooks ==
    ASSUME NEW m, NEW n, NEW d, Books(m, {}, d), Lasting(m, n), NoLoop(m.stack), SameTold(m.obs, n.obs),
           n.state.buffer = NotWritten(m.state.buffer, d), n.state.length = m.state.length,
           n.state.writing = m.state.writing, n.state.writecb = m.state.writecb,
           n.state.writelen = m.state.writelen, n.state.bufferProcessing = FALSE
    PROVE  Books(n, {}, 0) /\ Len(n.state.buffer) = Len(m.state.buffer) - d
<1> DEFINE s == m.state
           r == n.state
           l == Len(s.buffer)
           z == Len(r.buffer)
           b == Book(m, {}, d)
           c == Book(n, {}, 0)
<1>1. /\ Ledger(s, d) /\ Flying(s) /\ s.buffer \in Seq(Chunk) /\ d \in 0 .. l /\ s.writelen \in Nat
      /\ \A k \in 1 .. l : s.buffer[k].len \in Sizes
      /\ \A i, j \in d + 1 .. l : s.buffer[i].id = s.buffer[j].id => i = j
  <2>1. Chunks(s, d) /\ Flying(s) /\ Ledger(s, d)
      BY DEF Books, Stored
  <2> QED
      BY <2>1, FlyingNat DEF Chunks
<1>2. /\ Ledger(r, 0) /\ r.buffer \in Seq(Chunk) /\ z = l - d
      /\ \A k \in 1 .. z : k + d \in d + 1 .. l /\ r.buffer[k] = s.buffer[k + d]
    BY <1>1, LedgerDropped
<1>3. l \in Nat /\ z \in Nat /\ d \in Nat
    BY <1>1, <1>2, LenProperties
<1>4. /\ 0 \in 0 .. z /\ \A k \in 0 + 1 .. z : k \in 1 .. z
      /\ \A k \in 1 .. z : k \in 0 + 1 .. z
      /\ \A k \in d + 1 .. l : k \in 1 .. l /\ \E i \in 1 .. z : k = i + d
      /\ \A i, j \in 1 .. z : i + d = j + d => i = j
  <2>1. z = l - d
      BY <1>2
  <2> HIDE DEF l, z
  <2>2. \A k \in d + 1 .. l : k - d \in 1 .. z /\ k = (k - d) + d /\ k \in 1 .. l
      BY <1>3, <2>1
  <2>3. \A i, j \in 1 .. z : i + d = j + d => i = j
      BY <1>3
  <2> QED
      BY <1>3, <2>2, <2>3
<1>5. \A k \in 1 .. z : r.buffer[k].len \in Sizes
    BY <1>1, <1>2, <1>4
<1>6. \A i, j \in 0 + 1 .. z : r.buffer[i].id = r.buffer[j].id => i = j
  <2> TAKE i, j \in 0 + 1 .. z
  <2> HAVE r.buffer[i].id = r.buffer[j].id
  <2>1. i \in 1 .. z /\ j \in 1 .. z
      BY <1>4
  <2>2. /\ i + d \in d + 1 .. l /\ j + d \in d + 1 .. l
        /\ s.buffer[i + d].id = s.buffer[j + d].id
      BY <1>2, <2>1
  <2>3. i + d = j + d
      BY <1>1, <2>2
  <2> QED
      BY <1>4, <2>1, <2>3
<1>7. Stored(r, 0)
  <2>1. Chunks(r, 0)
      BY <1>2, <1>4, <1>5, <1>6 DEF Chunks
  <2>2. Flying(r)
      BY <1>1 DEF Flying
  <2> QED
      BY <1>2, <2>1, <2>2 DEF Stored
<1>8. CalledOnce(n.obs) /\ CalledIds(n) = CalledIds(m)
    BY SameToldOnce DEF Books
<1>9. /\ b["queue"] = Queue(m, d) /\ b["flight"] = Flight(m) /\ b["tick"] = Debts(m.ticks, "run", OweTicks)
      /\ b["frame"] = Debts(m.stack, "at", OweFrames) /\ b["called"] = CalledIds(m) /\ b["hand"] = {}
    BY BookAt
<1>10. /\ c["queue"] = Queue(n, 0) /\ c["flight"] = Flight(n) /\ c["tick"] = Debts(n.ticks, "run", OweTicks)
       /\ c["frame"] = Debts(n.stack, "at", OweFrames) /\ c["called"] = CalledIds(n) /\ c["hand"] = {}
    BY BookAt
<1>11. Partition(b, m.obs.acc) /\ n.obs.acc = m.obs.acc
  <2>1. Partition(b, m.obs.acc)
      BY DEF Books
  <2> QED
      BY <2>1 DEF SameTold
<1> HIDE DEF b, c
<1>12. Flight(n) = Flight(m)
    BY DEF Flight
<1>13. /\ \A id : id \in b["queue"] <=> \E k \in d + 1 .. l : id = s.buffer[k].id
       /\ \A id : id \in c["queue"] <=> \E k \in 0 + 1 .. z : id = r.buffer[k].id
    BY <1>9, <1>10 DEF Queue
<1>14. \A id : id \in c["queue"] <=> id \in b["queue"]
  <2> HIDE DEF l, z
  <2>1. ASSUME NEW id, id \in c["queue"] PROVE id \in b["queue"]
    <3>1. PICK k \in 1 .. z : id = r.buffer[k].id
        BY <1>4, <1>13, <2>1
    <3>2. k + d \in d + 1 .. l /\ r.buffer[k] = s.buffer[k + d]
        BY <1>2 DEF l, z
    <3> QED
        BY <1>13, <3>1, <3>2
  <2>2. ASSUME NEW id, id \in b["queue"] PROVE id \in c["queue"]
    <3>1. PICK k \in d + 1 .. l : id = s.buffer[k].id
        BY <1>13, <2>2
    <3>2. PICK i \in 1 .. z : k = i + d
        BY <1>4
    <3>3. r.buffer[i] = s.buffer[k]
        BY <1>2, <3>2 DEF l, z
    <3> QED
        BY <1>4, <1>13, <3>1, <3>3
  <2> QED
      BY <2>1, <2>2
<1>15. SamePages(b, c, {})
    BY <1>8, <1>9, <1>10, <1>12, <1>14 DEF SamePages, Places, Lasting
<1>16. Partition(c, n.obs.acc)
    BY <1>11, <1>15, Resting
<1>17. AllLawful(n.stack, 0)
    BY DEF Books, AllLawful, Lawful, NoLoop, Lasting
<1>18. Books(n, {}, 0)
    BY <1>7, <1>8, <1>16, <1>17 DEF Books, Lasting, c
<1> QED
    BY <1>2, <1>18

(* What the parts of a machine are after the steps the functions take.     *)
LEMMA PushIs ==
    ASSUME NEW m, Shaped(m), NEW f
    PROVE  LET n == Push(m, f)
           IN  Shaped(n) /\ n.state = m.state /\ n.obs = m.obs /\ n.ticks = m.ticks /\ n.stack = Append(m.stack, f)
    BY PushQuiet DEF Kept

(* What the parts are after process.nextTick().                            *)
LEMMA NextTickIs ==
    ASSUME NEW m, Shaped(m), NEW t
    PROVE  LET n == NextTick(m, t)
           IN  Shaped(n) /\ n.state = m.state /\ n.obs = m.obs /\ n.stack = m.stack /\ n.ticks = Append(m.ticks, t)
<1>1. IsSeq(Append(m.ticks, t))
    BY AppendAny DEF Shaped
<1> QED
    BY <1>1 DEF NextTick, Shaped, Has

(* Fields that the books do not look at are set.                           *)
LEMMA WithBooks ==
    ASSUME NEW m, NEW X, NEW d, Books(m, X, d), NEW s, NEW o, Has(s, StateNames), Has(o, ObsNames),
           SameStore(m.state, s), s.bufferProcessing = m.state.bufferProcessing, SameTold(m.obs, o)
    PROVE  LET n == With(m, s, o)
           IN  Books(n, X, d) /\ n.state = s /\ n.obs = o /\ n.stack = m.stack /\ n.ticks = m.ticks
<1> DEFINE n == With(m, s, o)
<1>1. Shaped(n) /\ n.state = s /\ n.obs = o /\ n.stack = m.stack /\ n.ticks = m.ticks
    BY WithParts DEF Books
<1> HIDE DEF n
<1>2. Books(n, X, d)
    BY <1>1, SameBooks DEF Same
<1> QED
    BY <1>1, <1>2 DEF n

(* Nothing is set.                                                         *)
LEMMA SameSelf == ASSUME NEW m, NEW n, Shaped(n), n.state = m.state, n.obs = m.obs PROVE Same(m, n)
    BY DEF Same, SameStore, SameTold

(* Books are of a machine.                                                 *)
LEMMA BookShaped == ASSUME NEW m, NEW X, NEW d, Books(m, X, d) PROVE Shaped(m)
    BY DEF Books

(* A frame that owes nothing, ...                                          *)
LEMMA CallBooks ==
    ASSUME NEW m, NEW X, NEW d, Books(m, X, d), NEW f, Lawful(f, d), ~Loop(f), f.at \notin OweFrames
    PROVE  Books(Push(m, f), X, d)
<1> DEFINE n == Push(m, f)
<1>1. Shaped(n) /\ n.state = m.state /\ n.obs = m.obs /\ n.ticks = m.ticks /\ n.stack = Append(m.stack, f)
    BY BookShaped, PushIs
<1> HIDE DEF n
<1>2. Same(m, n)
    BY <1>1, SameSelf
<1>3. Books(n, X, d)
    BY <1>1, <1>2, PushBooks
<1> QED
    BY <1>3 DEF n

(* ... and one that takes what is in hand.                                 *)
LEMMA OweBooks ==
    ASSUME NEW m, NEW id, NEW d, Books(m, {id}, d), NEW f, f.at \in OweFrames, f.cb = Cb1(id)
    PROVE  Books(Push(m, f), {}, d)
<1> DEFINE n == Push(m, f)
<1>1. Shaped(n) /\ n.state = m.state /\ n.obs = m.obs /\ n.ticks = m.ticks /\ n.stack = Append(m.stack, f)
    BY BookShaped, PushIs
<1> HIDE DEF n
<1>2. Same(m, n)
    BY <1>1, SameSelf
<1>3. Lawful(f, d) /\ ~Loop(f)
    BY DEF Lawful, Loop, OweFrames
<1>4. Single(f.cb) /\ f.cb.ids[1] = id
    BY OneCb
<1>5. Books(n, {}, d)
    BY <1>1, <1>2, <1>3, <1>4, PushBooks
<1> QED
    BY <1>5 DEF n

(* Frames that Lawful asks nothing of.                                     *)
LEMMA PlainLawful ==
    ASSUME NEW f, NEW d, f.at \notin {"_write", "_writev", "cb"}
    PROVE  Lawful(f, d) /\ ~Loop(f)
    BY DEF Lawful, Loop

(* finishMaybe() and the other functions that touch no chunk.              *)
LEMMA EmitFinishBooks ==
    ASSUME NEW m, NEW X, NEW d, Books(m, X, d)
    PROVE  Books(EmitFinish(m), X, d)
<1> DEFINE s == [m.state EXCEPT !.finished = TRUE]
           o == [m.obs EXCEPT !.finishes = @ + 1, !.endcb = FireOnce(@)]
           n == With(m, s, o)
           f == Frame("finish")
<1>1. Has(s, StateNames) /\ SameStore(m.state, s) /\ s.bufferProcessing = m.state.bufferProcessing
    BY BookShaped DEF Shaped, Has, StateNames, SameStore
<1>2. Has(o, ObsNames) /\ SameTold(m.obs, o)
    BY BookShaped DEF Shaped, Has, ObsNames, SameTold
<1>3. EmitFinish(m) = Push(n, f) /\ f.at = "finish"
    BY DEF EmitFinish, Frame
<1> HIDE DEF s, o, f
<1>4. Books(n, X, d)
    BY <1>1, <1>2, WithBooks
<1> HIDE DEF n
<1> QED
    BY <1>3, <1>4, PlainLawful, CallBooks DEF OweFrames

(* finishMaybe().                                                          *)
LEMMA FinishMaybeBooks ==
    ASSUME NEW m, NEW X, NEW d, Books(m, X, d)
    PROVE  Books(FinishMaybe(m), X, d)
<1> DEFINE s == [m.state EXCEPT !.prefinished = TRUE]
           n == With(m, s, m.obs)
           f == [Frame("prefinish") EXCEPT !.fin = CalledBack(m.state)]
<1>1. CASE ~NeedFinish(m.state) \/ (m.state.prefinished /\ ~CalledBack(m.state))
    BY <1>1 DEF FinishMaybe
<1>2. CASE NeedFinish(m.state) /\ m.state.prefinished /\ CalledBack(m.state)
    BY <1>2, EmitFinishBooks DEF FinishMaybe
<1>3. CASE NeedFinish(m.state) /\ ~m.state.prefinished
  <2>1. Has(s, StateNames) /\ SameStore(m.state, s) /\ s.bufferProcessing = m.state.bufferProcessing
      BY BookShaped DEF Shaped, Has, StateNames, SameStore
  <2>2. FinishMaybe(m) = Push(n, f)
      BY <1>3 DEF FinishMaybe, WithState
  <2>3. f.at = "prefinish"
      BY DEF Frame
  <2>4. Has(m.obs, ObsNames) /\ SameTold(m.obs, m.obs)
      BY BookShaped DEF Shaped, SameTold
  <2> HIDE DEF s, f
  <2>5. Books(n, X, d)
      BY <2>1, <2>4, WithBooks
  <2> HIDE DEF n
  <2> QED
      BY <2>2, <2>3, <2>5, PlainLawful, CallBooks DEF OweFrames
<1> QED
    BY <1>1, <1>2, <1>3

(* A rejected write().                                                     *)
LEMMA RejectBooks ==
    ASSUME NEW m, NEW X, NEW d, Books(m, X, d)
    PROVE  Books(Reject(m), X, d)
<1> DEFINE o == [m.obs EXCEPT !.rejects = @ + 1]
           n == With(m, m.state, o)
           f == [Frame("error") EXCEPT !.then = "rejected"]
<1>1. Has(o, ObsNames) /\ SameTold(m.obs, o)
    BY BookShaped DEF Shaped, Has, ObsNames, SameTold
<1>2. f.at = "error" /\ Reject(m) = Push(n, f)
    BY DEF Frame, Reject, WithObs
<1>3. Has(m.state, StateNames) /\ SameStore(m.state, m.state)
    BY BookShaped DEF Shaped, SameStore
<1> HIDE DEF o, f
<1>4. Books(n, X, d)
    BY <1>1, <1>3, WithBooks
<1> HIDE DEF n
<1> QED
    BY <1>2, <1>4, PlainLawful, CallBooks DEF OweFrames

(* The end of endWritable().                                               *)
LEMMA EndReturnBooks ==
    ASSUME NEW m, NEW d, Books(m, {}, d), NEW hasCb
    PROVE  Books(EndReturn(m, hasCb), {}, d)
<1> DEFINE e == IF ~hasCb THEN m.obs.endcb ELSE IF m.state.finished THEN "ticked" ELSE "once"
           s == [m.state EXCEPT !.ended = TRUE]
           o == [m.obs EXCEPT !.endcb = e]
           n == With(m, s, o)
           t == Tick("endcb")
<1>1. Has(s, StateNames) /\ SameStore(m.state, s) /\ s.bufferProcessing = m.state.bufferProcessing
    BY BookShaped DEF Shaped, Has, StateNames, SameStore
<1>2. Has(o, ObsNames) /\ SameTold(m.obs, o)
  <2> HIDE DEF e
  <2> QED
      BY BookShaped DEF Shaped, Has, ObsNames, SameTold
<1>3. EndReturn(m, hasCb) = IF hasCb /\ m.state.finished THEN NextTick(n, t) ELSE n
    BY DEF EndReturn
<1>4. t.run = "endcb"
    BY DEF Tick
<1> HIDE DEF s, o, t
<1>5. Books(n, {}, d)
    BY <1>1, <1>2, WithBooks
<1> HIDE DEF n
<1>6. Books(NextTick(n, t), {}, d)
  <2> DEFINE r == NextTick(n, t)
  <2>1. Shaped(r) /\ r.state = n.state /\ r.obs = n.obs /\ r.stack = n.stack /\ r.ticks = Append(n.ticks, t)
      BY <1>5, BookShaped, NextTickIs
  <2> HIDE DEF r
  <2>2. Same(n, r)
      BY <2>1, SameSelf
  <2>3. Books(r, {}, d)
      BY <1>4, <1>5, <2>1, <2>2, NextTickBooks DEF OweTicks
  <2> QED
      BY <2>3 DEF r
<1> QED
    BY <1>3, <1>5, <1>6

(* A callback in hand is called, ...                                       *)
LEMMA CallCbBooks ==
    ASSUME NEW m, NEW id, NEW d, Books(m, {id}, d), NEW ok, NEW then
    PROVE  Books(CallCb(m, <<id>>, ok, then), {}, d)
<1> DEFINE s == [m.state EXCEPT !.pendingcb = @ - 1]
           e == [id |-> Head(<<id>>), ok |-> ok]
           o == [m.obs EXCEPT !.called = Append(@, e)]
           f == [Frame("cb") EXCEPT !.cb = [v |-> FALSE, ids |-> <<id>>], !.ok = ok, !.then = then]
           n == With(m, s, o)
<1>1. Has(s, StateNames) /\ SameStore(m.state, s) /\ s.bufferProcessing = m.state.bufferProcessing
    BY BookShaped DEF Shaped, Has, StateNames, SameStore
<1>2. e.id = id
    OBVIOUS
<1> HIDE DEF e
<1>3. Has(o, ObsNames) /\ o.acc = m.obs.acc /\ o.called = Append(m.obs.called, e)
    BY BookShaped DEF Shaped, Has, ObsNames
<1>4. f.at = "cb" /\ f.cb = Cb1(id)
    BY DEF Frame, Cb1
<1>5. CallCb(m, <<id>>, ok, then) = Push(n, f)
    BY DEF CallCb, e
<1> HIDE DEF s, o, f
<1>6. Shaped(n) /\ n.state = s /\ n.obs = o /\ n.stack = m.stack /\ n.ticks = m.ticks
    BY <1>1, <1>3, BookShaped, WithParts
<1> HIDE DEF n
<1>7. Books(n, {}, d)
    BY <1>1, <1>2, <1>3, <1>6, CalledBooks
<1>8. Lawful(f, d) /\ ~Loop(f) /\ f.at \notin OweFrames
    BY <1>4, OneCb DEF Lawful, Loop, OweFrames
<1> QED
    BY <1>5, <1>7, <1>8, CallBooks

(* ... at once, ...                                                        *)
LEMMA RunCbBooks ==
    ASSUME NEW m, NEW id, NEW d, Books(m, {id}, d), NEW ok, NEW then
    PROVE  Books(RunCb(m, Cb1(id), ok, then), {}, d)
<1> DEFINE s == [m.state EXCEPT !.pendingcb = @ - 0]
           n == With(m, s, m.obs)
<1>1. Has(s, StateNames) /\ SameStore(m.state, s) /\ s.bufferProcessing = m.state.bufferProcessing
    BY BookShaped DEF Shaped, Has, StateNames, SameStore
<1>2. RunCb(m, Cb1(id), ok, then) = CallCb(n, <<id>>, ok, then)
    BY DEF RunCb, WithState, Cb1
<1>3. Has(m.obs, ObsNames) /\ SameTold(m.obs, m.obs)
    BY BookShaped DEF Shaped, SameTold
<1> HIDE DEF s
<1>4. Books(n, {id}, d)
    BY <1>1, <1>3, WithBooks
<1> HIDE DEF n
<1> QED
    BY <1>2, <1>4, CallCbBooks

(* ... after the listeners of 'drain'.                                     *)
LEMMA AfterWriteBooks ==
    ASSUME NEW m, NEW id, NEW d, Books(m, {id}, d), NEW fin
    PROVE  Books(AfterWrite(m, fin, Cb1(id)), {}, d)
<1> DEFINE s == [m.state EXCEPT !.needDrain = FALSE]
           o == [m.obs EXCEPT !.owed = FALSE]
           f == [Frame("drain") EXCEPT !.cb = Cb1(id)]
           n == With(m, s, o)
<1>1. Has(s, StateNames) /\ SameStore(m.state, s) /\ s.bufferProcessing = m.state.bufferProcessing
    BY BookShaped DEF Shaped, Has, StateNames, SameStore
<1>2. Has(o, ObsNames) /\ SameTold(m.obs, o)
    BY BookShaped DEF Shaped, Has, ObsNames, SameTold
<1>3. f.at = "drain" /\ f.cb = Cb1(id)
    BY DEF Frame
<1>4. AfterWrite(m, fin, Cb1(id)) = IF DrainDue(m.state, fin) THEN Push(n, f)
                                    ELSE RunCb(m, Cb1(id), TRUE, "finishMaybe")
    BY DEF AfterWrite
<1> HIDE DEF s, o, f
<1>5. Books(n, {id}, d)
    BY <1>1, <1>2, WithBooks
<1> HIDE DEF n
<1>6. Books(Push(n, f), {}, d)
    BY <1>3, <1>5, OweBooks DEF OweFrames
<1> QED
    BY <1>4, <1>6, RunCbBooks

(* doWrite() of one chunk: the stream before the call, and the frame.      *)
Started(m, k, f, len, id, c) ==
    /\ f.at = "_write" /\ f.c = c
    /\ Lasting(m, k) /\ SameTold(m.obs, k.obs)
    /\ k.state.writing = TRUE /\ k.state.writecb = Cb1(id) /\ k.state.writelen = len
    /\ k.state.buffer = m.state.buffer /\ k.state.length = m.state.length
    /\ k.state.bufferProcessing = m.state.bufferProcessing

(* doWrite() is such a step and the call.                                  *)
LEMMA DoWriteIs ==
    ASSUME NEW m, Shaped(m), NEW len, NEW chunks, NEW id, NEW c
    PROVE  \E k, f : DoWrite(m, FALSE, len, chunks, Cb1(id), c) = Push(k, f) /\ Started(m, k, f, len, id, c)
<1> DEFINE s == [m.state EXCEPT !.writelen = len, !.writecb = Cb1(id), !.writing = TRUE, !.sync = TRUE]
           o == [m.obs EXCEPT !.sent = @ \o Ids(chunks), !.inflight = @ + 1]
           f == [Frame("_write") EXCEPT !.c = c, !.cb = Cb1(id)]
           k == With(m, s, o)
<1>1. /\ Has(s, StateNames) /\ s.writing = TRUE /\ s.writecb = Cb1(id) /\ s.writelen = len
      /\ s.buffer = m.state.buffer /\ s.length = m.state.length /\ s.bufferProcessing = m.state.bufferProcessing
    BY DEF Shaped, Has, StateNames
<1>2. Has(o, ObsNames) /\ SameTold(m.obs, o)
    BY DEF Shaped, Has, ObsNames, SameTold
<1>3. f.at = "_write" /\ f.c = c
    BY DEF Frame
<1>4. DoWrite(m, FALSE, len, chunks, Cb1(id), c) = Push(k, f)
    BY DEF DoWrite
<1> HIDE DEF s, o, f
<1>5. Shaped(k) /\ k.state = s /\ k.obs = o /\ k.stack = m.stack /\ k.ticks = m.ticks
    BY <1>1, <1>2, WithParts
<1> HIDE DEF k
<1>6. Lasting(m, k) /\ SameTold(m.obs, k.obs)
    BY <1>2, <1>5 DEF Lasting
<1>7. Started(m, k, f, len, id, c)
    BY <1>1, <1>3, <1>5, <1>6 DEF Started
<1> QED
    BY <1>4, <1>7

(* A turn of clearBuffer()'s loop; k is m when the flag was set.           *)
LEMMA WriteNthBooks ==
    ASSUME NEW m, NEW k, NEW d, Books(m, {}, d), NoLoop(m.stack), ~m.state.writing, d < Len(m.state.buffer),
           Lasting(m, k), SameTold(m.obs, k.obs), SameStore(m.state, k.state), k.state.bufferProcessing
    PROVE  Books(WriteNth(k, d + 1), {}, d + 1)
<1> DEFINE e == d + 1
           c == k.state.buffer[e]
<1>1. WriteNth(k, e) = DoWrite(k, FALSE, c.len, <<c>>, Cb1(c.id), e)
    BY DEF WriteNth
<1>2. Shaped(k)
    BY DEF Lasting
<1> HIDE DEF e, c
<1> DEFINE len == c.len
           id == c.id
           cs == <<c>>
<1>a. PICK r, f : DoWrite(k, FALSE, len, cs, Cb1(id), e) = Push(r, f) /\ Started(k, r, f, len, id, e)
  <2> HIDE DEF len, id, cs
  <2> QED
      BY <1>2, DoWriteIs
<1>3. /\ f.at = "_write" /\ f.c = e
      /\ Lasting(k, r) /\ SameTold(k.obs, r.obs)
      /\ r.state.writing = TRUE /\ r.state.writecb = Cb1(c.id) /\ r.state.writelen = c.len
      /\ r.state.buffer = k.state.buffer /\ r.state.length = k.state.length
      /\ r.state.bufferProcessing = k.state.bufferProcessing
    BY <1>a DEF Started
<1>4. Lasting(m, r) /\ SameTold(m.obs, r.obs)
    BY <1>3 DEF Lasting, SameTold
<1>5. /\ r.state.buffer = m.state.buffer /\ r.state.length = m.state.length /\ r.state.bufferProcessing
      /\ c = m.state.buffer[d + 1]
    BY <1>3 DEF SameStore, c, e
<1>6. Books(r, {}, d + 1)
    BY <1>3, <1>4, <1>5, SendBooks
<1> DEFINE n == Push(r, f)
<1>7. Shaped(n) /\ n.state = r.state /\ n.obs = r.obs /\ n.ticks = r.ticks /\ n.stack = Append(r.stack, f)
    BY <1>6, BookShaped, PushIs
<1> HIDE DEF n
<1>8. Same(r, n)
    BY <1>7, SameSelf
<1>9. Lawful(f, d + 1) /\ NoLoop(r.stack) /\ f.at \notin OweFrames
    BY <1>3, <1>4 DEF Lawful, Lasting, OweFrames, e
<1>10. Books(n, {}, d + 1)
    BY <1>6, <1>7, <1>8, <1>9, PushBooks
<1> QED
    BY <1>1, <1>a, <1>10 DEF n, e

(* How much of the buffer was sent.                                        *)
LEMMA BooksNat ==
    ASSUME NEW m, NEW X, NEW d, Books(m, X, d)
    PROVE  /\ d \in 0 .. Len(m.state.buffer) /\ m.state.buffer \in Seq(Chunk) /\ Len(m.state.buffer) \in Nat
           /\ m.state.bufferProcessing <=> d # 0
    BY LenProperties DEF Books, Stored, Chunks

(* No loop of clearBuffer() is running when none of it was.                *)
LEMMA NoLoopAt0 == ASSUME NEW m, NEW X, Books(m, X, 0) PROVE NoLoop(m.stack)
    BY DEF Books, AllLawful, Lawful, NoLoop, Loop

(* clearBuffer().                                                          *)
LEMMA ClearBufferBooks ==
    ASSUME ~HasWritev, NEW m, NEW d, Books(m, {}, d), ~m.state.bufferProcessing, ~m.state.writing,
           m.state.buffer # <<>>
    PROVE  Books(ClearBuffer(m), {}, 1)
<1> DEFINE s == [m.state EXCEPT !.bufferProcessing = TRUE, !.pendingcb = @ + 0]
           k == With(m, s, m.obs)
<1>1. d = 0 /\ m.state.buffer \in Seq(Chunk) /\ Len(m.state.buffer) \in Nat
    BY BooksNat
<1>2. 0 < Len(m.state.buffer)
    BY <1>1, EmptySeq
<1>3. Books(m, {}, 0) /\ NoLoop(m.stack)
    BY <1>1, NoLoopAt0
<1>4. Has(s, StateNames) /\ SameStore(m.state, s) /\ s.bufferProcessing
    BY BookShaped DEF Shaped, Has, StateNames, SameStore
<1>5. Has(m.obs, ObsNames) /\ SameTold(m.obs, m.obs)
    BY BookShaped DEF Shaped, SameTold
<1>6. ClearBuffer(m) = WriteNth(k, 1)
    BY DEF ClearBuffer, WithState
<1> HIDE DEF s
<1>7. Shaped(k) /\ k.state = s /\ k.obs = m.obs /\ k.stack = m.stack /\ k.ticks = m.ticks
    BY <1>4, <1>5, BookShaped, WithParts
<1> HIDE DEF k
<1>8. Lasting(m, k) /\ SameTold(m.obs, k.obs) /\ SameStore(m.state, k.state) /\ k.state.bufferProcessing
    BY <1>4, <1>5, <1>7 DEF Lasting
<1>9. Books(WriteNth(k, 0 + 1), {}, 0 + 1)
    BY <1>2, <1>3, <1>8, WriteNthBooks
<1> QED
    BY <1>6, <1>9

(* write(): accepted, and sent or queued.                                  *)
LEMMA WriteOrBufferBooks ==
    ASSUME NEW m, NEW d, Books(m, {}, d), NEW len \in Sizes
    PROVE  Books(WriteOrBuffer(m, len), {}, d)
<1> DEFINE id == m.obs.acc + 1
           chunk == [id |-> id, len |-> len]
           full == m.state.length + len >= HighWaterMark
           s == [m.state EXCEPT !.pendingcb = @ + 1, !.length = @ + len, !.needDrain = full]
           o == [m.obs EXCEPT !.acc = id, !.owed = @ \/ full]
           k == With(m, s, o)
           r == [k.state EXCEPT !.buffer = Append(@, chunk)]
           n == With(k, r, k.obs)
<1>1. WriteOrBuffer(m, len) = IF MustBuffer(m.state) THEN n ELSE DoWrite(k, FALSE, len, <<chunk>>, Cb1(id), 0)
    BY DEF WriteOrBuffer, WithState
<1> HIDE DEF full
<1>2. /\ Has(s, StateNames) /\ s.length = m.state.length + len /\ s.buffer = m.state.buffer
      /\ s.writing = m.state.writing /\ s.writecb = m.state.writecb /\ s.writelen = m.state.writelen
      /\ s.bufferProcessing = m.state.bufferProcessing
    BY BookShaped DEF Shaped, Has, StateNames
<1>3. Has(o, ObsNames) /\ o.acc = id /\ o.called = m.obs.called
    BY BookShaped DEF Shaped, Has, ObsNames
<1> HIDE DEF s, o
<1>4. Shaped(k) /\ k.state = s /\ k.obs = o /\ k.stack = m.stack /\ k.ticks = m.ticks
    BY <1>2, <1>3, BookShaped, WithParts
<1>5. CASE MustBuffer(m.state)
  <2>1. /\ Has(r, StateNames) /\ r.length = s.length /\ r.buffer = Append(m.state.buffer, chunk)
        /\ r.writing = m.state.writing /\ r.writecb = m.state.writecb /\ r.writelen = m.state.writelen
        /\ r.bufferProcessing = m.state.bufferProcessing
    <3> HIDE DEF k, chunk
    <3> QED
        BY <1>2, <1>4 DEF Has, StateNames
  <2> HIDE DEF r, k
  <2>2. Shaped(n) /\ n.state = r /\ n.obs = o /\ n.stack = m.stack /\ n.ticks = m.ticks
      BY <1>3, <1>4, <2>1, WithParts
  <2> HIDE DEF n
  <2>3. Accepts(m, n, len)
      BY <1>2, <1>3, <2>1, <2>2 DEF Accepts, Lasting
  <2>4. Books(n, {}, d)
      BY <2>1, <2>2, <2>3, QueueBooks
  <2> QED
      BY <1>1, <1>5, <2>4
<1>6. CASE ~MustBuffer(m.state)
  <2> HIDE DEF n, k
  <2> DEFINE cs == <<chunk>>
  <2>a. PICK p, f : DoWrite(k, FALSE, len, cs, Cb1(id), 0) = Push(p, f) /\ Started(k, p, f, len, id, 0)
    <3> HIDE DEF cs, id
    <3> QED
        BY <1>4, DoWriteIs
  <2>1. /\ f.at = "_write" /\ f.c = 0
        /\ Lasting(k, p) /\ SameTold(k.obs, p.obs)
        /\ p.state.writing = TRUE /\ p.state.writecb = Cb1(id) /\ p.state.writelen = len
        /\ p.state.buffer = k.state.buffer /\ p.state.length = k.state.length
        /\ p.state.bufferProcessing = k.state.bufferProcessing
      BY <2>a DEF Started
  <2>2. Accepts(m, p, len)
      BY <1>2, <1>3, <1>4, <2>1 DEF Accepts, Lasting, SameTold
  <2>3. ~m.state.writing
      BY <1>6 DEF MustBuffer
  <2>4. Books(p, {}, d)
      BY <1>2, <1>4, <2>1, <2>2, <2>3, StartBooks
  <2>5. Lawful(f, d) /\ ~Loop(f) /\ f.at \notin OweFrames
      BY <2>1 DEF Lawful, Loop, OweFrames
  <2>6. Books(Push(p, f), {}, d)
      BY <2>4, <2>5, CallBooks
  <2> QED
      BY <1>1, <1>6, <2>a, <2>6
<1> QED
    BY <1>5, <1>6

(* uncork().                                                               *)
LEMMA UncorkToBooks ==
    ASSUME ~HasWritev, NEW m, NEW d, Books(m, {}, d), NEW c
    PROVE  Balanced(UncorkTo(m, c), {})
<1> DEFINE s == [m.state EXCEPT !.corked = c]
           k == With(m, s, m.obs)
<1>1. Has(s, StateNames) /\ SameStore(m.state, s) /\ s.bufferProcessing = m.state.bufferProcessing
    BY BookShaped DEF Shaped, Has, StateNames, SameStore
<1>2. Has(m.obs, ObsNames) /\ SameTold(m.obs, m.obs)
    BY BookShaped DEF Shaped, SameTold
<1>3. UncorkTo(m, c) = IF /\ ~k.state.writing /\ k.state.corked = 0 /\ ~k.state.finished
                          /\ ~k.state.bufferProcessing /\ k.state.buffer # <<>>
                       THEN ClearBuffer(k) ELSE k
    BY DEF UncorkTo, WithState
<1> HIDE DEF s
<1>4. Books(k, {}, d)
    BY <1>1, <1>2, WithBooks
<1> HIDE DEF k
<1> QED
    BY <1>3, <1>4, ClearBufferBooks DEF Balanced

(* end().                                                                  *)
LEMMA EndWritableBooks ==
    ASSUME NEW m, NEW d, Books(m, {}, d), NEW hasCb
    PROVE  Books(EndWritable(m, hasCb), {}, d)
<1> DEFINE s == [m.state EXCEPT !.ending = TRUE]
           k == With(m, s, m.obs)
           f == [Frame("endWritable") EXCEPT !.hasCb = hasCb]
<1>1. Has(s, StateNames) /\ SameStore(m.state, s) /\ s.bufferProcessing = m.state.bufferProcessing
    BY BookShaped DEF Shaped, Has, StateNames, SameStore
<1>2. Has(m.obs, ObsNames) /\ SameTold(m.obs, m.obs)
    BY BookShaped DEF Shaped, SameTold
<1>3. f.at = "endWritable"
    BY DEF Frame
<1>4. EndWritable(m, hasCb) = IF m.state.ending \/ m.state.finished THEN m ELSE FinishMaybe(Push(k, f))
    BY DEF EndWritable, WithState
<1> HIDE DEF s, f
<1>5. Books(k, {}, d)
    BY <1>1, <1>2, WithBooks
<1> HIDE DEF k
<1>6. Books(FinishMaybe(Push(k, f)), {}, d)
    BY <1>3, <1>5, PlainLawful, CallBooks, FinishMaybeBooks DEF OweFrames
<1> QED
    BY <1>4, <1>6

(* A function of the library waits for a call it made.                     *)
LEMMA LibBooks ==
    ASSUME NEW m, NEW d, Books(m, {}, d), NEW at \in {"end", "endUncork"}, NEW hasCb
    PROVE  Books(Push(m, [Frame(at) EXCEPT !.hasCb = hasCb]), {}, d)
<1> DEFINE f == [Frame(at) EXCEPT !.hasCb = hasCb]
<1>1. f.at = at
    BY DEF Frame
<1> HIDE DEF f
<1>2. Books(Push(m, f), {}, d)
    BY <1>1, PlainLawful, CallBooks DEF OweFrames
<1> QED
    BY <1>2 DEF f

(* end() uncorks first, ...                                                *)
LEMMA EndUncorkBooks ==
    ASSUME ~HasWritev, NEW m, NEW d, Books(m, {}, d), NEW hasCb
    PROVE  Balanced(EndUncork(m, hasCb), {})
<1>1. Books(Push(m, [Frame("endUncork") EXCEPT !.hasCb = hasCb]), {}, d)
    BY LibBooks
<1> QED
    BY <1>1, UncorkToBooks, EndWritableBooks DEF EndUncork, Balanced

(* ... and writes its chunk before that.                                   *)
LEMMA EndChunkBooks ==
    ASSUME NEW m, NEW d, Books(m, {}, d), NEW len \in Sizes, NEW hasCb
    PROVE  Books(EndChunk(m, len, hasCb), {}, d)
<1>1. Books(Push(m, [Frame("end") EXCEPT !.hasCb = hasCb]), {}, d)
    BY LibBooks
<1> QED
    BY <1>1, RejectBooks, WriteOrBufferBooks DEF EndChunk

(* The callback of a _write().                                             *)
LEMMA OnwriteStateUpdateBooks ==
    ASSUME NEW m, NEW d, Books(m, {}, d), m.state.writing
    PROVE  LET n == OnwriteStateUpdate(m)
           IN  \E id : /\ m.state.writecb = Cb1(id) /\ Books(n, {id}, d) /\ ~n.state.writing
                       /\ n.state.buffer = m.state.buffer
                       /\ n.state.bufferProcessing = m.state.bufferProcessing
<1> DEFINE s == [m.state EXCEPT !.writing = FALSE, !.writecb = NoCb, !.length = @ - m.state.writelen, !.writelen = 0]
           o == [m.obs EXCEPT !.inflight = @ - 1]
           n == With(m, s, o)
<1>1. /\ Has(s, StateNames) /\ s.buffer = m.state.buffer /\ s.length = m.state.length - m.state.writelen
      /\ s.writing = FALSE /\ s.writelen = 0 /\ s.bufferProcessing = m.state.bufferProcessing
    BY BookShaped DEF Shaped, Has, StateNames
<1>2. Has(o, ObsNames) /\ SameTold(m.obs, o)
    BY BookShaped DEF Shaped, Has, ObsNames, SameTold
<1>3. OnwriteStateUpdate(m) = n
    BY DEF OnwriteStateUpdate
<1> HIDE DEF s, o
<1>4. Shaped(n) /\ n.state = s /\ n.obs = o /\ n.stack = m.stack /\ n.ticks = m.ticks
    BY <1>1, <1>2, BookShaped, WithParts
<1> HIDE DEF n
<1>5. Single(m.state.writecb) /\ Books(n, {m.state.writecb.ids[1]}, d)
    BY <1>1, <1>2, <1>4, LandBooks DEF Lasting
<1>6. PICK id : m.state.writecb = Cb1(id)
    BY <1>5 DEF Single
<1>7. Books(n, {id}, d)
    BY <1>5, <1>6, OneCb
<1> QED
    BY <1>1, <1>3, <1>4, <1>6, <1>7

(* The callback in hand is left to a tick, ...                             *)
LEMMA OweTickBooks ==
    ASSUME NEW m, NEW id, NEW d, Books(m, {id}, d), NEW t, t.run \in OweTicks, t.cb = Cb1(id)
    PROVE  Books(NextTick(m, t), {}, d)
<1> DEFINE n == NextTick(m, t)
<1>1. Shaped(n) /\ n.state = m.state /\ n.obs = m.obs /\ n.stack = m.stack /\ n.ticks = Append(m.ticks, t)
    BY BookShaped, NextTickIs
<1> HIDE DEF n
<1>2. Same(m, n)
    BY <1>1, SameSelf
<1>3. Single(t.cb) /\ t.cb.ids[1] = id
    BY OneCb
<1>4. Books(n, {}, d)
    BY <1>1, <1>2, <1>3, NextTickBooks
<1> QED
    BY <1>4 DEF n

(* ... or called with an error.                                            *)
LEMMA OnwriteErrorBooks ==
    ASSUME NEW m, NEW id, NEW d, Books(m, {id}, d), NEW sync
    PROVE  Books(OnwriteError(m, sync, Cb1(id)), {}, d)
<1> DEFINE o == [m.obs EXCEPT !.errored = TRUE]
           n == With(m, m.state, o)
           t == [Tick("error") EXCEPT !.cb = Cb1(id)]
           f == Frame("error")
<1>1. Has(o, ObsNames) /\ SameTold(m.obs, o)
    BY BookShaped DEF Shaped, Has, ObsNames, SameTold
<1>2. Has(m.state, StateNames) /\ SameStore(m.state, m.state)
    BY BookShaped DEF Shaped, SameStore
<1>3. OnwriteError(m, sync, Cb1(id)) = IF sync THEN Push(NextTick(n, t), f) ELSE RunCb(n, Cb1(id), FALSE, "error")
    BY DEF OnwriteError, WithObs
<1>4. t.run = "error" /\ t.cb = Cb1(id) /\ f.at = "error"
    BY DEF Tick, Frame
<1> HIDE DEF o, t, f
<1>5. Books(n, {id}, d)
    BY <1>1, <1>2, WithBooks
<1> HIDE DEF n
<1>6. Books(NextTick(n, t), {}, d)
    BY <1>4, <1>5, OweTickBooks DEF OweTicks
<1>7. Books(Push(NextTick(n, t), f), {}, d)
    BY <1>4, <1>6, PlainLawful, CallBooks DEF OweFrames
<1> QED
    BY <1>3, <1>5, <1>7, RunCbBooks

(* onwrite() once clearBuffer() is back.                                   *)
LEMMA OnwriteReturnBooks ==
    ASSUME NEW m, NEW id, NEW d, Books(m, {id}, d), NEW sync, NEW fin
    PROVE  Books(OnwriteReturn(m, sync, fin, Cb1(id)), {}, d)
<1> DEFINE t == [Tick("afterWrite") EXCEPT !.cb = Cb1(id), !.fin = fin]
<1>1. t.run = "afterWrite" /\ t.cb = Cb1(id)
    BY DEF Tick
<1>2. OnwriteReturn(m, sync, fin, Cb1(id)) = IF sync THEN NextTick(m, t) ELSE AfterWrite(m, fin, Cb1(id))
    BY DEF OnwriteReturn
<1> HIDE DEF t
<1> QED
    BY <1>1, <1>2, OweTickBooks, AfterWriteBooks DEF OweTicks

(* onwrite() after a success.                                              *)
LEMMA OnwriteOkBooks ==
    ASSUME ~HasWritev, NEW m, NEW id, NEW d, Books(m, {id}, d), NEW sync, ~m.state.writing
    PROVE  Balanced(OnwriteOk(m, sync, Cb1(id)), {})
<1> DEFINE fin == NeedFinish(m.state)
           f == [Frame("onwrite") EXCEPT !.cb = Cb1(id), !.fin = fin, !.sync = sync]
           k == Push(m, f)
<1>1. f.at = "onwrite" /\ f.cb = Cb1(id)
    BY DEF Frame
<1>2. OnwriteOk(m, sync, Cb1(id)) =
        IF ~fin /\ m.state.corked = 0 /\ ~m.state.bufferProcessing /\ m.state.buffer # <<>>
        THEN ClearBuffer(k) ELSE OnwriteReturn(m, sync, fin, Cb1(id))
    BY DEF OnwriteOk
<1> HIDE DEF fin, f
<1>3. Books(k, {}, d) /\ k.state = m.state
    BY <1>1, OweBooks, BookShaped, PushIs DEF OweFrames
<1> HIDE DEF k
<1>4. ~m.state.bufferProcessing /\ m.state.buffer # <<>> => Books(ClearBuffer(k), {}, 1)
    BY <1>3, ClearBufferBooks
<1> QED
    BY <1>2, <1>4, OnwriteReturnBooks DEF Balanced

(* onwrite().                                                              *)
LEMMA OnwriteBooks ==
    ASSUME ~HasWritev, NEW m, NEW d, Books(m, {}, d), m.state.writing, NEW ok
    PROVE  Balanced(Onwrite(m, ok), {})
<1> DEFINE n == OnwriteStateUpdate(m)
           sync == m.state.sync
<1>1. PICK id : m.state.writecb = Cb1(id) /\ Books(n, {id}, d) /\ ~n.state.writing
    BY OnwriteStateUpdateBooks
<1>2. Onwrite(m, ok) = IF ok THEN OnwriteOk(n, sync, Cb1(id)) ELSE OnwriteError(n, sync, Cb1(id))
    BY <1>1 DEF Onwrite
<1> HIDE DEF n, sync
<1> QED
    BY <1>1, <1>2, OnwriteOkBooks, OnwriteErrorBooks DEF Balanced

(* Other people's code returns.                                            *)
LEMMA WriteReturnsBooks ==
    ASSUME NEW m, NEW d, Books(m, {}, d), m.stack # <<>>, Top(m).at = "_write"
    PROVE  Balanced(WriteReturns(m), {})
<1> DEFINE f == Top(m)
           p == Pop(m)
           s == [m.state EXCEPT !.sync = FALSE]
           k == With(p, s, p.obs)
           r == [k.state EXCEPT !.buffer = NotWritten(@, f.c), !.bufferProcessing = FALSE]
           n == With(k, r, k.obs)
<1>1. /\ Books(p, {}, d) /\ Lawful(f, d) /\ (Loop(f) => NoLoop(p.stack))
      /\ p.state = m.state /\ p.obs = m.obs
    BY PopBooks DEF OweFrames
<1>2. WriteReturns(m) = IF f.c = 0 THEN k
                        ELSE IF ~k.state.writing /\ f.c < Len(k.state.buffer) THEN WriteNth(k, f.c + 1)
                        ELSE n
    BY DEF WriteReturns, WithState
<1> HIDE DEF p, f
<1>3. Has(s, StateNames) /\ SameStore(p.state, s) /\ s.bufferProcessing = p.state.bufferProcessing
    BY <1>1, BookShaped DEF Shaped, Has, StateNames, SameStore
<1>4. Has(p.obs, ObsNames) /\ SameTold(p.obs, p.obs)
    BY <1>1, BookShaped DEF Shaped, SameTold
<1> HIDE DEF s
<1>5. Books(k, {}, d) /\ k.state = s /\ k.obs = p.obs /\ k.stack = p.stack /\ k.ticks = p.ticks
    BY <1>1, <1>3, <1>4, WithBooks
<1> HIDE DEF k
<1>6. CASE f.c = 0
    BY <1>2, <1>5, <1>6 DEF Balanced
<1>7. CASE f.c # 0
  <2>1. f.c = d /\ d # 0 /\ NoLoop(k.stack)
    <3>1. Loop(f)
        BY <1>7 DEF Loop, f
    <3> QED
        BY <1>1, <1>5, <1>7, <3>1 DEF Lawful
  <2>2. k.state.bufferProcessing /\ Shaped(k)
      BY <1>5, <2>1, BooksNat, BookShaped
  <2>3. CASE ~k.state.writing /\ d < Len(k.state.buffer)
    <3>1. Lasting(k, k) /\ SameTold(k.obs, k.obs) /\ SameStore(k.state, k.state)
        BY <2>2 DEF Lasting, SameTold, SameStore
    <3>3. Books(WriteNth(k, d + 1), {}, d + 1)
        BY <1>5, <2>1, <2>2, <2>3, <3>1, WriteNthBooks
    <3> QED
        BY <1>2, <1>7, <2>1, <2>3, <3>3 DEF Balanced
  <2>4. CASE ~(~k.state.writing /\ d < Len(k.state.buffer))
    <3>1. /\ Has(r, StateNames) /\ r.buffer = NotWritten(k.state.buffer, d) /\ r.length = k.state.length
          /\ r.writing = k.state.writing /\ r.writecb = k.state.writecb /\ r.writelen = k.state.writelen
          /\ r.bufferProcessing = FALSE
      <4>1. Has(k.state, StateNames)
          BY <2>2 DEF Shaped
      <4> QED
          BY <2>1, <4>1 DEF Has, StateNames
    <3> HIDE DEF r
    <3>2. Shaped(n) /\ n.state = r /\ n.obs = k.obs /\ n.stack = k.stack /\ n.ticks = k.ticks
        BY <2>2, <3>1, WithParts DEF Shaped
    <3> HIDE DEF n
    <3>3. Books(n, {}, 0)
        BY <1>5, <2>1, <3>1, <3>2, DropBooks DEF Lasting, SameTold
    <3> QED
        BY <1>2, <1>7, <2>1, <2>4, <3>3 DEF Balanced
  <2> QED
      BY <2>3, <2>4
<1> QED
    BY <1>6, <1>7

(* The callback of a frame is one or none.                                 *)
LEMMA LawfulOne ==
    ASSUME NEW f, NEW d, Lawful(f, d), f.at = "cb" PROVE ~(Len(f.cb.ids) > 1)
<1>1. f.cb = NoCb \/ \E id : f.cb = Cb1(id)
    BY DEF Lawful, Single
<1>2. CASE f.cb = NoCb
  <2>1. NoCb.ids = <<>>
      BY DEF NoCb
  <2>2. f.cb.ids = <<>>
      BY <1>2, <2>1
  <2>3. Len(f.cb.ids) = 0
      BY <2>2, EmptySeq, Zenon
  <2> QED
      BY <2>3
<1>3. ASSUME NEW id, f.cb = Cb1(id) PROVE ~(Len(f.cb.ids) > 1)
  <2>1. Cb1(id).ids = <<id>>
      BY DEF Cb1
  <2>2. f.cb.ids = <<id>>
      BY <1>3, <2>1
  <2>3. Len(<<id>>) = 1
      OBVIOUS
  <2>4. Len(f.cb.ids) = 1
      BY <2>2, <2>3, Zenon
  <2> QED
      BY <2>4
<1> QED
    BY <1>1, <1>2, <1>3

(* A callback of the program returns.                                      *)
LEMMA CbReturnsBooks ==
    ASSUME NEW m, NEW d, Books(m, {}, d), m.stack # <<>>, Top(m).at = "cb"
    PROVE  Books(CbReturns(m), {}, d)
<1> DEFINE f == Top(m)
           p == Pop(m)
           e == Frame("error")
<1>1. Books(p, {}, d) /\ Lawful(f, d)
    BY PopBooks DEF OweFrames
<1>2. ~(Len(f.cb.ids) > 1)
    BY <1>1, LawfulOne
<1>3. CbReturns(m) = IF f.then = "finishMaybe" THEN FinishMaybe(p)
                     ELSE IF f.then = "error" THEN Push(p, e) ELSE p
    BY <1>2 DEF CbReturns
<1>4. e.at = "error"
    BY DEF Frame
<1> HIDE DEF e, p
<1>5. Books(Push(p, e), {}, d)
    BY <1>1, <1>4, PlainLawful, CallBooks DEF OweFrames
<1> QED
    BY <1>1, <1>3, <1>5, FinishMaybeBooks

(* A listener of 'error' returns to writeAfterEnd().                       *)
LEMMA RejectedTickBooks ==
    ASSUME NEW m, NEW d, Books(m, {}, d)
    PROVE  Books(NextTick(m, Tick("rejected")), {}, d)
<1> DEFINE t == Tick("rejected")
           n == NextTick(m, t)
<1>1. t.run = "rejected"
    BY DEF Tick
<1> HIDE DEF t
<1>2. Shaped(n) /\ n.state = m.state /\ n.obs = m.obs /\ n.stack = m.stack /\ n.ticks = Append(m.ticks, t)
    BY BookShaped, NextTickIs
<1> HIDE DEF n
<1>3. Same(m, n)
    BY <1>2, SameSelf
<1>4. Books(n, {}, d)
    BY <1>1, <1>2, <1>3, NextTickBooks DEF OweTicks
<1> QED
    BY <1>4 DEF n, t

(* Any code of the program returns.                                        *)
LEMMA UserReturnsBooks ==
    ASSUME NEW m, NEW d, Books(m, {}, d), m.stack # <<>>, Top(m).at \in UserAt
    PROVE  Balanced(UserReturns(m), {})
<1> DEFINE f == Top(m)
           p == Pop(m)
<1>1. /\ Lawful(f, d)
      /\ f.at \notin OweFrames => Books(p, {}, d)
      /\ f.at \in OweFrames => Single(f.cb) /\ Books(p, {f.cb.ids[1]}, d)
    BY PopBooks
<1>2. CASE f.at = "_write"
    BY <1>2, WriteReturnsBooks DEF UserReturns
<1>3. CASE f.at = "_writev"
    BY <1>1, <1>3 DEF Lawful
<1>4. CASE f.at = "cb"
    BY <1>4, CbReturnsBooks DEF UserReturns, Balanced
<1>5. CASE f.at = "drain"
  <2>1. PICK id : f.cb = Cb1(id)
      BY <1>1, <1>5 DEF OweFrames, Single
  <2>2. Books(p, {id}, d)
    <3>1. f.cb.ids[1] = id
        BY <2>1, OneCb
    <3> QED
        BY <1>1, <1>5, <3>1 DEF OweFrames
  <2>3. UserReturns(m) = RunCb(p, Cb1(id), TRUE, "finishMaybe")
      BY <1>5, <2>1 DEF UserReturns
  <2> HIDE DEF p, f
  <2> QED
      BY <2>2, <2>3, RunCbBooks DEF Balanced
<1>6. CASE f.at = "error"
  <2>1. UserReturns(m) = IF f.then = "rejected" THEN NextTick(p, Tick("rejected")) ELSE p
      BY <1>6 DEF UserReturns, ErrorReturns
  <2>2. Books(p, {}, d)
      BY <1>1, <1>6 DEF OweFrames
  <2> HIDE DEF p, f
  <2> QED
      BY <2>1, <2>2, RejectedTickBooks DEF Balanced
<1>7. CASE f.at = "prefinish"
  <2>1. UserReturns(m) = IF f.fin THEN EmitFinish(p) ELSE p
      BY <1>7 DEF UserReturns
  <2>2. Books(p, {}, d)
      BY <1>1, <1>7 DEF OweFrames
  <2> HIDE DEF p, f
  <2> QED
      BY <2>1, <2>2, EmitFinishBooks DEF Balanced
<1>8. CASE f.at \in {"event", "finish"}
  <2>1. UserReturns(m) = p
      BY <1>8 DEF UserReturns
  <2>2. Books(p, {}, d)
      BY <1>1, <1>8 DEF OweFrames
  <2> QED
      BY <2>1, <2>2 DEF Balanced
<1> QED
    BY <1>2, <1>3, <1>4, <1>5, <1>6, <1>7, <1>8 DEF UserAt

(* A function of the library goes on.                                      *)
LEMMA LibResumesBooks ==
    ASSUME ~HasWritev, NEW m, NEW d, Books(m, {}, d), m.stack # <<>>, Top(m).at \in LibAt
    PROVE  Balanced(LibResumes(m), {})
<1> DEFINE f == Top(m)
           p == Pop(m)
<1>1. /\ f.at \notin OweFrames => Books(p, {}, d)
      /\ f.at \in OweFrames => Single(f.cb) /\ Books(p, {f.cb.ids[1]}, d)
    BY PopBooks
<1>2. CASE f.at = "onwrite"
  <2>1. PICK id : f.cb = Cb1(id)
      BY <1>1, <1>2 DEF OweFrames, Single
  <2>2. Books(p, {id}, d)
    <3>1. f.cb.ids[1] = id
        BY <2>1, OneCb
    <3> QED
        BY <1>1, <1>2, <3>1 DEF OweFrames
  <2>3. LibResumes(m) = OnwriteReturn(p, f.sync, f.fin, Cb1(id))
      BY <1>2, <2>1 DEF LibResumes
  <2> HIDE DEF p, f
  <2> QED
      BY <2>2, <2>3, OnwriteReturnBooks DEF Balanced
<1>3. CASE f.at = "end"
  <2>1. LibResumes(m) = EndUncork(p, f.hasCb) /\ Books(p, {}, d)
      BY <1>1, <1>3 DEF LibResumes, OweFrames
  <2> HIDE DEF p, f
  <2> QED
      BY <2>1, EndUncorkBooks
<1>4. CASE f.at = "endUncork"
  <2>1. LibResumes(m) = EndWritable(p, f.hasCb) /\ Books(p, {}, d)
      BY <1>1, <1>4 DEF LibResumes, OweFrames
  <2> HIDE DEF p, f
  <2> QED
      BY <2>1, EndWritableBooks DEF Balanced
<1>5. CASE f.at = "endWritable"
  <2>1. LibResumes(m) = EndReturn(p, f.hasCb) /\ Books(p, {}, d)
      BY <1>1, <1>5 DEF LibResumes, OweFrames
  <2> HIDE DEF p, f
  <2> QED
      BY <2>1, EndReturnBooks DEF Balanced
<1> QED
    BY <1>2, <1>3, <1>4, <1>5 DEF LibAt

(* A callback that no write() brought is called.                           *)
LEMMA FreshCbBooks ==
    ASSUME NEW m, NEW d, Books(m, {}, d)
    PROVE  Books(Push(m, Frame("cb")), {}, d)
<1> DEFINE f == Frame("cb")
<1>1. f.at = "cb" /\ f.cb = NoCb
    BY DEF Frame
<1> HIDE DEF f
<1>2. Lawful(f, d) /\ ~Loop(f) /\ f.at \notin OweFrames
    BY <1>1 DEF Lawful, Loop, OweFrames
<1>3. Books(Push(m, f), {}, d)
    BY <1>2, CallBooks
<1> QED
    BY <1>3 DEF f

(* A tick is run.                                                          *)
LEMMA RunTickBooks ==
    ASSUME NEW m, NEW d, Books(m, {}, d), m.ticks # <<>>,
           Head(m.ticks).run \in {"afterWrite", "error", "rejected", "endcb"}
    PROVE  Books(RunTick(m), {}, d)
<1> DEFINE t == Head(m.ticks)
           k == [m EXCEPT !.ticks = Tail(@)]
<1>1. Shaped(k) /\ k.state = m.state /\ k.obs = m.obs /\ k.stack = m.stack /\ k.ticks = Tail(m.ticks)
  <2>1. IsSeq(Tail(m.ticks))
    <3>1. PICK S : m.ticks \in Seq(S)
        BY BookShaped DEF Shaped, IsSeq
    <3>2. Tail(m.ticks) \in Seq(S)
        BY <3>1, HeadTailProperties
    <3> QED
        BY <3>2 DEF IsSeq
  <2> QED
      BY <2>1, BookShaped DEF Shaped, Has
<1> HIDE DEF k
<1>2. Same(m, k)
    BY <1>1, SameSelf
<1>3. /\ t.run \in OweTicks => Single(t.cb) /\ Books(k, {t.cb.ids[1]}, d)
      /\ t.run \notin OweTicks => Books(k, {}, d)
    BY <1>1, <1>2, TakeTickBooks
<1>4. ASSUME t.run \in OweTicks PROVE \E id : t.cb = Cb1(id) /\ Books(k, {id}, d)
  <2>1. PICK id : t.cb = Cb1(id)
      BY <1>3, <1>4 DEF Single
  <2>2. t.cb.ids[1] = id
      BY <2>1, OneCb
  <2> QED
      BY <1>3, <1>4, <2>1, <2>2
<1>5. CASE t.run = "afterWrite"
  <2>1. RunTick(m) = AfterWrite(k, t.fin, t.cb)
      BY <1>5 DEF RunTick, k
  <2> HIDE DEF t
  <2>2. PICK id : t.cb = Cb1(id) /\ Books(k, {id}, d)
      BY <1>4, <1>5 DEF OweTicks
  <2> QED
      BY <2>1, <2>2, AfterWriteBooks
<1>6. CASE t.run = "error"
  <2>1. RunTick(m) = RunCb(k, t.cb, FALSE, "return")
      BY <1>6 DEF RunTick, k
  <2> HIDE DEF t
  <2>2. PICK id : t.cb = Cb1(id) /\ Books(k, {id}, d)
      BY <1>4, <1>6 DEF OweTicks
  <2> QED
      BY <2>1, <2>2, RunCbBooks
<1>7. CASE t.run = "rejected"
  <2>1. RunTick(m) = Push(k, Frame("cb")) /\ Books(k, {}, d)
      BY <1>3, <1>7 DEF RunTick, k, OweTicks
  <2> QED
      BY <2>1, FreshCbBooks
<1>8. CASE t.run = "endcb"
  <2> DEFINE o == [k.obs EXCEPT !.endcb = "called"]
             n == With(k, k.state, o)
  <2>1. RunTick(m) = Push(n, Frame("cb")) /\ Books(k, {}, d)
      BY <1>3, <1>8 DEF RunTick, k, OweTicks, WithObs
  <2>2. Has(o, ObsNames) /\ SameTold(k.obs, o)
      BY <1>1 DEF Shaped, Has, ObsNames, SameTold
  <2>3. Has(k.state, StateNames) /\ SameStore(k.state, k.state)
      BY <1>1 DEF Shaped, SameStore
  <2> HIDE DEF o
  <2>4. Books(n, {}, d)
      BY <2>1, <2>2, <2>3, WithBooks
  <2> HIDE DEF n
  <2> QED
      BY <2>1, <2>4, FreshCbBooks
<1> QED
    BY <1>5, <1>6, <1>7, <1>8

(* A new stream has no callbacks.                                          *)
LEMMA InitBooks ==
    ASSUME Init PROVE Balanced(Now, {})
<1> DEFINE s == Now.state
           b == Book(Now, {}, 0)
<1>1. /\ s.buffer = <<>> /\ s.length = 0 /\ s.writelen = 0 /\ ~s.writing /\ ~s.bufferProcessing
      /\ Now.stack = <<>> /\ Now.ticks = <<>> /\ Now.obs.acc = 0 /\ Now.obs.called = <<>>
    BY DEF Init, Now
<1>2. Shaped(Now)
    BY InitInv, MachineShaped DEF Inv, Good
<1> HIDE DEF s
<1>3. <<>> \in Seq(Chunk) /\ <<>> \in Seq(Nat) /\ Len(<<>>) = 0 /\ 1 .. 0 = {} /\ 0 \in 0 .. 0
    BY EmptySeq
<1>4. Stored(s, 0)
  <2> DEFINE g == [k \in 0 .. 0 |-> 0]
  <2>1. g \in [0 .. 0 -> Nat] /\ \A k \in 0 .. 0 : g[k] = 0
      OBVIOUS
  <2> HIDE DEF g
  <2>2. Lengths(s, g)
      BY <1>1, <1>3, <2>1 DEF Lengths
  <2>3. Ledger(s, 0)
      BY <1>1, <1>3, <2>1, <2>2 DEF Ledger
  <2>4. Chunks(s, 0)
      BY <1>1, <1>3 DEF Chunks
  <2> QED
      BY <1>1, <2>3, <2>4 DEF Stored, Flying
<1>5. IsSeq(<<>>)
    BY <1>3 DEF IsSeq
<1>6. CalledOnce(Now.obs)
    BY <1>1, <1>3, <1>5 DEF CalledOnce
<1>7. AllLawful(Now.stack, 0) /\ Owed(Now.stack, "at", OweFrames) /\ Owed(Now.ticks, "run", OweTicks)
    BY <1>1, <1>3, <1>5 DEF AllLawful, Owed
<1>8. Partition(b, Now.obs.acc)
  <2>1. ~Now.state.writing /\ Len(Now.state.buffer) = 0 /\ 0 + 1 .. 0 = {}
      BY <1>1, <1>3 DEF s
  <2>2. Queue(Now, 0) = {} /\ Flight(Now) = {}
      BY <2>1 DEF Queue, Flight
  <2>3. Debts(Now.ticks, "run", OweTicks) = {} /\ Debts(Now.stack, "at", OweFrames) = {} /\ CalledIds(Now) = {}
      BY <1>1, <1>3 DEF Debts, CalledIds
  <2>4. \A p \in Places : b[p] = {}
      BY <2>2, <2>3 DEF Book, Places
  <2> HIDE DEF b
  <2> QED
      BY <1>1, <1>3, <2>4 DEF Partition
<1>9. Books(Now, {}, 0)
    BY <1>1, <1>2, <1>4, <1>6, <1>7, <1>8 DEF Books, s
<1> QED
    BY <1>9 DEF Balanced

(* What a step leads to is what the function it calls returns.             *)
LEMMA BecomeBalanced ==
    ASSUME NEW m, Become(m), Balanced(m, {}) PROVE Balanced(Now', {})
<1>1. Shaped(m)
    BY BookShaped DEF Balanced
<1>2. Now' = m
    BY <1>1, BecomeShaped
<1> QED
    BY <1>2

(* No step loses a callback or calls one that has been called.             *)
LEMMA StepBooks ==
    ASSUME ~HasWritev, Inv(Now), Balanced(Now, {}), [Next]_vars PROVE Balanced(Now', {})
<1>1. PICK d : Books(Now, {}, d)
    BY DEF Balanced
<1>2. Now \in Machine /\ Now.state = state /\ Now.obs = obs /\ Now.stack = stack /\ Now.ticks = ticks
    BY DEF Inv, Good, Now
<1>3. Shaped(Now)
    BY <1>1, BookShaped
<1>4. ASSUME NEW m, Become(m), Books(m, {}, d) PROVE Balanced(Now', {})
    BY <1>4, BecomeBalanced DEF Balanced
<1>5. CASE Write
    BY <1>1, <1>4, <1>5, WriteOrBufferBooks DEF Write
<1>6. CASE RejectedWrite
    BY <1>1, <1>4, <1>6, RejectBooks DEF RejectedWrite
<1>n. CASE WriteNull
  <2> DEFINE s == [state EXCEPT !.pendingcb = @ + 1]
             o == [obs EXCEPT !.nulls = @ + 1]
             n == With(Now, s, o)
  <2>1. Become(n)
      BY <1>n DEF WriteNull
  <2>2. Has(s, StateNames) /\ SameStore(state, s) /\ s.bufferProcessing = state.bufferProcessing
      BY <1>2, <1>3 DEF Shaped, Has, StateNames, SameStore
  <2>3. Has(o, ObsNames) /\ SameTold(obs, o)
      BY <1>2, <1>3 DEF Shaped, Has, ObsNames, SameTold
  <2> HIDE DEF s, o
  <2>4. Books(n, {}, d)
      BY <1>1, <1>2, <2>2, <2>3, WithBooks
  <2> HIDE DEF n
  <2> QED
      BY <1>4, <2>1, <2>4
<1>7. CASE Cork
  <2> DEFINE s == [state EXCEPT !.corked = @ + 1]
             n == With(Now, s, obs)
  <2>1. Become(n)
      BY <1>2, <1>7 DEF Cork, WithState
  <2>2. Has(s, StateNames) /\ SameStore(state, s) /\ s.bufferProcessing = state.bufferProcessing
      BY <1>2, <1>3 DEF Shaped, Has, StateNames, SameStore
  <2>3. Has(obs, ObsNames) /\ SameTold(obs, obs)
      BY <1>2, <1>3 DEF Shaped, SameTold
  <2> HIDE DEF s
  <2>4. Books(n, {}, d)
      BY <1>1, <1>2, <2>2, <2>3, WithBooks
  <2> HIDE DEF n
  <2> QED
      BY <1>4, <2>1, <2>4
<1>8. CASE Uncork
    BY <1>1, <1>8, UncorkToBooks, BecomeBalanced DEF Uncork
<1>9. CASE End
    BY <1>1, <1>9, EndUncorkBooks, BecomeBalanced DEF End
<1>10. CASE EndWithChunk
    BY <1>1, <1>4, <1>10, EndChunkBooks DEF EndWithChunk
<1>11. CASE WriteDone
  <2>1. Now.state.writing
      BY <1>2, <1>11 DEF WriteDone, Inv, Good
  <2> QED
      BY <1>1, <1>11, <2>1, OnwriteBooks, BecomeBalanced DEF WriteDone
<1>12. CASE Return
    BY <1>1, <1>2, <1>12, UserReturnsBooks, BecomeBalanced DEF Return, Running
<1>13. CASE Resume
    BY <1>1, <1>2, <1>13, LibResumesBooks, BecomeBalanced DEF Resume, Running
<1>14. CASE ProcessTick
  <2>1. Now.ticks # <<>> /\ Become(RunTick(Now))
      BY <1>2, <1>14 DEF ProcessTick
  <2>2. Now.ticks \in Seq(Ticks)
      BY <1>2 DEF Machine
  <2>3. Head(Now.ticks) \in Ticks
      BY <2>1, <2>2, HeadTailProperties
  <2>4. Head(Now.ticks).run \in {"afterWrite", "error", "rejected", "endcb"}
      BY <2>3 DEF Ticks, TickFields
  <2> QED
      BY <1>1, <1>4, <2>1, <2>4, RunTickBooks
<1>15. CASE NewEvent
  <2>1. Frame("event").at = "event"
      BY DEF Frame
  <2>2. Books(Push(Now, Frame("event")), {}, d)
      BY <1>1, <2>1, PlainLawful, CallBooks DEF OweFrames
  <2> QED
      BY <1>4, <1>15, <2>2 DEF NewEvent
<1>16. CASE UNCHANGED vars
  <2>1. Now' = Now
      BY <1>16 DEF vars, Now
  <2> QED
      BY <2>1
<1> QED
    BY <1>5, <1>6, <1>n, <1>7, <1>8, <1>9, <1>10, <1>11, <1>12, <1>13, <1>14, <1>15, <1>16 DEF Next

(* The callbacks have their places in every reachable state.               *)
LEMMA BalancedAlways == ASSUME ~HasWritev PROVE Spec => [](WritableInv /\ Balanced(Now, {}))
<1>1. Init => Balanced(Now, {})
    BY InitBooks
<1>2. WritableInv /\ Balanced(Now, {}) /\ [Next]_vars => Balanced(Now, {})'
  <2>1. ASSUME WritableInv, Balanced(Now, {}), [Next]_vars PROVE Balanced(Now', {})
      BY <2>1, StepBooks DEF WritableInv
  <2>2. Balanced(Now, {})' <=> Balanced(Now', {})
      OBVIOUS
  <2> QED
      BY <2>1, <2>2
<1> QED
    BY <1>1, <1>2, InvAlways, PTL DEF Spec

(* The callbacks that were called are as many as there were calls.         *)
LEMMA CalledCount ==
    ASSUME NEW m, CalledOnce(m.obs)
    PROVE  /\ IsFiniteSet(CalledIds(m)) /\ Cardinality(CalledIds(m)) = Len(m.obs.called)
           /\ Len(m.obs.called) \in Nat /\ DOMAIN m.obs.called = 1 .. Len(m.obs.called)
<1> DEFINE q == m.obs.called
           l == Len(q)
           f == [i \in 1 .. l |-> q[i].id]
           T == CalledIds(m)
<1>1. l \in Nat /\ DOMAIN q = 1 .. l
  <2>1. PICK S : q \in Seq(S)
      BY DEF CalledOnce, IsSeq
  <2> QED
      BY <2>1, LenProperties
<1>2. f \in Bijection(1 .. l, T)
  <2>1. f \in [1 .. l -> T] /\ \A t \in T : \E i \in 1 .. l : f[i] = t
      BY DEF CalledIds
  <2>2. \A i, j \in 1 .. l : f[i] = f[j] => i = j
      BY DEF CalledOnce
  <2> HIDE DEF f, T
  <2> QED
      BY <2>1, <2>2 DEF Bijection, Injection, Surjection, IsInjective
<1> HIDE DEF f, T, l
<1>3. ExistsBijection(1 .. l, T)
    BY <1>2 DEF ExistsBijection
<1>4. IsFiniteSet(1 .. l) /\ Cardinality(1 .. l) = l
    BY <1>1, FS_Interval
<1>5. IsFiniteSet(T) /\ Cardinality(T) = l
    BY <1>3, <1>4, FS_Bijection
<1> QED
    BY <1>1, <1>5 DEF l, T

(* ... and no more than the chunks that were accepted.                     *)
LEMMA CalledWithin ==
    ASSUME NEW m, NEW d, Books(m, {}, d)
    PROVE  Len(m.obs.called) <= m.obs.acc /\ Len(m.obs.called) \in Nat /\ m.obs.acc \in Nat
<1> DEFINE b == Book(m, {}, d)
           n == m.obs.acc
<1>1. CalledOnce(m.obs) /\ n \in Nat /\ Partition(b, n)
    BY DEF Books, CalledOnce
<1>2. b["called"] = CalledIds(m) /\ "called" \in Places
    BY DEF Book, Places
<1> HIDE DEF b, n
<1>3. CalledIds(m) \subseteq 1 .. n
    BY <1>1, <1>2 DEF Partition
<1>4. IsFiniteSet(1 .. n) /\ Cardinality(1 .. n) = n
    BY <1>1, FS_Interval
<1>5. Cardinality(CalledIds(m)) <= n
    BY <1>3, <1>4, FS_Subset
<1> QED
    BY <1>1, <1>5, CalledCount DEF n

(* No callback of a write() is called twice.                               *)
NoneTwice == Cardinality({obs.called[i].id : i \in DOMAIN obs.called}) = Len(obs.called)

(* Of a stream without _writev(): whatever callbacks, listeners and        *)
(* _write() itself call, and whatever fails, the callback of a write() is  *)
(* called at most once.                                                    *)
THEOREM CallbacksOnce == ASSUME ~HasWritev PROVE Spec => []NoneTwice
<1>1. Balanced(Now, {}) => NoneTwice
  <2> SUFFICES ASSUME Balanced(Now, {}) PROVE NoneTwice
      OBVIOUS
  <2>1. Now.obs = obs /\ CalledOnce(Now.obs)
      BY DEF Balanced, Books, Now
  <2>2. Cardinality(CalledIds(Now)) = Len(obs.called) /\ DOMAIN obs.called = 1 .. Len(obs.called)
      BY <2>1, CalledCount
  <2>3. CalledIds(Now) = {obs.called[i].id : i \in 1 .. Len(obs.called)}
      BY <2>1 DEF CalledIds
  <2> QED
      BY <2>2, <2>3 DEF NoneTwice
<1> QED
    BY <1>1, BalancedAlways, PTL

-----------------------------------------------------------------------------
(* What a stream without errors still has to do, something will do: send   *)
(* what is in the buffer, and finish.                                      *)

Busy(s) == s.buffer # <<>> /\ s.corked = 0 /\ ~s.writing => s.bufferProcessing
FinishDue(s) == NeedFinish(s) /\ CalledBack(s)

(* Frames and ticks that come to finishMaybe(), and those of an error.     *)
Helps(f) == \/ f.at \in OweFrames
            \/ f.at = "cb" /\ f.then = "finishMaybe"
            \/ f.at = "prefinish" /\ f.fin
Fails(f) == f.at = "cb" /\ f.then = "error"
Hope(m)  == \/ \E i \in 1 .. Len(m.stack) : Helps(m.stack[i])
            \/ \E i \in 1 .. Len(m.ticks) : m.ticks[i].run = "afterWrite"
Unfailed(m) == /\ \A i \in 1 .. Len(m.stack) : ~Fails(m.stack[i])
               /\ \A i \in 1 .. Len(m.ticks) : m.ticks[i].run # "error"

Sure(m)   == Shaped(m) /\ Unfailed(m) /\ (m.state.finished => m.state.length = 0)
Steady(m) == Sure(m) /\ Busy(m.state)
Alive(m)  == Steady(m) /\ (FinishDue(m.state) => Hope(m))

(* Nothing is due, or something will do it.                                *)
LEMMA SteadyAlive == ASSUME NEW m, Steady(m), ~FinishDue(m.state) \/ Hope(m) PROVE Alive(m)
    BY DEF Alive

(* A stream of length 0 has no chunk left that was not sent.               *)
LEMMA LengthZero ==
    ASSUME 0 \notin Sizes, NEW s, NEW d, Stored(s, d), s.length = 0
    PROVE  ~s.writing /\ d = Len(s.buffer)
<1> DEFINE l == Len(s.buffer)
<1>1. PICK g : Lengths(s, g) /\ s.length = s.writelen + (g[l] - g[d])
    BY DEF Stored, Ledger
<1>2. /\ l \in Nat /\ d \in 0 .. l /\ s.writelen \in Nat
      /\ \A k \in 1 .. l : s.buffer[k].len \in Sizes
    BY FlyingNat, LenProperties DEF Stored, Chunks
<1>3. \A x \in Sizes : x \in Nat /\ x > 0
  <2>1. \A x \in Sizes : x \in Nat
      BY WritableAssumption
  <2> QED
      BY <2>1
<1>4. /\ g \in [0 .. l -> Nat] /\ \A k \in 1 .. l : g[k] = g[k - 1] + s.buffer[k].len
      /\ \A i, j \in 0 .. l : i <= j => g[i] <= g[j]
      /\ 0 = s.writelen + (g[l] - g[d])
    BY <1>1 DEF Lengths
<1> HIDE DEF l
<1>5. g[d] \in Nat /\ g[l] \in Nat /\ g[d] <= g[l]
    BY <1>2, <1>4
<1>6. s.writelen = 0 /\ g[l] = g[d]
    BY <1>2, <1>4, <1>5
<1>7. ~s.writing
    BY <1>3, <1>6 DEF Stored, Flying
<1>8. ASSUME d # l PROVE FALSE
  <2>1. d + 1 \in 1 .. l /\ d + 1 \in 0 .. l /\ d + 1 <= l /\ (d + 1) - 1 = d
      BY <1>2, <1>8
  <2> DEFINE e == d + 1
  <2>2. e \in 1 .. l /\ e \in 0 .. l /\ e <= l /\ e - 1 = d /\ l \in 0 .. l
      BY <1>2, <2>1
  <2> HIDE DEF e
  <2>3. g[e] = g[d] + s.buffer[e].len
      BY <1>4, <2>2
  <2>4. g[e] <= g[l] /\ g[e] \in Nat
      BY <1>4, <2>2
  <2>5. s.buffer[e].len \in Nat /\ s.buffer[e].len > 0
      BY <1>2, <1>3, <2>2
  <2> QED
      BY <1>5, <1>6, <2>3, <2>4, <2>5
<1> QED
    BY <1>7, <1>8 DEF l

(* So what finished or is about to has nothing to send.                    *)
LEMMA NothingLeft ==
    ASSUME 0 \notin Sizes, NEW m, NEW X, NEW d, Books(m, X, d), m.state.length = 0
    PROVE  m.state.buffer # <<>> => m.state.bufferProcessing
<1>1. d = Len(m.state.buffer)
    BY LengthZero DEF Books
<1>2. m.state.buffer \in Seq(Chunk) /\ (m.state.bufferProcessing <=> d # 0)
    BY BooksNat
<1> QED
    BY <1>1, <1>2, EmptySeq

(* The steps that functions are made of.                                   *)
LEMMA PushAlive ==
    ASSUME NEW m, Sure(m), NEW f, ~Fails(f)
    PROVE  LET n == Push(m, f)
           IN  /\ Sure(n) /\ (Busy(m.state) => Steady(n)) /\ (Alive(m) => Alive(n))
               /\ Steady(m) /\ Helps(f) => Alive(n)
               /\ n.state = m.state /\ n.obs = m.obs
<1> DEFINE n == Push(m, f)
           k == Len(m.stack)
<1>1. Shaped(n) /\ n.state = m.state /\ n.obs = m.obs /\ n.ticks = m.ticks /\ n.stack = Append(m.stack, f)
    BY PushIs DEF Sure
<1> HIDE DEF n
<1>2. /\ Len(n.stack) = k + 1 /\ k \in Nat /\ n.stack[k + 1] = f
      /\ \A i \in 1 .. k : n.stack[i] = m.stack[i]
    BY <1>1, AppendAny DEF Sure, Shaped
<1> HIDE DEF k
<1>3. /\ \A i \in 1 .. Len(n.stack) : i = k + 1 \/ i \in 1 .. k
      /\ k + 1 \in 1 .. Len(n.stack) /\ \A i \in 1 .. k : i \in 1 .. Len(n.stack)
    BY <1>2
<1>4. Unfailed(n)
    BY <1>1, <1>2, <1>3 DEF Sure, Unfailed, k
<1>5. Hope(m) \/ Helps(f) => Hope(n)
    BY <1>1, <1>2, <1>3 DEF Hope, k
<1>6. Sure(n)
    BY <1>1, <1>4 DEF Sure
<1>7. Busy(m.state) => Steady(n)
    BY <1>1, <1>6 DEF Steady
<1>8. Alive(m) => Alive(n)
    BY <1>1, <1>5, <1>7 DEF Alive, Steady
<1>9. Steady(m) /\ Helps(f) => Alive(n)
    BY <1>5, <1>7 DEF Alive, Steady
<1> QED
    BY <1>1, <1>6, <1>7, <1>8, <1>9 DEF n

(* Fields are set.                                                         *)
LEMMA WithAlive ==
    ASSUME NEW m, Shaped(m), Unfailed(m), NEW s, NEW o, Has(s, StateNames), Has(o, ObsNames),
           s.finished => s.length = 0
    PROVE  LET n == With(m, s, o)
           IN  /\ Sure(n) /\ (Busy(s) => Steady(n))
               /\ Busy(s) /\ ~FinishDue(s) => Alive(n)
               /\ Alive(m) /\ Busy(s) /\ (FinishDue(s) => FinishDue(m.state)) => Alive(n)
               /\ n.state = s /\ n.obs = o /\ n.stack = m.stack /\ n.ticks = m.ticks
<1> DEFINE n == With(m, s, o)
<1>1. Shaped(n) /\ n.state = s /\ n.obs = o /\ n.stack = m.stack /\ n.ticks = m.ticks
    BY WithParts
<1> HIDE DEF n
<1>2. Unfailed(n) /\ (Hope(n) <=> Hope(m))
    BY <1>1 DEF Unfailed, Hope
<1>3. Sure(n)
    BY <1>1, <1>2 DEF Sure
<1>4. Busy(s) => Steady(n)
    BY <1>1, <1>3 DEF Steady
<1>5. Busy(s) /\ ~FinishDue(s) => Alive(n)
    BY <1>1, <1>4 DEF Alive
<1>6. Alive(m) /\ Busy(s) /\ (FinishDue(s) => FinishDue(m.state)) => Alive(n)
    BY <1>1, <1>2, <1>4 DEF Alive
<1> QED
    BY <1>1, <1>3, <1>4, <1>5, <1>6 DEF n

(* A tick is scheduled.                                                    *)
LEMMA NextTickAlive ==
    ASSUME NEW m, Steady(m), NEW t, t.run # "error"
    PROVE  LET n == NextTick(m, t)
           IN  (Alive(m) => Alive(n)) /\ (t.run = "afterWrite" => Alive(n))
<1> DEFINE n == NextTick(m, t)
           k == Len(m.ticks)
<1>1. Shaped(n) /\ n.state = m.state /\ n.obs = m.obs /\ n.stack = m.stack /\ n.ticks = Append(m.ticks, t)
    BY NextTickIs DEF Steady, Sure
<1> HIDE DEF n
<1>2. /\ Len(n.ticks) = k + 1 /\ k \in Nat /\ n.ticks[k + 1] = t
      /\ \A i \in 1 .. k : n.ticks[i] = m.ticks[i]
    BY <1>1, AppendAny DEF Steady, Sure, Shaped
<1> HIDE DEF k
<1>3. /\ \A i \in 1 .. Len(n.ticks) : i = k + 1 \/ i \in 1 .. k
      /\ k + 1 \in 1 .. Len(n.ticks) /\ \A i \in 1 .. k : i \in 1 .. Len(n.ticks)
    BY <1>2
<1>4. Unfailed(n)
    BY <1>1, <1>2, <1>3 DEF Steady, Sure, Unfailed, k
<1>5. Hope(m) \/ t.run = "afterWrite" => Hope(n)
    BY <1>1, <1>2, <1>3 DEF Hope, k
<1>6. Steady(n)
    BY <1>1, <1>4 DEF Steady, Sure
<1> QED
    BY <1>1, <1>5, <1>6 DEF Alive, n

(* A frame is popped; what it helped is looked after by its return.        *)
LEMMA PopAlive ==
    ASSUME NEW m, Alive(m), m.stack # <<>>
    PROVE  LET n == Pop(m)
           IN  /\ Steady(n) /\ ~Fails(Top(m)) /\ (~Helps(Top(m)) => Alive(n))
               /\ n.state = m.state /\ n.obs = m.obs
<1> DEFINE n == Pop(m)
           l == Len(m.stack)
<1>1. Shaped(m)
    BY DEF Alive, Steady, Sure
<1>2. /\ l \in Nat \ {0} /\ Len(n.stack) = l - 1
      /\ \A i \in 1 .. l - 1 : n.stack[i] = m.stack[i]
    BY <1>1, PopFrames
<1>3. Shaped(n) /\ n.state = m.state /\ n.obs = m.obs /\ n.ticks = m.ticks
  <2>1. IsSeq(SubSeq(m.stack, 1, Len(m.stack) - 1))
      BY <1>1, FrontOf DEF Shaped
  <2> QED
      BY <1>1, <2>1 DEF Pop, Shaped, Has
<1> HIDE DEF n
<1>4. Top(m) = m.stack[l] /\ l \in 1 .. l /\ \A i \in 1 .. l : i = l \/ i \in 1 .. l - 1
    BY <1>2 DEF Top
<1> HIDE DEF l
<1>5. \A i \in 1 .. Len(n.stack) : i \in 1 .. l /\ n.stack[i] = m.stack[i]
    BY <1>2
<1>6. Unfailed(n) /\ ~Fails(Top(m))
    BY <1>3, <1>4, <1>5 DEF Alive, Steady, Sure, Unfailed, l
<1>7. Hope(m) /\ ~Helps(Top(m)) => Hope(n)
    BY <1>2, <1>3, <1>4 DEF Hope, l
<1>8. Steady(n)
    BY <1>3, <1>6 DEF Alive, Steady, Sure
<1> QED
    BY <1>3, <1>6, <1>7, <1>8 DEF Alive, n

(* The same of a tick.                                                     *)
LEMMA TakeTickAlive ==
    ASSUME NEW m, Alive(m), m.ticks # <<>>
    PROVE  LET n == [m EXCEPT !.ticks = Tail(@)]
               t == Head(m.ticks)
           IN  /\ Steady(n) /\ t.run # "error" /\ (t.run # "afterWrite" => Alive(n))
               /\ n.state = m.state /\ n.obs = m.obs
<1> DEFINE n == [m EXCEPT !.ticks = Tail(@)]
           q == m.ticks
           t == Head(q)
           l == Len(q)
<1>1. Shaped(m)
    BY DEF Alive, Steady, Sure
<1>2. PICK S : q \in Seq(S)
    BY <1>1 DEF Shaped, IsSeq
<1>3. Tail(q) \in Seq(S) /\ Len(Tail(q)) = l - 1 /\ t = q[1] /\ l \in Nat \ {0}
    BY <1>2, HeadTailProperties, LenProperties, EmptySeq
<1>4. \A i \in 1 .. l - 1 : Tail(q)[i] = q[i + 1]
    BY <1>2, <1>3, HeadTailProperties
<1>5. Shaped(n) /\ n.state = m.state /\ n.obs = m.obs /\ n.stack = m.stack /\ n.ticks = Tail(q)
  <2>1. IsSeq(Tail(q))
      BY <1>3 DEF IsSeq
  <2> QED
      BY <1>1, <2>1 DEF Shaped, Has
<1> HIDE DEF n, t, l
<1>6. /\ 1 \in 1 .. l /\ \A i \in 1 .. l - 1 : i + 1 \in 1 .. l
      /\ \A i \in 1 .. l : i = 1 \/ (i - 1 \in 1 .. l - 1 /\ (i - 1) + 1 = i)
    BY <1>3
<1>7. Unfailed(n) /\ t.run # "error"
    BY <1>3, <1>4, <1>5, <1>6 DEF Alive, Steady, Sure, Unfailed, l
<1>8. Hope(m) /\ t.run # "afterWrite" => Hope(n)
  <2>1. ASSUME NEW i \in 1 .. l, q[i].run = "afterWrite", t.run # "afterWrite"
        PROVE  \E j \in 1 .. l - 1 : Tail(q)[j].run = "afterWrite"
    <3>1. i # 1
        BY <1>3, <2>1
    <3>2. i - 1 \in 1 .. l - 1 /\ Tail(q)[i - 1] = q[i]
        BY <1>4, <1>6, <3>1
    <3> QED
        BY <2>1, <3>2
  <2> QED
      BY <1>3, <1>5, <2>1 DEF Hope, l
<1>9. Steady(n)
    BY <1>5, <1>7 DEF Alive, Steady, Sure
<1> QED
    BY <1>5, <1>7, <1>8, <1>9 DEF Alive, n, t

(* What calls finishMaybe() last leaves nothing due.                       *)
LEMMA EmitFinishAlive ==
    ASSUME NEW m, Steady(m), m.state.length = 0
    PROVE  Alive(EmitFinish(m))
<1> DEFINE s == [m.state EXCEPT !.finished = TRUE]
           o == [m.obs EXCEPT !.finishes = @ + 1, !.endcb = FireOnce(@)]
           n == With(m, s, o)
           f == Frame("finish")
<1>1. Has(s, StateNames) /\ s.finished /\ s.length = 0 /\ Busy(s) /\ ~FinishDue(s)
    BY DEF Steady, Sure, Shaped, Has, StateNames, Busy, FinishDue, NeedFinish
<1>2. Has(o, ObsNames)
    BY DEF Steady, Sure, Shaped, Has, ObsNames
<1>3. EmitFinish(m) = Push(n, f) /\ ~Fails(f)
    BY DEF EmitFinish, Frame, Fails
<1> HIDE DEF s, o, f
<1>4. Alive(n)
    BY <1>1, <1>2, WithAlive DEF Steady, Sure
<1> HIDE DEF n
<1> QED
    BY <1>3, <1>4, PushAlive DEF Alive, Steady

(* finishMaybe() leaves nothing due, whatever was.                         *)
LEMMA FinishMaybeAlive ==
    ASSUME NEW m, Steady(m)
    PROVE  Alive(FinishMaybe(m))
<1> DEFINE s == [m.state EXCEPT !.prefinished = TRUE]
           n == With(m, s, m.obs)
           f == [Frame("prefinish") EXCEPT !.fin = CalledBack(m.state)]
<1>1. CASE ~NeedFinish(m.state) \/ (m.state.prefinished /\ ~CalledBack(m.state))
    BY <1>1, SteadyAlive DEF FinishMaybe, FinishDue
<1>2. CASE NeedFinish(m.state) /\ m.state.prefinished /\ CalledBack(m.state)
    BY <1>2, EmitFinishAlive DEF FinishMaybe, NeedFinish
<1>3. CASE NeedFinish(m.state) /\ ~m.state.prefinished
  <2>1. /\ Has(s, StateNames) /\ (s.finished => s.length = 0) /\ Busy(s)
        /\ FinishDue(s) => CalledBack(m.state)
      BY DEF Steady, Sure, Shaped, Has, StateNames, Busy, FinishDue, CalledBack
  <2>2. FinishMaybe(m) = Push(n, f)
      BY <1>3 DEF FinishMaybe, WithState
  <2>3. ~Fails(f) /\ (f.fin <=> CalledBack(m.state)) /\ f.at = "prefinish"
      BY DEF Frame, Fails, CalledBack
  <2>4. Has(m.obs, ObsNames)
      BY DEF Steady, Sure, Shaped
  <2> HIDE DEF s, f
  <2>5. Steady(n) /\ n.state = s
      BY <2>1, <2>4, WithAlive DEF Steady, Sure
  <2> HIDE DEF n
  <2>6. Helps(f) => Alive(Push(n, f))
      BY <2>3, <2>5, PushAlive DEF Steady
  <2>7. Steady(Push(n, f)) /\ Push(n, f).state = s
      BY <2>3, <2>5, PushAlive DEF Steady
  <2> QED
      BY <2>1, <2>2, <2>3, <2>6, <2>7, SteadyAlive DEF Helps
<1> QED
    BY <1>1, <1>2, <1>3

(* A rejected write().                                                     *)
LEMMA RejectAlive ==
    ASSUME NEW m, Alive(m)
    PROVE  Alive(Reject(m))
<1> DEFINE o == [m.obs EXCEPT !.rejects = @ + 1]
           n == With(m, m.state, o)
           f == [Frame("error") EXCEPT !.then = "rejected"]
<1>1. Has(o, ObsNames) /\ Has(m.state, StateNames)
    BY DEF Alive, Steady, Sure, Shaped, Has, ObsNames
<1>2. ~Fails(f) /\ Reject(m) = Push(n, f)
    BY DEF Frame, Reject, WithObs, Fails
<1> HIDE DEF o, f
<1>3. Alive(n)
    BY <1>1, WithAlive DEF Alive, Steady, Sure
<1> HIDE DEF n
<1> QED
    BY <1>2, <1>3, PushAlive DEF Alive, Steady

(* The callback of a write() comes to finishMaybe().                       *)
LEMMA CallCbAlive ==
    ASSUME NEW m, Steady(m), NEW ids, NEW ok
    PROVE  Alive(CallCb(m, ids, ok, "finishMaybe"))
<1> DEFINE s == [m.state EXCEPT !.pendingcb = @ - 1]
           o == [m.obs EXCEPT !.called = Append(@, [id |-> Head(ids), ok |-> ok])]
           f == [Frame("cb") EXCEPT !.cb = [v |-> FALSE, ids |-> ids], !.ok = ok, !.then = "finishMaybe"]
           n == With(m, s, o)
<1>1. Has(s, StateNames) /\ (s.finished => s.length = 0) /\ Busy(s)
    BY DEF Steady, Sure, Shaped, Has, StateNames, Busy
<1>2. Has(o, ObsNames)
    BY DEF Steady, Sure, Shaped, Has, ObsNames
<1>3. ~Fails(f) /\ Helps(f)
    BY DEF Frame, Fails, Helps
<1>4. CallCb(m, ids, ok, "finishMaybe") = Push(n, f)
    BY DEF CallCb
<1> HIDE DEF s, o, f
<1>5. Steady(n)
    BY <1>1, <1>2, WithAlive DEF Steady, Sure
<1> HIDE DEF n
<1> QED
    BY <1>3, <1>4, <1>5, PushAlive DEF Steady

(* The same with the callback that was in hand.                            *)
LEMMA RunCbAlive ==
    ASSUME NEW m, Steady(m), NEW cb, NEW ok
    PROVE  Alive(RunCb(m, cb, ok, "finishMaybe"))
<1> DEFINE own == IF cb.v THEN 1 ELSE 0
           s == [m.state EXCEPT !.pendingcb = @ - own]
           n == With(m, s, m.obs)
<1>1. RunCb(m, cb, ok, "finishMaybe") = CallCb(n, cb.ids, ok, "finishMaybe")
    BY DEF RunCb, WithState
<1> HIDE DEF own
<1>2. Has(s, StateNames) /\ (s.finished => s.length = 0) /\ Busy(s)
    BY DEF Steady, Sure, Shaped, Has, StateNames, Busy
<1>3. Has(m.obs, ObsNames)
    BY DEF Steady, Sure, Shaped
<1> HIDE DEF s
<1>4. Steady(n)
    BY <1>2, <1>3, WithAlive DEF Steady, Sure
<1> HIDE DEF n
<1> QED
    BY <1>1, <1>4, CallCbAlive

(* The listeners of 'drain' come first.                                    *)
LEMMA AfterWriteAlive ==
    ASSUME NEW m, Steady(m), NEW fin, NEW cb
    PROVE  Alive(AfterWrite(m, fin, cb))
<1> DEFINE s == [m.state EXCEPT !.needDrain = FALSE]
           o == [m.obs EXCEPT !.owed = FALSE]
           f == [Frame("drain") EXCEPT !.cb = cb]
           n == With(m, s, o)
<1>1. Has(s, StateNames) /\ (s.finished => s.length = 0) /\ Busy(s)
    BY DEF Steady, Sure, Shaped, Has, StateNames, Busy
<1>2. Has(o, ObsNames)
    BY DEF Steady, Sure, Shaped, Has, ObsNames
<1>3. ~Fails(f) /\ Helps(f)
    BY DEF Frame, Fails, Helps, OweFrames
<1>4. AfterWrite(m, fin, cb) = IF DrainDue(m.state, fin) THEN Push(n, f) ELSE RunCb(m, cb, TRUE, "finishMaybe")
    BY DEF AfterWrite
<1> HIDE DEF s, o, f
<1>5. Steady(n)
    BY <1>1, <1>2, WithAlive DEF Steady, Sure
<1> HIDE DEF n
<1>6. Alive(Push(n, f))
    BY <1>3, <1>5, PushAlive DEF Steady
<1> QED
    BY <1>4, <1>6, RunCbAlive

(* Now or on the next tick.                                                *)
LEMMA OnwriteReturnAlive ==
    ASSUME NEW m, Steady(m), NEW sync, NEW fin, NEW cb
    PROVE  Alive(OnwriteReturn(m, sync, fin, cb))
<1> DEFINE t == [Tick("afterWrite") EXCEPT !.cb = cb, !.fin = fin]
<1>1. t.run = "afterWrite"
    BY DEF Tick
<1>2. OnwriteReturn(m, sync, fin, cb) = IF sync THEN NextTick(m, t) ELSE AfterWrite(m, fin, cb)
    BY DEF OnwriteReturn
<1> HIDE DEF t
<1>3. Alive(NextTick(m, t))
    BY <1>1, NextTickAlive
<1> QED
    BY <1>2, <1>3, AfterWriteAlive

(* A stream that is writing has nothing else to do.                        *)
LEMMA DoWriteAlive ==
    ASSUME NEW m, Sure(m), NEW len, NEW chunks, NEW cb, NEW c
    PROVE  Alive(DoWrite(m, FALSE, len, chunks, cb, c))
<1> DEFINE s == [m.state EXCEPT !.writelen = len, !.writecb = cb, !.writing = TRUE, !.sync = TRUE]
           o == [m.obs EXCEPT !.sent = @ \o Ids(chunks), !.inflight = @ + 1]
           f == [Frame("_write") EXCEPT !.c = c, !.cb = cb]
           n == With(m, s, o)
<1>1. Has(s, StateNames) /\ (s.finished => s.length = 0) /\ Busy(s) /\ ~FinishDue(s)
    BY DEF Sure, Shaped, Has, StateNames, Busy, FinishDue, NeedFinish
<1>2. Has(o, ObsNames)
    BY DEF Sure, Shaped, Has, ObsNames
<1>3. ~Fails(f)
    BY DEF Frame, Fails
<1>4. DoWrite(m, FALSE, len, chunks, cb, c) = Push(n, f)
    BY DEF DoWrite
<1> HIDE DEF s, o, f
<1>5. Alive(n)
    BY <1>1, <1>2, WithAlive DEF Sure
<1> HIDE DEF n
<1> QED
    BY <1>3, <1>4, <1>5, PushAlive DEF Alive, Steady

(* A turn of the loop.                                                     *)
LEMMA WriteNthAlive ==
    ASSUME NEW m, Sure(m), NEW c
    PROVE  Alive(WriteNth(m, c))
    BY DoWriteAlive DEF WriteNth

(* The first one.                                                          *)
LEMMA ClearBufferAlive ==
    ASSUME ~HasWritev, NEW m, Sure(m)
    PROVE  Alive(ClearBuffer(m))
<1> DEFINE s == [m.state EXCEPT !.bufferProcessing = TRUE, !.pendingcb = @ + 0]
           n == With(m, s, m.obs)
<1>1. Has(s, StateNames) /\ (s.finished => s.length = 0) /\ Has(m.obs, ObsNames)
    BY DEF Sure, Shaped, Has, StateNames
<1>2. ClearBuffer(m) = WriteNth(n, 1)
    BY DEF ClearBuffer, WithState
<1> HIDE DEF s
<1>3. Sure(n)
    BY <1>1, WithAlive DEF Sure
<1> HIDE DEF n
<1> QED
    BY <1>2, <1>3, WriteNthAlive

(* The callback of a _write(): the buffer is sent, or waits for uncork()   *)
(* or for the loop that is sending it.                                     *)
LEMMA OnwriteOkAlive ==
    ASSUME ~HasWritev, 0 \notin Sizes, NEW m, NEW X, NEW d, Books(m, X, d), Sure(m), NEW sync, NEW cb
    PROVE  Alive(OnwriteOk(m, sync, cb))
<1> DEFINE fin == NeedFinish(m.state)
           f == [Frame("onwrite") EXCEPT !.cb = cb, !.fin = fin, !.sync = sync]
<1>1. ~Fails(f)
    BY DEF Frame, Fails
<1>2. OnwriteOk(m, sync, cb) =
        IF ~fin /\ m.state.corked = 0 /\ ~m.state.bufferProcessing /\ m.state.buffer # <<>>
        THEN ClearBuffer(Push(m, f)) ELSE OnwriteReturn(m, sync, fin, cb)
    BY DEF OnwriteOk
<1>3. fin => m.state.length = 0
    BY DEF NeedFinish
<1> HIDE DEF fin, f
<1>4. Sure(Push(m, f))
    BY <1>1, PushAlive
<1>5. fin \/ m.state.corked # 0 \/ m.state.bufferProcessing \/ m.state.buffer = <<>> => Steady(m)
    BY <1>3, NothingLeft DEF Steady, Busy
<1> QED
    BY <1>2, <1>4, <1>5, ClearBufferAlive, OnwriteReturnAlive

(* What has landed was not the last of a finished stream.                  *)
LEMMA OnwriteAlive ==
    ASSUME ~HasWritev, 0 \notin Sizes, NEW m, NEW d, Books(m, {}, d), Alive(m), m.state.writing
    PROVE  Alive(Onwrite(m, TRUE))
<1> DEFINE s == [m.state EXCEPT !.writing = FALSE, !.writecb = NoCb, !.length = @ - m.state.writelen, !.writelen = 0]
           o == [m.obs EXCEPT !.inflight = @ - 1]
           n == With(m, s, o)
<1>1. ~m.state.finished
  <2>1. m.state.finished => m.state.length = 0
      BY DEF Alive, Steady, Sure
  <2> QED
      BY <2>1, LengthZero DEF Books
<1>2. Has(s, StateNames) /\ ~s.finished
    BY <1>1, BookShaped DEF Shaped, Has, StateNames
<1>3. Has(o, ObsNames)
    BY BookShaped DEF Shaped, Has, ObsNames
<1>4. OnwriteStateUpdate(m) = n
    BY DEF OnwriteStateUpdate
<1> HIDE DEF s, o
<1>5. Sure(n)
    BY <1>2, <1>3, WithAlive DEF Alive, Steady, Sure
<1> HIDE DEF n
<1>6. PICK id : Books(n, {id}, d)
    BY <1>4, OnwriteStateUpdateBooks
<1>7. Onwrite(m, TRUE) = OnwriteOk(n, m.state.sync, m.state.writecb)
    BY <1>4 DEF Onwrite
<1> QED
    BY <1>5, <1>6, <1>7, OnwriteOkAlive

(* write() on a stream that was not told to end.                           *)
LEMMA WriteOrBufferAlive ==
    ASSUME NEW m, Alive(m), ~m.state.ending, ~m.state.finished, m.state.corked \in Nat, NEW len
    PROVE  Alive(WriteOrBuffer(m, len))
<1> DEFINE id == m.obs.acc + 1
           chunk == [id |-> id, len |-> len]
           full == m.state.length + len >= HighWaterMark
           s == [m.state EXCEPT !.pendingcb = @ + 1, !.length = @ + len, !.needDrain = full]
           o == [m.obs EXCEPT !.acc = id, !.owed = @ \/ full]
           k == With(m, s, o)
           r == [k.state EXCEPT !.buffer = Append(@, chunk)]
           n == With(k, r, k.obs)
<1>1. WriteOrBuffer(m, len) = IF MustBuffer(m.state) THEN n ELSE DoWrite(k, FALSE, len, <<chunk>>, Cb1(id), 0)
    BY DEF WriteOrBuffer, WithState
<1> HIDE DEF full, id
<1>2. /\ Has(s, StateNames) /\ ~s.finished /\ ~s.ending /\ s.writing = m.state.writing /\ s.corked = m.state.corked
    BY DEF Alive, Steady, Sure, Shaped, Has, StateNames
<1>3. Has(o, ObsNames)
    BY DEF Alive, Steady, Sure, Shaped, Has, ObsNames
<1> HIDE DEF s, o
<1>4. Sure(k) /\ k.state = s /\ k.obs = o
    BY <1>2, <1>3, WithAlive DEF Alive, Steady, Sure
<1> HIDE DEF k
<1>5. MustBuffer(m.state) => Alive(n)
  <2> SUFFICES ASSUME MustBuffer(m.state) PROVE Alive(n)
      OBVIOUS
  <2>1. /\ Has(r, StateNames) /\ ~r.finished /\ ~r.ending /\ r.writing = m.state.writing /\ r.corked = m.state.corked
    <3> HIDE DEF chunk
    <3> QED
        BY <1>2, <1>4 DEF Has, StateNames
  <2>2. Busy(r) /\ ~FinishDue(r)
    <3> HIDE DEF r
    <3> QED
        BY <2>1 DEF MustBuffer, Busy, FinishDue, NeedFinish
  <2>3. Has(k.obs, ObsNames)
      BY <1>3, <1>4
  <2> HIDE DEF r
  <2> QED
      BY <1>4, <2>1, <2>2, <2>3, WithAlive DEF Sure
<1> QED
    BY <1>1, <1>4, <1>5, DoWriteAlive

(* uncork() sends the buffer, unless it is sent or still corked.           *)
LEMMA UncorkToAlive ==
    ASSUME ~HasWritev, 0 \notin Sizes, NEW m, NEW d, Books(m, {}, d), Alive(m), NEW c
    PROVE  Alive(UncorkTo(m, c))
<1> DEFINE s == [m.state EXCEPT !.corked = c]
           k == With(m, s, m.obs)
<1>1. /\ Has(s, StateNames) /\ (s.finished => s.length = 0) /\ (FinishDue(s) => FinishDue(m.state))
      /\ s.finished = m.state.finished /\ s.length = m.state.length /\ s.buffer = m.state.buffer
      /\ s.bufferProcessing = m.state.bufferProcessing
    BY DEF Alive, Steady, Sure, Shaped, Has, StateNames, FinishDue, NeedFinish, CalledBack
<1>2. Has(m.obs, ObsNames)
    BY DEF Alive, Steady, Sure, Shaped
<1>3. UncorkTo(m, c) = IF /\ ~k.state.writing /\ k.state.corked = 0 /\ ~k.state.finished
                          /\ ~k.state.bufferProcessing /\ k.state.buffer # <<>>
                       THEN ClearBuffer(k) ELSE k
    BY DEF UncorkTo, WithState
<1> HIDE DEF s
<1>4. Sure(k) /\ k.state = s /\ (Busy(s) => Alive(k))
    BY <1>1, <1>2, WithAlive DEF Alive, Steady, Sure
<1> HIDE DEF k
<1>5. s.finished => (s.buffer # <<>> => s.bufferProcessing)
    BY <1>1, NothingLeft
<1>6. ~(~s.writing /\ s.corked = 0 /\ ~s.finished /\ ~s.bufferProcessing /\ s.buffer # <<>>) => Busy(s)
    BY <1>5 DEF Busy
<1> QED
    BY <1>3, <1>4, <1>6, ClearBufferAlive

(* end().                                                                  *)
LEMMA EndWritableAlive ==
    ASSUME NEW m, Alive(m), NEW hasCb
    PROVE  Alive(EndWritable(m, hasCb))
<1> DEFINE s == [m.state EXCEPT !.ending = TRUE]
           k == With(m, s, m.obs)
           f == [Frame("endWritable") EXCEPT !.hasCb = hasCb]
<1>1. Has(s, StateNames) /\ (s.finished => s.length = 0) /\ Busy(s)
    BY DEF Alive, Steady, Sure, Shaped, Has, StateNames, Busy
<1>2. Has(m.obs, ObsNames)
    BY DEF Alive, Steady, Sure, Shaped
<1>3. ~Fails(f)
    BY DEF Frame, Fails
<1>4. EndWritable(m, hasCb) = IF m.state.ending \/ m.state.finished THEN m ELSE FinishMaybe(Push(k, f))
    BY DEF EndWritable, WithState
<1> HIDE DEF s, f
<1>5. Steady(k)
    BY <1>1, <1>2, WithAlive DEF Alive, Steady, Sure
<1> HIDE DEF k
<1>6. Steady(Push(k, f))
    BY <1>3, <1>5, PushAlive DEF Steady
<1> QED
    BY <1>4, <1>6, FinishMaybeAlive

(* A function of the library waits for a call it made.                     *)
LEMMA LibAlive ==
    ASSUME NEW m, Alive(m), NEW at \in {"end", "endUncork"}, NEW hasCb
    PROVE  LET n == Push(m, [Frame(at) EXCEPT !.hasCb = hasCb])
           IN  Alive(n) /\ n.state = m.state /\ n.obs = m.obs
<1> DEFINE f == [Frame(at) EXCEPT !.hasCb = hasCb]
<1>1. ~Fails(f)
    BY DEF Frame, Fails
<1> HIDE DEF f
<1>2. Alive(Push(m, f)) /\ Push(m, f).state = m.state /\ Push(m, f).obs = m.obs
    BY <1>1, PushAlive DEF Alive, Steady
<1> QED
    BY <1>2 DEF f

(* end() uncorks first, ...                                                *)
LEMMA EndUncorkAlive ==
    ASSUME ~HasWritev, 0 \notin Sizes, NEW m, NEW d, Books(m, {}, d), Alive(m), NEW hasCb
    PROVE  Alive(EndUncork(m, hasCb))
<1> DEFINE n == Push(m, [Frame("endUncork") EXCEPT !.hasCb = hasCb])
<1>1. Books(n, {}, d) /\ Alive(n)
    BY LibBooks, LibAlive
<1>2. EndUncork(m, hasCb) = IF m.state.corked > 0 THEN UncorkTo(n, 0) ELSE EndWritable(m, hasCb)
    BY DEF EndUncork
<1> HIDE DEF n
<1> QED
    BY <1>1, <1>2, UncorkToAlive, EndWritableAlive

(* ... and writes its chunk before that.                                   *)
LEMMA EndChunkAlive ==
    ASSUME NEW m, Alive(m), ~m.state.ended => ~m.state.ending /\ ~m.state.finished, m.state.corked \in Nat,
           NEW len, NEW hasCb
    PROVE  Alive(EndChunk(m, len, hasCb))
<1> DEFINE n == Push(m, [Frame("end") EXCEPT !.hasCb = hasCb])
<1>1. Alive(n) /\ n.state = m.state
    BY LibAlive
<1>2. EndChunk(m, len, hasCb) = IF m.state.ended THEN Reject(n) ELSE WriteOrBuffer(n, len)
    BY DEF EndChunk
<1> HIDE DEF n
<1> QED
    BY <1>1, <1>2, RejectAlive, WriteOrBufferAlive

(* The end of endWritable().                                               *)
LEMMA EndReturnAlive ==
    ASSUME NEW m, Alive(m), NEW hasCb
    PROVE  Alive(EndReturn(m, hasCb))
<1> DEFINE e == IF ~hasCb THEN m.obs.endcb ELSE IF m.state.finished THEN "ticked" ELSE "once"
           s == [m.state EXCEPT !.ended = TRUE]
           o == [m.obs EXCEPT !.endcb = e]
           n == With(m, s, o)
           t == Tick("endcb")
<1>1. Has(s, StateNames) /\ (s.finished => s.length = 0) /\ Busy(s) /\ (FinishDue(s) => FinishDue(m.state))
    BY DEF Alive, Steady, Sure, Shaped, Has, StateNames, Busy, FinishDue, NeedFinish, CalledBack
<1>2. EndReturn(m, hasCb) = IF hasCb /\ m.state.finished THEN NextTick(n, t) ELSE n
    BY DEF EndReturn
<1> HIDE DEF e
<1>3. Has(o, ObsNames)
    BY DEF Alive, Steady, Sure, Shaped, Has, ObsNames
<1>4. t.run = "endcb"
    BY DEF Tick
<1> HIDE DEF s, o, t
<1>5. Alive(n)
    BY <1>1, <1>3, WithAlive DEF Alive, Steady, Sure
<1> HIDE DEF n
<1> QED
    BY <1>2, <1>4, <1>5, NextTickAlive DEF Alive

(* Other people's code returns.                                            *)
LEMMA WriteReturnsAlive ==
    ASSUME NEW m, NEW d, Books(m, {}, d), Alive(m), m.stack # <<>>, Top(m).at = "_write"
    PROVE  Alive(WriteReturns(m))
<1> DEFINE f == Top(m)
           p == Pop(m)
           s == [m.state EXCEPT !.sync = FALSE]
           k == With(p, s, p.obs)
           r == [k.state EXCEPT !.buffer = NotWritten(@, f.c), !.bufferProcessing = FALSE]
           n == With(k, r, k.obs)
<1>1. /\ Alive(p) /\ p.state = m.state /\ p.obs = m.obs
  <2>1. ~Helps(Top(m))
      BY DEF Helps, OweFrames
  <2> QED
      BY <2>1, PopAlive
<1>2. WriteReturns(m) = IF f.c = 0 THEN k
                        ELSE IF ~k.state.writing /\ f.c < Len(k.state.buffer) THEN WriteNth(k, f.c + 1)
                        ELSE n
    BY DEF WriteReturns, WithState
<1>3. f.c # 0 => f.c = d /\ d # 0
  <2>1. Lawful(f, d)
      BY PopBooks
  <2> QED
      BY <2>1 DEF Lawful, Loop
<1> HIDE DEF p, f
<1>4. /\ Has(s, StateNames) /\ (s.finished => s.length = 0) /\ Busy(s) /\ (FinishDue(s) => FinishDue(m.state))
      /\ s.buffer = m.state.buffer
    BY <1>1 DEF Alive, Steady, Sure, Shaped, Has, StateNames, Busy, FinishDue, NeedFinish, CalledBack
<1>5. Has(p.obs, ObsNames)
    BY <1>1 DEF Alive, Steady, Sure, Shaped
<1> HIDE DEF s
<1>6. Alive(k) /\ k.state = s /\ k.obs = p.obs
    BY <1>1, <1>4, <1>5, WithAlive DEF Alive, Steady, Sure
<1> HIDE DEF k
<1>7. CASE f.c # 0 /\ ~(~k.state.writing /\ f.c < Len(k.state.buffer))
  <2>1. /\ Has(r, StateNames) /\ r.buffer = NotWritten(k.state.buffer, d) /\ r.writing = k.state.writing
        /\ (r.finished => r.length = 0) /\ (FinishDue(r) => FinishDue(k.state))
    <3>1. f.c = d /\ Has(k.state, StateNames) /\ (k.state.finished => k.state.length = 0)
        BY <1>3, <1>6, <1>7 DEF Alive, Steady, Sure, Shaped
    <3>2. /\ Has(r, StateNames) /\ r.buffer = NotWritten(k.state.buffer, d) /\ r.writing = k.state.writing
          /\ r.finished = k.state.finished /\ r.length = k.state.length /\ r.ending = k.state.ending
          /\ r.pendingcb = k.state.pendingcb
        BY <3>1 DEF Has, StateNames
    <3> HIDE DEF r
    <3> QED
        BY <3>1, <3>2 DEF FinishDue, NeedFinish, CalledBack
  <2>2. ~k.state.writing => NotWritten(k.state.buffer, d) = <<>>
    <3> SUFFICES ASSUME ~k.state.writing PROVE NotWritten(k.state.buffer, d) = <<>>
        OBVIOUS
    <3> DEFINE q == k.state.buffer
               l == Len(q)
    <3>1. q \in Seq(Chunk) /\ l \in Nat /\ d \in 0 .. l
        BY <1>4, <1>6, BooksNat
    <3>2. d = l
        BY <1>3, <1>7, <3>1
    <3> HIDE DEF q
    <3>3. SubSeq(q, l + 1, l) = <<>>
        BY <3>1, SubSeqProperties, EmptySeq
    <3> QED
        BY <3>2, <3>3 DEF NotWritten, q
  <2>3. Busy(r)
    <3> HIDE DEF r
    <3> QED
        BY <2>1, <2>2 DEF Busy
  <2>4. Has(k.obs, ObsNames)
      BY <1>5, <1>6
  <2> HIDE DEF r
  <2>5. Alive(n)
      BY <1>6, <2>1, <2>3, <2>4, WithAlive DEF Alive, Steady, Sure
  <2> QED
      BY <1>2, <1>7, <2>5
<1> QED
    BY <1>2, <1>6, <1>7, WriteNthAlive DEF Alive, Steady

(* A callback of the program returns.                                      *)
LEMMA CbReturnsAlive ==
    ASSUME NEW m, NEW d, Books(m, {}, d), Alive(m), m.stack # <<>>, Top(m).at = "cb"
    PROVE  Alive(CbReturns(m))
<1> DEFINE f == Top(m)
           p == Pop(m)
<1>1. Steady(p) /\ ~Fails(f) /\ (~Helps(f) => Alive(p))
    BY PopAlive
<1>2. Lawful(f, d)
    BY PopBooks
<1>3. ~(Len(f.cb.ids) > 1)
    BY <1>2, LawfulOne
<1>4. CbReturns(m) = IF f.then = "finishMaybe" THEN FinishMaybe(p) ELSE p
    BY <1>1, <1>3 DEF CbReturns, Fails
<1>5. f.then # "finishMaybe" => ~Helps(f)
    BY DEF Helps, OweFrames
<1> HIDE DEF p, f
<1> QED
    BY <1>1, <1>4, <1>5, FinishMaybeAlive

(* Any code of the program returns; prefinish() left a stream to finish.   *)
LEMMA UserReturnsAlive ==
    ASSUME NEW m, NEW d, Books(m, {}, d), Alive(m), m.stack # <<>>, Top(m).at \in UserAt,
           Top(m).at = "prefinish" /\ Top(m).fin => NeedFinish(m.state)
    PROVE  Alive(UserReturns(m))
<1> DEFINE f == Top(m)
           p == Pop(m)
<1>1. /\ Steady(p) /\ (~Helps(f) => Alive(p)) /\ p.state = m.state
      /\ Lawful(f, d)
    BY PopAlive, PopBooks
<1>2. CASE f.at = "_write"
    BY <1>2, WriteReturnsAlive DEF UserReturns
<1>3. CASE f.at = "_writev"
    BY <1>1, <1>3 DEF Lawful
<1>4. CASE f.at = "cb"
    BY <1>4, CbReturnsAlive DEF UserReturns
<1>5. CASE f.at = "drain"
  <2>1. UserReturns(m) = RunCb(p, f.cb, TRUE, "finishMaybe")
      BY <1>5 DEF UserReturns
  <2> HIDE DEF p, f
  <2> QED
      BY <1>1, <2>1, RunCbAlive
<1>6. CASE f.at = "error"
  <2>1. UserReturns(m) = IF f.then = "rejected" THEN NextTick(p, Tick("rejected")) ELSE p
      BY <1>6 DEF UserReturns, ErrorReturns
  <2>2. Alive(p)
      BY <1>1, <1>6 DEF Helps, OweFrames
  <2>3. Tick("rejected").run # "error"
      BY DEF Tick
  <2> HIDE DEF p, f
  <2> QED
      BY <1>1, <2>1, <2>2, <2>3, NextTickAlive
<1>7. CASE f.at = "prefinish"
  <2>1. UserReturns(m) = IF f.fin THEN EmitFinish(p) ELSE p
      BY <1>7 DEF UserReturns
  <2>2. ~f.fin => Alive(p)
      BY <1>1, <1>7 DEF Helps, OweFrames
  <2>3. f.fin => p.state.length = 0
      BY <1>1, <1>7 DEF NeedFinish
  <2> HIDE DEF p, f
  <2> QED
      BY <1>1, <2>1, <2>2, <2>3, EmitFinishAlive
<1>8. CASE f.at \in {"event", "finish"}
  <2>1. UserReturns(m) = p
      BY <1>8 DEF UserReturns
  <2>2. Alive(p)
      BY <1>1, <1>8 DEF Helps, OweFrames
  <2> QED
      BY <2>1, <2>2
<1> QED
    BY <1>2, <1>3, <1>4, <1>5, <1>6, <1>7, <1>8 DEF UserAt

(* A function of the library goes on.                                      *)
LEMMA LibResumesAlive ==
    ASSUME ~HasWritev, 0 \notin Sizes, NEW m, NEW d, Books(m, {}, d), Alive(m), m.stack # <<>>, Top(m).at \in LibAt
    PROVE  Alive(LibResumes(m))
<1> DEFINE f == Top(m)
           p == Pop(m)
<1>1. Steady(p) /\ (~Helps(f) => Alive(p))
    BY PopAlive
<1>2. f.at \notin OweFrames => Books(p, {}, d)
    BY PopBooks
<1>3. f.at \in {"end", "endUncork", "endWritable"} => Alive(p) /\ Books(p, {}, d)
    BY <1>1, <1>2 DEF Helps, OweFrames
<1>4. CASE f.at = "onwrite"
  <2>1. LibResumes(m) = OnwriteReturn(p, f.sync, f.fin, f.cb)
      BY <1>4 DEF LibResumes
  <2> HIDE DEF p, f
  <2> QED
      BY <1>1, <2>1, OnwriteReturnAlive
<1>5. CASE f.at = "end"
  <2>1. LibResumes(m) = EndUncork(p, f.hasCb)
      BY <1>5 DEF LibResumes
  <2> HIDE DEF p, f
  <2> QED
      BY <1>3, <1>5, <2>1, EndUncorkAlive
<1>6. CASE f.at = "endUncork"
  <2>1. LibResumes(m) = EndWritable(p, f.hasCb)
      BY <1>6 DEF LibResumes
  <2> HIDE DEF p, f
  <2> QED
      BY <1>3, <1>6, <2>1, EndWritableAlive
<1>7. CASE f.at = "endWritable"
  <2>1. LibResumes(m) = EndReturn(p, f.hasCb)
      BY <1>7 DEF LibResumes
  <2> HIDE DEF p, f
  <2> QED
      BY <1>3, <1>7, <2>1, EndReturnAlive
<1> QED
    BY <1>4, <1>5, <1>6, <1>7 DEF LibAt

(* A tick is run; there is none of an error.                               *)
LEMMA RunTickAlive ==
    ASSUME NEW m, Alive(m), m.ticks # <<>>,
           Head(m.ticks).run \in {"afterWrite", "error", "rejected", "endcb"}
    PROVE  Alive(RunTick(m))
<1> DEFINE t == Head(m.ticks)
           k == [m EXCEPT !.ticks = Tail(@)]
           e == Frame("cb")
<1>1. Steady(k) /\ t.run # "error" /\ (t.run # "afterWrite" => Alive(k))
    BY TakeTickAlive
<1>2. ~Fails(e)
    BY DEF Frame, Fails
<1>3. CASE t.run = "afterWrite"
  <2>1. RunTick(m) = AfterWrite(k, t.fin, t.cb)
      BY <1>3 DEF RunTick
  <2> HIDE DEF t, k
  <2> QED
      BY <1>1, <2>1, AfterWriteAlive
<1>4. CASE t.run = "rejected"
  <2>1. RunTick(m) = Push(k, e) /\ Alive(k)
      BY <1>1, <1>4 DEF RunTick
  <2> HIDE DEF t, k, e
  <2> QED
      BY <1>2, <2>1, PushAlive DEF Alive, Steady
<1>5. CASE t.run = "endcb"
  <2> DEFINE o == [k.obs EXCEPT !.endcb = "called"]
             n == With(k, k.state, o)
  <2>1. RunTick(m) = Push(n, e) /\ Alive(k)
      BY <1>1, <1>5 DEF RunTick, WithObs
  <2> HIDE DEF t, k, e
  <2>2. Has(o, ObsNames) /\ Has(k.state, StateNames)
      BY <2>1 DEF Alive, Steady, Sure, Shaped, Has, ObsNames
  <2> HIDE DEF o
  <2>3. Alive(n)
      BY <2>1, <2>2, WithAlive DEF Alive, Steady, Sure
  <2> HIDE DEF n
  <2> QED
      BY <1>2, <2>1, <2>3, PushAlive DEF Alive, Steady
<1> QED
    BY <1>1, <1>3, <1>4, <1>5

(* A new stream has nothing to do.                                         *)
LEMMA InitAlive ==
    ASSUME Init PROVE Alive(Now)
<1>1. /\ Now.state.buffer = <<>> /\ ~Now.state.finished /\ ~Now.state.ending
      /\ Now.stack = <<>> /\ Now.ticks = <<>>
    BY DEF Init, Now
<1>2. Shaped(Now)
    BY InitInv, MachineShaped DEF Inv, Good
<1>3. Len(<<>>) = 0 /\ 1 .. 0 = {}
    BY EmptySeq
<1>4. Unfailed(Now)
    BY <1>1, <1>3 DEF Unfailed
<1> QED
    BY <1>1, <1>2, <1>4 DEF Alive, Steady, Sure, Busy, FinishDue, NeedFinish

(* What a step leads to is what the function it calls returns.             *)
LEMMA BecomeAlive == ASSUME NEW m, Become(m), Alive(m) PROVE Alive(Now')
<1>1. Now' = m
    BY BecomeShaped DEF Alive, Steady, Sure
<1> QED
    BY <1>1

(* Without errors, and with the frames of Calm.                            *)
StillAlive(m) == ~m.obs.errored => Alive(m)

(* Every step leaves something to do what is due.                          *)
LEMMA StepAlive ==
    ASSUME Calm, ~HasWritev, 0 \notin Sizes, Inv(Now), Ordered(Now), Balanced(Now, {}), StillAlive(Now),
           [Next]_vars
    PROVE  StillAlive(Now')
<1> SUFFICES ASSUME ~Now'.obs.errored PROVE Alive(Now')
    BY DEF StillAlive
<1>1. Kept(Now, Now')
    BY StepKept
<1>2. Settled(Now) /\ Alive(Now) /\ Shaped(Now)
    BY <1>1 DEF Ordered, StillAlive, Kept, Settled, Sound, Typed
<1>3. Now \in Machine /\ Now.state = state /\ Now.obs = obs /\ Now.stack = stack /\ Now.ticks = ticks
    BY DEF Inv, Good, Now
<1>4. PICK d : Books(Now, {}, d)
    BY DEF Balanced
<1>5. Plain
    BY DEF Calm, Plain
<1>6. ASSUME Running(ApiFrames)
      PROVE  (~state.ended => ~state.ending /\ ~state.finished) /\ state.corked \in Nat
  <2>1. Now.stack # <<>> /\ Top(Now).at \in {"event", "cb", "drain", "error"}
      BY <1>3, <1>6 DEF Running, Calm
  <2>2. Sound(Now) /\ Closed(Now)
      BY <1>2, <2>1, SettledReady DEF Ready, InWrite
  <2> QED
      BY <1>3, <2>2 DEF Sound, Typed, Ended, Closed
<1>7. CASE Write
    BY <1>2, <1>3, <1>6, <1>7, WriteOrBufferAlive, BecomeAlive DEF Write
<1>8. CASE RejectedWrite
    BY <1>2, <1>8, RejectAlive, BecomeAlive DEF RejectedWrite
<1>n. CASE WriteNull
  <2> DEFINE s == [state EXCEPT !.pendingcb = @ + 1]
             o == [obs EXCEPT !.nulls = @ + 1]
             n == With(Now, s, o)
  <2>1. Become(n)
      BY <1>n DEF WriteNull
  <2>2. Has(state, StateNames) /\ Has(obs, ObsNames) /\ Unfailed(Now)
      BY <1>2, <1>3 DEF Shaped, Alive, Steady, Sure
  <2>3. /\ Has(s, StateNames) /\ s.pendingcb = state.pendingcb + 1
        /\ s.finished = state.finished /\ s.length = state.length /\ s.corked = state.corked
        /\ s.writing = state.writing /\ s.buffer = state.buffer
        /\ s.bufferProcessing = state.bufferProcessing
      BY <2>2 DEF Has, StateNames
  <2>4. Has(o, ObsNames)
      BY <2>2 DEF Has, ObsNames
  <2>5. state.pendingcb \in Nat
    <3>1. Len(obs.called) <= obs.acc /\ Len(obs.called) \in Nat /\ obs.acc \in Nat
        BY <1>3, <1>4, CalledWithin
    <3>2. obs.nulls \in Nat
        BY <1>3 DEF Machine, Observations
    <3>3. state.pendingcb = (obs.acc + obs.nulls) - Len(obs.called)
        BY <1>3, <1>5 DEF Inv, Counted
    <3> QED
        BY <3>1, <3>2, <3>3
  <2> HIDE DEF s, o
  <2>6. ~FinishDue(s)
      BY <2>3, <2>5 DEF FinishDue, CalledBack
  <2>7. Busy(s) /\ (s.finished => s.length = 0)
      BY <1>2, <1>3, <2>3 DEF Alive, Steady, Sure, Busy
  <2>8. Alive(n)
      BY <1>2, <2>2, <2>3, <2>4, <2>6, <2>7, WithAlive
  <2> HIDE DEF n
  <2> QED
      BY <2>1, <2>8, BecomeAlive
<1>9. CASE Cork
  <2> DEFINE s == [state EXCEPT !.corked = @ + 1]
             n == With(Now, s, obs)
  <2>1. Become(n)
      BY <1>3, <1>9 DEF Cork, WithState
  <2>2. Has(state, StateNames) /\ state.corked \in Nat
      BY <1>2, <1>3, <1>6, <1>9 DEF Shaped, Cork
  <2>3. /\ Has(s, StateNames) /\ s.corked = state.corked + 1
        /\ s.finished = state.finished /\ s.length = state.length /\ s.ending = state.ending
        /\ s.writing = state.writing /\ s.pendingcb = state.pendingcb
      BY <2>2 DEF Has, StateNames
  <2> HIDE DEF s
  <2>4. Busy(s)
      BY <2>2, <2>3 DEF Busy
  <2>5. (s.finished => s.length = 0) /\ (FinishDue(s) => FinishDue(state))
      BY <1>2, <1>3, <2>3 DEF Alive, Steady, Sure, FinishDue, NeedFinish, CalledBack
  <2>6. Has(obs, ObsNames) /\ Unfailed(Now)
      BY <1>2, <1>3 DEF Shaped, Alive, Steady, Sure
  <2>7. Alive(n)
      BY <1>2, <1>3, <2>3, <2>4, <2>5, <2>6, WithAlive
  <2> HIDE DEF n
  <2> QED
      BY <2>1, <2>7, BecomeAlive
<1>10. CASE Uncork
    BY <1>2, <1>4, <1>10, UncorkToAlive, BecomeAlive DEF Uncork
<1>11. CASE End
    BY <1>2, <1>4, <1>11, EndUncorkAlive, BecomeAlive DEF End
<1>12. CASE EndWithChunk
    BY <1>2, <1>3, <1>6, <1>12, EndChunkAlive, BecomeAlive DEF EndWithChunk
<1>13. CASE WriteDone
  <2>1. PICK ok \in Outcomes : Become(Onwrite(Now, ok))
      BY <1>13 DEF WriteDone
  <2>2. ok \in BOOLEAN
      BY WritableAssumption DEF WritableAssumption
  <2>3. ok # FALSE
    <3>1. Kept(Now, Onwrite(Now, ok)) /\ (ok = FALSE => Onwrite(Now, ok).obs.errored)
        BY <1>2, OnwriteKept
    <3>2. Now' = Onwrite(Now, ok)
        BY <2>1, <3>1, BecomeShaped DEF Kept
    <3> QED
        BY <3>1, <3>2
  <2>4. Become(Onwrite(Now, TRUE))
      BY <2>1, <2>2, <2>3
  <2>5. Now.state.writing
      BY <1>3, <1>13 DEF WriteDone, Inv, Good
  <2> QED
      BY <1>2, <1>4, <2>4, <2>5, OnwriteAlive, BecomeAlive
<1>14. CASE Return
  <2>1. Now.stack # <<>> /\ Top(Now).at \in UserAt /\ Become(UserReturns(Now))
      BY <1>3, <1>14 DEF Return, Running
  <2>2. Top(Now).at = "prefinish" /\ Top(Now).fin => NeedFinish(Now.state)
    <3>1. Len(Now.stack) \in 1 .. Len(Now.stack)
        BY <1>2, <2>1, PopFrames
    <3> QED
        BY <1>5, <3>1 DEF Inv, PreTop, Top
  <2> QED
      BY <1>2, <1>4, <2>1, <2>2, UserReturnsAlive, BecomeAlive
<1>15. CASE Resume
  <2>1. Now.stack # <<>> /\ Top(Now).at \in LibAt /\ Become(LibResumes(Now))
      BY <1>3, <1>15 DEF Resume, Running
  <2> QED
      BY <1>2, <1>4, <2>1, LibResumesAlive, BecomeAlive
<1>16. CASE ProcessTick
  <2>1. Now.ticks # <<>> /\ Become(RunTick(Now)) /\ Now.ticks \in Seq(Ticks)
      BY <1>3, <1>16 DEF ProcessTick, Machine
  <2>2. Head(Now.ticks) \in Ticks
      BY <2>1, HeadTailProperties
  <2>3. Head(Now.ticks).run \in {"afterWrite", "error", "rejected", "endcb"}
      BY <2>2 DEF Ticks, TickFields
  <2> QED
      BY <1>2, <2>1, <2>3, RunTickAlive, BecomeAlive
<1>17. CASE NewEvent
  <2>1. ~Fails(Frame("event"))
      BY DEF Frame, Fails
  <2>2. Alive(Push(Now, Frame("event")))
      BY <1>2, <2>1, PushAlive DEF Alive, Steady
  <2> QED
      BY <1>17, <2>2, BecomeAlive DEF NewEvent
<1>18. CASE UNCHANGED vars
  <2>1. Now' = Now
      BY <1>18 DEF vars, Now
  <2> QED
      BY <1>2, <2>1
<1> QED
    BY <1>7, <1>8, <1>n, <1>9, <1>10, <1>11, <1>12, <1>13, <1>14, <1>15, <1>16, <1>17, <1>18 DEF Next

(* The whole of what is known of a stream in use.                          *)
Healthy == WritableInv /\ Ordered(Now) /\ Balanced(Now, {}) /\ StillAlive(Now)

(* It holds in every reachable state.                                      *)
LEMMA HealthyAlways == ASSUME Calm, ~HasWritev, 0 \notin Sizes PROVE Spec => []Healthy
<1>1. Init => StillAlive(Now)
    BY InitAlive DEF StillAlive
<1>2. WritableInv /\ Ordered(Now) /\ Balanced(Now, {}) /\ StillAlive(Now) /\ [Next]_vars => StillAlive(Now)'
  <2>1. ASSUME WritableInv, Ordered(Now), Balanced(Now, {}), StillAlive(Now), [Next]_vars PROVE StillAlive(Now')
      BY <2>1, StepAlive DEF WritableInv
  <2>2. StillAlive(Now)' <=> StillAlive(Now')
      OBVIOUS
  <2> QED
      BY <2>1, <2>2
<1> QED
    BY <1>1, <1>2, OrderedAlways, BalancedAlways, PTL DEF Spec, Healthy

(* A quiet stream has nothing in the buffer and nothing due.               *)
LEMMA QuietDone ==
    ASSUME Calm, ~HasWritev, Healthy, Quiet
    PROVE  /\ Len(obs.called) = obs.acc /\ state.pendingcb = obs.nulls /\ state.buffer = <<>> /\ state.length = 0
           /\ ~FinishDue(state)
<1>1. /\ stack = <<>> /\ ticks = <<>> /\ ~state.writing /\ state.corked = 0 /\ ~obs.errored
    BY DEF Quiet, Idle
<1>2. Now.state = state /\ Now.obs = obs /\ Now.stack = stack /\ Now.ticks = ticks
    BY DEF Now
<1>3. PICK d : Books(Now, {}, d)
    BY DEF Healthy, Balanced
<1>4. Alive(Now) /\ Settled(Now)
    BY <1>1, <1>2 DEF Healthy, StillAlive, Ordered
<1>5. ~state.bufferProcessing
    BY <1>1, <1>2, <1>4 DEF Settled, In, Out, Waits
<1>6. state.buffer = <<>>
    BY <1>1, <1>2, <1>4, <1>5 DEF Alive, Steady, Busy
<1>7. Len(<<>>) = 0 /\ 1 .. 0 = {} /\ 0 + 1 .. 0 = {}
    BY EmptySeq
<1>8. d = 0
    BY <1>2, <1>3, <1>5, BooksNat
<1>9. ~FinishDue(state)
    BY <1>1, <1>2, <1>4, <1>7 DEF Alive, Hope
<1>10. state.length = 0
  <2>1. Stored(state, 0)
      BY <1>2, <1>3, <1>8 DEF Books
  <2>2. PICK g : Lengths(state, g) /\ state.length = state.writelen + (g[0] - g[0])
      BY <1>6, <1>7, <2>1 DEF Stored, Ledger
  <2>3. g[0] \in Nat /\ state.writelen = 0
      BY <1>1, <1>6, <1>7, <2>1, <2>2 DEF Lengths, Stored, Flying
  <2> QED
      BY <2>2, <2>3
<1>11. obs.acc = Len(obs.called)
  <2> DEFINE b == Book(Now, {}, 0)
             n == obs.acc
  <2>1. CalledOnce(obs) /\ n \in Nat /\ Partition(b, n)
      BY <1>2, <1>3, <1>8 DEF Books, CalledOnce
  <2>2. ~Now.state.writing /\ Len(Now.state.buffer) = 0
      BY <1>1, <1>2, <1>6, <1>7
  <2>3. Queue(Now, 0) = {} /\ Flight(Now) = {}
      BY <1>7, <2>2 DEF Queue, Flight
  <2>4. Debts(Now.ticks, "run", OweTicks) = {} /\ Debts(Now.stack, "at", OweFrames) = {}
      BY <1>1, <1>2, <1>7 DEF Debts
  <2>5. \A p \in Places : p # "called" => b[p] = {}
      BY <2>3, <2>4 DEF Book, Places
  <2>6. b["called"] = CalledIds(Now) /\ "called" \in Places
      BY DEF Book, Places
  <2> HIDE DEF b, n
  <2>7. \A id : id \in CalledIds(Now) <=> id \in 1 .. n
      BY <2>1, <2>5, <2>6 DEF Partition
  <2>8. CalledIds(Now) = 1 .. n
      BY <2>7
  <2>9. Cardinality(1 .. n) = n
      BY <2>1, FS_Interval
  <2>10. Cardinality(CalledIds(Now)) = Len(obs.called)
      BY <1>2, <2>1, CalledCount
  <2> QED
      BY <2>8, <2>9, <2>10 DEF n
<1>12. state.pendingcb = obs.nulls
  <2>1. Counted(Now)
      BY DEF Healthy, WritableInv, Inv, Plain, Calm
  <2>2. obs.acc \in Nat /\ obs.nulls \in Nat
    <3>1. obs \in Observations
        BY <1>2 DEF Healthy, WritableInv, Inv, Good, Machine
    <3> QED
        BY <3>1 DEF Observations
  <2> QED
      BY <1>2, <1>11, <2>1, <2>2 DEF Counted
<1> QED
    BY <1>6, <1>9, <1>10, <1>11, <1>12

(* Listeners of 'drain' and 'error', write callbacks and events may write, *)
(* cork, uncork and end at any time.  A quiet stream has called back for   *)
(* every chunk it accepted, and each once.  Chunks of length 0 are left    *)
(* out: onwrite() takes one behind the last of a stream that was told to   *)
(* end for nothing, and does not send it.                                  *)
THEOREM AllCalledBack ==
    ASSUME ApiFrames \subseteq {"event", "cb", "drain", "error"}, ~HasWritev, 0 \notin Sizes
    PROVE  Spec => []EveryWriteCalledBack
<1>1. Healthy /\ NoneTwice => EveryWriteCalledBack
    BY QuietDone DEF EveryWriteCalledBack, NoneTwice, Calm
<1> QED
    BY <1>1, HealthyAlways, CallbacksOnce, PTL DEF Calm

(* And one that was told to end has finished.                              *)
THEOREM EndFinishes ==
    ASSUME ApiFrames \subseteq {"event", "cb", "drain", "error"}, ~HasWritev, 0 \notin Sizes
    PROVE  Spec => []FinishEmitted
<1>1. Healthy => FinishEmitted
  <2> SUFFICES ASSUME Healthy, Quiet, state.ended, obs.nulls = 0 PROVE state.finished
      BY DEF FinishEmitted
  <2>1. state.pendingcb = 0 /\ state.length = 0 /\ ~FinishDue(state)
      BY QuietDone DEF Calm
  <2>2. ~state.writing /\ ~obs.errored
      BY DEF Quiet
  <2>3. state.ending
    <3>1. Settled(Now) /\ Now.state = state
        BY <2>2 DEF Healthy, Ordered, Now
    <3> QED
        BY <3>1 DEF Settled, Sound, Ended
  <2> QED
      BY <2>1, <2>2, <2>3 DEF FinishDue, NeedFinish, CalledBack
<1> QED
    BY <1>1, HealthyAlways, PTL DEF Calm

(* All of what a stream promises, for every number of writes, every        *)
(* nesting of cork() and every size of buffer.                             *)
THEOREM AllHandled ==
    ASSUME ApiFrames \subseteq {"event", "cb", "drain", "error"}, ~HasWritev, 0 \notin Sizes
    PROVE  Spec => WritesHandled
<1>1. "prefinish" \notin ApiFrames
    OBVIOUS
<1>2. Spec => FinishMeansFlushed
    BY <1>1, FinishFlushed
<1>3. Spec => []InOrder /\ []NoCallbackInsideWrite
    BY ChunksInOrder, ResultBeforeOutcome
<1>4. Spec => []EveryWriteCalledBack /\ []FinishEmitted
    BY AllCalledBack, EndFinishes
<1> QED
    BY <1>2, <1>3, <1>4, TypeCorrect, NoOverlap, EndCallbackKept, PTL DEF WritesHandled
=============================================================================
