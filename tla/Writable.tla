------------------------------ MODULE Writable ------------------------------
(***************************************************************************)
(* lib/_stream_writable.js: the buffering state machine behind every       *)
(* Writable stream.                                                        *)
(*                                                                         *)
(* JavaScript runs to completion on one thread, so what makes this code    *)
(* hard is re-entrancy: _write(), write callbacks and event listeners are  *)
(* other people's code, called in the middle of a library function, and    *)
(* they call back into the same stream.  The model keeps an explicit call  *)
(* stack: a frame is either other people's code that is running now, with  *)
(* what the library does when it returns, or a library function that       *)
(* waits for a call it made.  The nextTick queue runs when the stack has   *)
(* unwound, and a new event starts when that queue is empty.               *)
(*                                                                         *)
(* Every function of the source is an operator from a machine (the stream, *)
(* the stack, the queue) to the machine that its call leaves behind.       *)
(***************************************************************************)
EXTENDS Integers, Sequences, FiniteSets

CONSTANTS
  MaxWrites,      \* bound: accepted write() calls
  MaxRejects,     \* bound: rejected write() calls, and write(null) calls
  MaxCork,        \* bound: nesting of cork()
  Sizes,          \* lengths a chunk may have ({1} is also objectMode)
  HighWaterMark,  \* options.highWaterMark
  HasWritev,      \* does the implementation define _writev?
  Outcomes,       \* what _write's callback may report: TRUE success, FALSE error
  ApiFrames,      \* frames whose code calls the stream's public methods
  Polite          \* do writers wait for 'drain' after write() returned false?

(* Other people's code, and library functions waiting for a call they made. *)
UserAt == {"event", "_write", "_writev", "cb", "drain", "error",
           "prefinish", "finish"}
LibAt  == {"onwrite", "end", "endUncork", "endWritable"}

ASSUME WritableAssumption ==
  /\ MaxWrites \in Nat /\ MaxRejects \in Nat /\ MaxCork \in Nat
  /\ Sizes \subseteq Nat /\ HighWaterMark \in Nat
  /\ HasWritev \in BOOLEAN /\ Polite \in BOOLEAN
  /\ Outcomes \subseteq BOOLEAN /\ ApiFrames \subseteq UserAt

VARIABLES
  state,  \* the WritableState record
  stack,  \* the call stack, innermost frame last
  ticks,  \* process.nextTick queue
  obs     \* what an observer outside the stream has seen (history)

vars == <<state, stack, ticks, obs>>

(* A chunk is known by the number of the write() that brought it.  A       *)
(* callback stands for one user callback or, for _writev, for all of them. *)
NoCb == [v |-> FALSE, ids |-> <<>>]
Cb1(id) == [v |-> FALSE, ids |-> <<id>>]
Ids(buf) == [i \in 1..Len(buf) |-> buf[i].id]

Now == [state |-> state, stack |-> stack, ticks |-> ticks, obs |-> obs]
Become(m) == /\ state' = m.state /\ stack' = m.stack
             /\ ticks' = m.ticks /\ obs' = m.obs

Frame(at) == [at |-> at, c |-> 0, cb |-> NoCb, fin |-> FALSE, sync |-> FALSE,
              ok |-> TRUE, hasCb |-> FALSE, then |-> "return"]
Tick(run) == [run |-> run, cb |-> NoCb, fin |-> FALSE]

With(m, s, o) == [m EXCEPT !.state = s, !.obs = o]
WithState(m, s) == With(m, s, m.obs)
WithObs(m, o) == With(m, m.state, o)
Top(m) == m.stack[Len(m.stack)]
Push(m, f) == [m EXCEPT !.stack = Append(@, f)]
Pop(m) == [m EXCEPT !.stack = SubSeq(@, 1, Len(@) - 1)]
NextTick(m, t) == [m EXCEPT !.ticks = Append(@, t)]
-----------------------------------------------------------------------------
(* needFinish, prefinish, finishMaybe.                                     *)
NeedFinish(s) == s.ending /\ s.length = 0 /\ ~s.finished /\ ~s.writing

CalledBackIgnored(s) == TRUE \* mutant: no test of pendingcb
CalledBack(s) == s.pendingcb = 0

FireOnce(e) == IF e = "once" THEN "called" ELSE e

EmitFinish(m) ==
  Push(With(m, [m.state EXCEPT !.finished = TRUE],
               [m.obs EXCEPT !.finishes = @ + 1, !.endcb = FireOnce(@)]),
       Frame("finish"))

FinishMaybe(m) ==
  IF ~NeedFinish(m.state) THEN m
  ELSE IF ~m.state.prefinished
  THEN Push(WithState(m, [m.state EXCEPT !.prefinished = TRUE]),
            [Frame("prefinish") EXCEPT !.fin = CalledBack(m.state)])
  ELSE IF CalledBack(m.state) THEN EmitFinish(m) ELSE m

(* Call the first of a sequence of user callbacks: the frame keeps the     *)
(* ones that are left and what follows the last.                           *)
CallCb(m, ids, ok, then) ==
  Push(With(m, [m.state EXCEPT !.pendingcb = @ - 1],
               [m.obs EXCEPT
                  !.called = Append(@, [id |-> Head(ids), ok |-> ok])]),
       [Frame("cb") EXCEPT !.cb = [v |-> FALSE, ids |-> ids],
                           !.ok = ok, !.then = then])

(* state.pendingcb--; cb(er): the callback of a _writev counts for itself. *)
RunCb(m, cb, ok, then) ==
  LET own == IF cb.v THEN 1 ELSE 0
  IN  CallCb(WithState(m, [m.state EXCEPT !.pendingcb = @ - own]),
             cb.ids, ok, then)

(* afterWrite with onwriteDrain. *)
DrainDue(s, fin) == ~fin /\ s.length = 0 /\ s.needDrain

AfterWrite(m, fin, cb) ==
  IF DrainDue(m.state, fin)
  THEN Push(With(m, [m.state EXCEPT !.needDrain = FALSE],
                    [m.obs EXCEPT !.owed = FALSE]),
            [Frame("drain") EXCEPT !.cb = cb])
  ELSE RunCb(m, cb, TRUE, "finishMaybe")

DoWrite(m, v, len, chunks, cb, c) ==
  Push(With(m, [m.state EXCEPT !.writelen = len, !.writecb = cb,
                               !.writing = TRUE, !.sync = TRUE],
               [m.obs EXCEPT !.sent = @ \o Ids(chunks), !.inflight = @ + 1]),
       [Frame(IF v THEN "_writev" ELSE "_write") EXCEPT !.c = c, !.cb = cb])

(* The c-th turn of clearBuffer's loop over the buffer. *)
WriteNth(m, c) ==
  LET chunk == m.state.buffer[c]
  IN  DoWrite(m, FALSE, chunk.len, <<chunk>>, Cb1(chunk.id), c)

ClearBuffer(m) ==
  LET buf   == m.state.buffer
      group == HasWritev /\ Len(buf) > 1
      own   == IF group THEN 1 ELSE 0
      m1    == WithState(m, [m.state EXCEPT !.bufferProcessing = TRUE,
                                            !.pendingcb = @ + own])
  IN  IF group
      THEN DoWrite(m1, TRUE, m.state.length, buf,
                   [v |-> TRUE, ids |-> Ids(buf)], 0)
      ELSE WriteNth(m1, 1)
-----------------------------------------------------------------------------
(* write(): an accepted chunk is written at once or queued.                *)
MustBuffer(s) == s.writing \/ s.corked > 0

WriteOrBuffer(m, len) ==
  LET id    == m.obs.acc + 1
      chunk == [id |-> id, len |-> len]
      full  == m.state.length + len >= HighWaterMark
      s     == [m.state EXCEPT !.pendingcb = @ + 1, !.length = @ + len,
                               !.needDrain = full]
      m1    == With(m, s, [m.obs EXCEPT !.acc = id, !.owed = @ \/ full])
  IN  IF MustBuffer(m.state)
      THEN WithState(m1, [m1.state EXCEPT !.buffer = Append(@, chunk)])
      ELSE DoWrite(m1, FALSE, len, <<chunk>>, Cb1(id), 0)

(* writeAfterEnd and validChunk: 'error' now, the callback on a later tick. *)
Reject(m) ==
  Push(WithObs(m, [m.obs EXCEPT !.rejects = @ + 1]),
       [Frame("error") EXCEPT !.then = "rejected"])

UncorkTo(m, k) ==
  LET m1 == WithState(m, [m.state EXCEPT !.corked = k])
      s  == m1.state
  IN  IF /\ ~s.writing /\ s.corked = 0 /\ ~s.finished
         /\ ~s.bufferProcessing /\ s.buffer # <<>>
      THEN ClearBuffer(m1) ELSE m1

(* end() is cut where it calls out: after write(chunk), after uncork() and *)
(* after finishMaybe() in endWritable().                                   *)
EndWritable(m, hasCb) ==
  IF m.state.ending \/ m.state.finished THEN m
  ELSE FinishMaybe(Push(WithState(m, [m.state EXCEPT !.ending = TRUE]),
                        [Frame("endWritable") EXCEPT !.hasCb = hasCb]))

(* .end() fully uncorks *)
EndUncork(m, hasCb) ==
  IF m.state.corked > 0
  THEN UncorkTo(Push(m, [Frame("endUncork") EXCEPT !.hasCb = hasCb]), 0)
  ELSE EndWritable(m, hasCb)

EndChunk(m, len, hasCb) ==
  LET m1 == Push(m, [Frame("end") EXCEPT !.hasCb = hasCb])
  IN  IF m.state.ended THEN Reject(m1) ELSE WriteOrBuffer(m1, len)

(* The end of endWritable(): register or schedule the callback. *)
EndReturn(m, hasCb) ==
  LET next == IF ~hasCb THEN m.obs.endcb
              ELSE IF m.state.finished THEN "ticked" ELSE "once"
      m1   == With(m, [m.state EXCEPT !.ended = TRUE],
                      [m.obs EXCEPT !.endcb = next])
  IN  IF hasCb /\ m.state.finished THEN NextTick(m1, Tick("endcb")) ELSE m1
-----------------------------------------------------------------------------
(* The callback the stream hands to _write and _writev.                    *)
OnwriteStateUpdate(m) ==
  With(m, [m.state EXCEPT !.writing = FALSE, !.writecb = NoCb,
                          !.length = @ - m.state.writelen, !.writelen = 0],
          [m.obs EXCEPT !.inflight = @ - 1])

OnwriteError(m, sync, cb) ==
  LET m1 == WithObs(m, [m.obs EXCEPT !.errored = TRUE])
  IN  IF sync
      THEN Push(NextTick(m1, [Tick("error") EXCEPT !.cb = cb]), Frame("error"))
      ELSE RunCb(m1, cb, FALSE, "error")

OnwriteReturn(m, sync, fin, cb) ==
  IF sync
  THEN NextTick(m, [Tick("afterWrite") EXCEPT !.cb = cb, !.fin = fin])
  ELSE AfterWrite(m, fin, cb)

OnwriteOk(m, sync, cb) ==
  LET s   == m.state
      fin == NeedFinish(s)
  IN  IF /\ ~fin /\ s.corked = 0 /\ ~s.bufferProcessing /\ s.buffer # <<>>
      THEN ClearBuffer(Push(m, [Frame("onwrite") EXCEPT
                                  !.cb = cb, !.fin = fin, !.sync = sync]))
      ELSE OnwriteReturn(m, sync, fin, cb)

Onwrite(m, ok) ==
  LET sync == m.state.sync
      cb   == m.state.writecb
      m1   == OnwriteStateUpdate(m)
  IN  IF ok THEN OnwriteOk(m1, sync, cb) ELSE OnwriteError(m1, sync, cb)
-----------------------------------------------------------------------------
(* What the library does when other people's code returns to it.           *)

NotWritten(buf, c) == SubSeq(buf, c + 1, Len(buf))

(* doWrite() and, under clearBuffer(), the rest of its loop. *)
WriteReturns(m) ==
  LET f  == Top(m)
      m1 == WithState(Pop(m), [m.state EXCEPT !.sync = FALSE])
      s  == m1.state
  IN  IF f.c = 0 THEN m1
      ELSE IF ~s.writing /\ f.c < Len(s.buffer) THEN WriteNth(m1, f.c + 1)
      ELSE WithState(m1, [s EXCEPT !.buffer = NotWritten(@, f.c),
                                   !.bufferProcessing = FALSE])

WritevReturns(m) ==
  WithState(Pop(m), [m.state EXCEPT !.sync = FALSE, !.buffer = <<>>,
                                    !.bufferProcessing = FALSE])

CbReturns(m) ==
  LET f  == Top(m)
      m1 == Pop(m)
  IN  IF Len(f.cb.ids) > 1 THEN CallCb(m1, Tail(f.cb.ids), f.ok, f.then)
      ELSE IF f.then = "finishMaybe" THEN FinishMaybe(m1)
      ELSE IF f.then = "error" THEN Push(m1, Frame("error"))
      ELSE m1

ErrorReturns(m) ==
  IF Top(m).then = "rejected" THEN NextTick(Pop(m), Tick("rejected")) ELSE Pop(m)

UserReturns(m) ==
  LET at == Top(m).at
  IN  CASE at = "_write"    -> WriteReturns(m)
        [] at = "_writev"   -> WritevReturns(m)
        [] at = "cb"        -> CbReturns(m)
        [] at = "drain"     -> RunCb(Pop(m), Top(m).cb, TRUE, "finishMaybe")
        [] at = "error"     -> ErrorReturns(m)
        [] at = "prefinish" -> IF Top(m).fin THEN EmitFinish(Pop(m)) ELSE Pop(m)
        [] OTHER            -> Pop(m)

LibResumes(m) ==
  LET f == Top(m)
  IN  CASE f.at = "onwrite" -> OnwriteReturn(Pop(m), f.sync, f.fin, f.cb)
        [] f.at = "end"     -> EndUncork(Pop(m), f.hasCb)
        [] f.at = "endUncork"   -> EndWritable(Pop(m), f.hasCb)
        [] f.at = "endWritable" -> EndReturn(Pop(m), f.hasCb)

RunTick(m) ==
  LET t  == Head(m.ticks)
      m1 == [m EXCEPT !.ticks = Tail(@)]
  IN  CASE t.run = "afterWrite" -> AfterWrite(m1, t.fin, t.cb)
        [] t.run = "error"      -> RunCb(m1, t.cb, FALSE, "return")
        [] t.run = "rejected"   -> Push(m1, Frame("cb"))
        [] t.run = "endcb"      ->
             Push(WithObs(m1, [m1.obs EXCEPT !.endcb = "called"]), Frame("cb"))
-----------------------------------------------------------------------------
Init ==
  /\ state = [needDrain |-> FALSE, ending |-> FALSE, ended |-> FALSE,
              finished |-> FALSE, prefinished |-> FALSE, length |-> 0,
              writing |-> FALSE, corked |-> 0, sync |-> TRUE,
              bufferProcessing |-> FALSE, writecb |-> NoCb, writelen |-> 0,
              buffer |-> <<>>, pendingcb |-> 0]
  /\ stack = <<>>
  /\ ticks = <<>>
  /\ obs = [acc |-> 0, rejects |-> 0, sent |-> <<>>, inflight |-> 0,
            called |-> <<>>, owed |-> FALSE, errored |-> FALSE,
            endcb |-> "none", finishes |-> 0, nulls |-> 0]

Running(frames) == stack # <<>> /\ Top(Now).at \in frames

(* Public methods, called from the code that runs now. *)
Write == /\ Running(ApiFrames) /\ ~state.ended /\ obs.acc < MaxWrites
         /\ ~(Polite /\ obs.owed)
         /\ \E len \in Sizes : Become(WriteOrBuffer(Now, len))
RejectedWrite == /\ Running(ApiFrames) /\ obs.rejects < MaxRejects
                 /\ Become(Reject(Now))
(* write(null), when chunks are bytes: validChunk() lets it pass, and it is *)
(* counted before chunk.length throws at its caller, who goes on.          *)
WriteNull == /\ Running(ApiFrames) /\ ~state.ended /\ obs.nulls < MaxRejects
             /\ Become(With(Now, [state EXCEPT !.pendingcb = @ + 1],
                                 [obs EXCEPT !.nulls = @ + 1]))
Cork == /\ Running(ApiFrames) /\ state.corked < MaxCork
        /\ Become(WithState(Now, [state EXCEPT !.corked = @ + 1]))
Uncork == /\ Running(ApiFrames) /\ state.corked > 0
          /\ Become(UncorkTo(Now, state.corked - 1))
End == /\ Running(ApiFrames) /\ (state.corked > 0 \/ ~state.ending)
       /\ \E hasCb \in BOOLEAN : Become(EndUncork(Now, hasCb))
EndWithChunk == /\ Running(ApiFrames)
                /\ IF state.ended THEN obs.rejects < MaxRejects
                                  ELSE obs.acc < MaxWrites /\ ~(Polite /\ obs.owed)
                /\ \E len \in Sizes, hasCb \in BOOLEAN :
                     Become(EndChunk(Now, len, hasCb))

(* The implementation of _write or _writev calls back, inside the call or  *)
(* in a later event.                                                       *)
WriteDone == /\ Running(ApiFrames \cup {"event", "_write", "_writev"})
             /\ obs.inflight > 0
             /\ \E ok \in Outcomes : Become(Onwrite(Now, ok))

Return == Running(UserAt) /\ Become(UserReturns(Now))
Resume == Running(LibAt) /\ Become(LibResumes(Now))
ProcessTick == stack = <<>> /\ ticks # <<>> /\ Become(RunTick(Now))
NewEvent == stack = <<>> /\ ticks = <<>> /\ Become(Push(Now, Frame("event")))

Next == \/ Write \/ RejectedWrite \/ WriteNull \/ Cork \/ Uncork \/ End \/ EndWithChunk
        \/ WriteDone \/ Return \/ Resume \/ ProcessTick \/ NewEvent

Spec == Init /\ [][Next]_vars

-----------------------------------------------------------------------------
Chunk == [id : Nat, len : Nat]
Callback == [v : {FALSE, HasWritev}, ids : Seq(Nat)]
StateFields ==
  [needDrain : BOOLEAN, ending : BOOLEAN, ended : BOOLEAN,
   finished : BOOLEAN, prefinished : BOOLEAN, length : Int,
   writing : BOOLEAN, corked : Nat, sync : BOOLEAN,
   bufferProcessing : BOOLEAN, writecb : Callback, writelen : Int,
   buffer : Seq(Chunk), pendingcb : Int]
WritableState == {s \in StateFields : s.writing => s.writecb.ids # <<>>}
FrameFields ==
          [at : UserAt \cup LibAt, c : Nat, cb : Callback, fin : BOOLEAN,
           sync : BOOLEAN, ok : BOOLEAN, hasCb : BOOLEAN,
           then : {"return", "finishMaybe", "error", "rejected"}]
Frames == {f \in FrameFields :
             f.at \in {"onwrite", "drain"} => f.cb.ids # <<>>}
TickFields ==
         [run : {"afterWrite", "error", "rejected", "endcb"}, cb : Callback,
          fin : BOOLEAN]
Ticks == {t \in TickFields :
            t.run \in {"afterWrite", "error"} => t.cb.ids # <<>>}
Observations ==
  [acc : Nat, rejects : Nat, sent : Seq(Nat), inflight : Int,
   called : Seq([id : Nat, ok : BOOLEAN]), owed : BOOLEAN, errored : BOOLEAN,
   endcb : {"none", "once", "ticked", "called"}, finishes : Nat, nulls : Nat]
Machine == [state : WritableState, stack : Seq(Frames), ticks : Seq(Ticks),
            obs : Observations]

(* The fields keep their types: corked is never driven below zero by an    *)
(* unmatched uncork(), and whoever owes a callback holds one to call.      *)
TypeOK == Now \in Machine

Idle == stack = <<>> /\ ticks = <<>>

(* Nothing is left that could still move the stream by itself. *)
Quiet == Idle /\ ~state.writing /\ state.corked = 0 /\ ~obs.errored

(* At most one _write() or _writev() is unfinished at any time.            *)
OneWriteInFlight == obs.inflight <= 1

(* A quiet stream has called back for every chunk it accepted, exactly     *)
(* once; pendingcb counts only the calls of write(null), whose callbacks   *)
(* never come.                                                             *)
EveryWriteCalledBack ==
  /\ Cardinality({obs.called[i].id : i \in DOMAIN obs.called}) = Len(obs.called)
  /\ Quiet => /\ Len(obs.called) = obs.acc
              /\ state.pendingcb = obs.nulls /\ state.buffer = <<>> /\ state.length = 0

(* Without a write error, chunks reach the implementation in the order of  *)
(* the write() calls, each once.                                           *)
InOrder == ~obs.errored => \A i \in DOMAIN obs.sent : obs.sent[i] = i

(* No callback, 'drain' or 'finish' runs inside a call of _write(): the    *)
(* consumer has the result of its write() before it hears of its outcome.  *)
NoCallbackInsideWrite ==
  ~obs.errored =>
    \A i \in DOMAIN stack : stack[i].at \in {"_write", "_writev"} =>
      \A j \in i+1..Len(stack) : stack[j].at \notin {"cb", "drain", "finish"}

(* A stream that was told to end() and has nothing left to do has finished, *)
(* unless a write(null) was counted: then it never does.                    *)
FinishEmitted == Quiet /\ state.ended /\ obs.nulls = 0 => state.finished

(* The callback given to end() is not lost between nextTick and 'finish'.  *)
EndCallbackNotLost == Idle /\ state.finished => obs.endcb \in {"none", "called"}

(* 'finish' comes once, after every accepted chunk was called back, and    *)
(* never after a write(null), which nobody calls back.                     *)
FinishMeansFlushed ==
  [][obs'.finishes # obs.finishes =>
       /\ obs.finishes = 0 /\ state.ending
       /\ Len(obs.called) = obs.acc + obs.nulls]_vars

(* What a stream promises its writers and its implementation.              *)
WritesHandled ==
  /\ [](/\ TypeOK /\ OneWriteInFlight /\ EveryWriteCalledBack /\ InOrder
        /\ NoCallbackInsideWrite /\ FinishEmitted /\ EndCallbackNotLost)
  /\ FinishMeansFlushed

=============================================================================
