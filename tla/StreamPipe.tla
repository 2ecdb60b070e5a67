------------------------------ MODULE StreamPipe ------------------------------
(***************************************************************************)
(* readable.pipe(writable) of the stream module (crates/taiyaki-node-      *)
(* polyfill/src/js/stream.js).                                             *)
(*                                                                         *)
(* Everything runs on one thread, but not one after the other: push() may  *)
(* emit 'data', whose listener writes, whose sink may call back at once,   *)
(* which emits 'drain', whose listener resumes the readable, which emits   *)
(* 'data' - all inside the first push().  The calls under way are kept in  *)
(* an explicit stack; a step is what the innermost one does next.  Between *)
(* two turns of the event loop the stack is empty.                         *)
(*                                                                         *)
(* A chunk is its number.  pause() and resume() by the user, cork, unpipe, *)
(* errors and destroy are not part of this module.                         *)
(***************************************************************************)
EXTENDS Naturals, SequencesExt

CONSTANTS MaxChunks,  \* bound: chunks the source pushes
          Size,       \* their sizes
          ReadMark,   \* highWaterMark of the readable
          WriteMark   \* highWaterMark of the writable

Chunks == 1..MaxChunks
None   == 0

ASSUME StreamAssumption == /\ MaxChunks \in Nat
                           /\ Size \in [Chunks -> Nat \ {0}]
                           /\ ReadMark \in Nat /\ WriteMark \in Nat

VARIABLES
  pushed,      \* chunks the source has pushed
  rbuf,        \* the readable's _buffer
  flowing,     \* _flowing === true
  ended,       \* push(null) was called
  endEmitted,  \* and 'end' was emitted
  reading,     \* the readable's _reading
  piped,       \* pipe() was called
  microtask,   \* the microtask of on('data') is pending
  wbuf,        \* the writable's _buffer
  writing,     \* the chunk its sink has not confirmed yet, or None
  ending,      \* end() was called
  finished,    \* 'finish' was emitted
  written,     \* chunks passed to the sink
  refused,     \* write() returned false for a chunk already confirmed
  stack        \* the calls under way, innermost last

readVars  == <<pushed, rbuf, ended, reading>>
writeVars == <<wbuf, writing, written>>
pipeVars  == <<piped, microtask>>
vars == <<readVars, writeVars, pipeVars, flowing, endEmitted,
          ending, finished, refused, stack>>

\* _drainBuffer; resume and the microtask after it; _read, called from either;
\* onData after write(chunk); _clearBuffer.
Frames == [at : {"drain", "resume", "micro", "read", "guardedRead", "clear"},
           chunk : {None}]
          \cup [at : {"onData"}, chunk : Chunks]

TypeOK ==
  /\ pushed \in 0..MaxChunks
  /\ {rbuf, wbuf, written} \subseteq Seq(Chunks)
  /\ {flowing, ended, endEmitted, reading, piped, microtask,
      ending, finished, refused} \subseteq BOOLEAN
  /\ writing \in Chunks \cup {None}
  /\ stack \in Seq(Frames)

Init ==
  /\ pushed = 0 /\ rbuf = <<>> /\ ended = FALSE /\ reading = FALSE
  /\ flowing = FALSE /\ endEmitted = FALSE
  /\ piped = FALSE /\ microtask = FALSE
  /\ wbuf = <<>> /\ writing = None /\ written = <<>>
  /\ ending = FALSE /\ finished = FALSE /\ refused = FALSE
  /\ stack = <<>>

Call(at)  == [at |-> at, chunk |-> None]
Turn      == stack = <<>>
Inside(at) == stack # <<>> /\ Last(stack).at = at
Return(calls) == stack' = Front(stack) \o calls

-----------------------------------------------------------------------------
(* The writable *)

Total(chunks) == FoldLeft(LAMBDA sum, c : sum + Size[c], 0, chunks)

\* Mutant: the mark itself is still accepted.
AcceptsMark(chunks) == Total(chunks) <= WriteMark

\* write() returns true.
Accepts(chunks) == Total(chunks) < WriteMark

\* Mutant: 'finish' without looking at what is being written.
EndAtOnce == ending' = TRUE /\ finished' = TRUE

\* end(): 'finish' now, if nothing is being written.
End == /\ ending' = TRUE
       /\ finished' = (finished \/ (writing = None /\ wbuf = <<>>))

\* _emitEnd: the pipe's listener ends the writable; without a pipe nobody
\* listens, then or later.
EmitEnd ==
  /\ endEmitted' = TRUE
  /\ IF piped /\ ~endEmitted THEN End ELSE UNCHANGED <<ending, finished>>

\* The sink gets a chunk and confirms it later, or at once.  base is what
\* stays under way.
Sink(c, base) ==
  /\ written' = Append(written, c)
  /\ \/ writing' = c /\ stack' = base
     \/ writing' = None /\ stack' = Append(base, Call("clear"))

\* Mutant: a chunk for a busy sink goes before those that wait.
BufferFirst(c) == wbuf' = <<c>> \o wbuf

BufferChunk(c) == wbuf' = Append(wbuf, c)

\* onData: dest.write(chunk), and pause if it returns false.  While the sink
\* is busy the chunk is buffered; otherwise the sink may call back into the
\* pipe before write() returns.  There is no write after end: FinishIsLast.
OnData(c) ==
  \/ /\ writing # None
     /\ BufferChunk(c)
     /\ flowing' = Accepts(wbuf')
     /\ UNCHANGED <<writing, written, stack>>
  \/ /\ writing = None
     /\ Sink(c, Append(stack, [at |-> "onData", chunk |-> c]))
     /\ UNCHANGED <<wbuf, flowing>>

\* write() returns to onData.
OnDataReturns ==
  LET c  == Last(stack).chunk
      ok == Accepts(Append(wbuf, c)) IN
  /\ Inside("onData")
  /\ flowing' = (flowing /\ ok)
  /\ refused' = (refused \/ (~ok /\ writing # c))
  /\ Return(<<>>)
  /\ UNCHANGED <<readVars, writeVars, pipeVars, endEmitted, ending, finished>>

\* Mutant: 'drain' triggers a read, and the readable stays paused.
OnDrainReads == UNCHANGED flowing /\ Return(<<Call("resume")>>)

\* The pipe's 'drain' listener: resume().
OnDrain == flowing' = TRUE /\ Return(<<Call("resume"), Call("drain")>>)

\* _clearBuffer of an empty buffer: 'finish' if it is time, and 'drain', upon
\* which the pipe resumes the readable.
Drained ==
  /\ Inside("clear") /\ wbuf = <<>>
  /\ finished' = (finished \/ ending)
  /\ OnDrain
  /\ UNCHANGED <<readVars, writeVars, pipeVars, endEmitted, ending, refused>>

\* _clearBuffer takes the next chunk.
ClearNext ==
  /\ Inside("clear") /\ wbuf # <<>>
  /\ wbuf' = Tail(wbuf)
  /\ Sink(Head(wbuf), Front(stack))
  /\ UNCHANGED <<readVars, pipeVars, flowing, endEmitted,
                 ending, finished, refused>>

\* The sink confirms a chunk in a later turn.
SinkConfirms ==
  /\ Turn /\ ~microtask
  /\ writing # None
  /\ writing' = None
  /\ stack' = <<Call("clear")>>
  /\ UNCHANGED <<readVars, wbuf, written, pipeVars, flowing, endEmitted,
                 ending, finished, refused>>

-----------------------------------------------------------------------------
(* The readable *)

\* The source pushes from a turn of its own, or from _read.
CanPush == ~ended /\ (Turn \/ Inside("read") \/ Inside("guardedRead"))

Push ==
  /\ CanPush /\ pushed < MaxChunks
  /\ pushed' = pushed + 1
  /\ rbuf' = Append(rbuf, pushed')
  /\ stack' = IF flowing THEN Append(stack, Call("drain")) ELSE stack
  /\ UNCHANGED <<ended, reading, writeVars, pipeVars, flowing, endEmitted,
                 ending, finished, refused>>

\* push(null)
PushNull ==
  /\ CanPush
  /\ ended' = TRUE
  /\ IF rbuf = <<>> THEN EmitEnd
     ELSE UNCHANGED <<endEmitted, ending, finished>>
  /\ UNCHANGED <<pushed, rbuf, reading, writeVars, pipeVars, flowing,
                 refused, stack>>

\* _drainBuffer emits 'data'.
DrainNext ==
  /\ Inside("drain") /\ flowing /\ rbuf # <<>>
  /\ ~ending
  /\ rbuf' = Tail(rbuf)
  /\ OnData(Head(rbuf))
  /\ UNCHANGED <<pushed, ended, reading, pipeVars, endEmitted,
                 ending, finished, refused>>

\* _drainBuffer is done.
DrainReturns ==
  /\ Inside("drain") /\ (~flowing \/ rbuf = <<>>)
  /\ IF ended /\ rbuf = <<>> THEN EmitEnd
     ELSE UNCHANGED <<endEmitted, ending, finished>>
  /\ Return(<<>>)
  /\ UNCHANGED <<readVars, writeVars, pipeVars, flowing, refused>>

\* A call of _read, under the protection of _reading or not.
CallRead(guarded) == Call(IF guarded THEN "guardedRead" ELSE "read")

\* The rest of resume(): _read, unless a resume() is inside it already.  The
\* number of chunks is what is compared with the mark.
ResumeReads ==
  /\ Inside("resume")
  /\ IF ~ended /\ ~reading /\ Len(rbuf) < ReadMark
     THEN reading' = TRUE /\ Return(<<CallRead(TRUE)>>)
     ELSE UNCHANGED reading /\ Return(<<>>)
  /\ UNCHANGED <<pushed, rbuf, ended, writeVars, pipeVars, flowing,
                 endEmitted, ending, finished, refused>>

\* The rest of the microtask: _read, whoever else is reading.
MicrotaskReads ==
  /\ Inside("micro")
  /\ Return(IF ~ended /\ rbuf = <<>> THEN <<CallRead(FALSE)>> ELSE <<>>)
  /\ UNCHANGED <<readVars, writeVars, pipeVars, flowing, endEmitted,
                 ending, finished, refused>>

ReadReturns ==
  /\ Inside("read") \/ Inside("guardedRead")
  /\ reading' = (reading /\ ~Inside("guardedRead"))
  /\ Return(<<>>)
  /\ UNCHANGED <<pushed, rbuf, ended, writeVars, pipeVars, flowing,
                 endEmitted, ending, finished, refused>>

-----------------------------------------------------------------------------
(* The pipe *)

\* pipe(): attach the listeners, and resume.
Pipe ==
  /\ Turn /\ ~piped
  /\ piped' = TRUE
  /\ microtask' = TRUE
  /\ flowing' = TRUE
  /\ stack' = <<Call("resume"), Call("drain")>>
  /\ UNCHANGED <<readVars, writeVars, endEmitted, ending, finished, refused>>

\* What on('data') put off.
RunMicrotask ==
  /\ Turn /\ microtask
  /\ microtask' = FALSE
  /\ stack' = <<Call("micro"), Call("drain")>>
  /\ UNCHANGED <<readVars, writeVars, piped, flowing, endEmitted,
                 ending, finished, refused>>

-----------------------------------------------------------------------------
CallSteps == \/ OnDataReturns \/ Drained \/ ClearNext
             \/ DrainNext \/ DrainReturns
             \/ ResumeReads \/ MicrotaskReads \/ ReadReturns

Next == CallSteps \/ Push \/ PushNull \/ Pipe \/ RunMicrotask \/ SinkConfirms

\* Calls return, microtasks run, and the sink confirms what it was given.
Fairness == WF_vars(CallSteps) /\ WF_vars(RunMicrotask) /\ WF_vars(SinkConfirms)

Spec == Init /\ [][Next]_vars /\ Fairness

-----------------------------------------------------------------------------
(* Properties *)

\* Every chunk is in one place, and in the order of the pushes: however deep
\* the calls nest, none is written before an earlier one, twice, or after end.
NothingLost == written \o wbuf \o rbuf = [i \in 1..pushed |-> i]

\* 'finish' comes after the last chunk is confirmed, and only once the source
\* has ended (end, _finish).
FinishIsLast ==
  /\ finished => /\ ended /\ writing = None
                 /\ Len(written) = pushed
  /\ ending => ended /\ rbuf = <<>>

\* All that is pushed is written, in order, and then comes 'finish'.
AllThenFinish == NothingLost /\ FinishIsLast

\* Backpressure: the writable never holds more than its mark and one chunk,
\* and between turns the readable is paused only if a 'drain' is to come -
\* or write() has refused a chunk that was confirmed before it returned.
Backpressure ==
  /\ wbuf = <<>> \/ Total(Front(wbuf)) < WriteMark
  /\ piped /\ Turn /\ ~flowing => writing # None \/ refused

\* A piped stream whose source ends is written to the end and finishes, unless
\* its end came before the pipe, or write() refused a chunk that its sink
\* confirmed at once: 'drain' is then over before the pause that waits for it.
PipeFinishes ==
  piped /\ ended /\ (endEmitted => ending) ~> finished \/ refused
=============================================================================
