----------------------------- MODULE SocketSend -----------------------------
(***************************************************************************)
(* The sendings of a Mona::Socket: Socket::write and flush (Net/Socket.cpp)*)
(* under their mutex, and IOSocket::write (Net/IOSocket.cpp), by which the *)
(* edge-triggered EPOLLOUT of the system becomes a flush in a thread of    *)
(* the pool, and then an onFlush of the application.                       *)
(*                                                                         *)
(* The system is modelled by what the code relies on: send() takes what it *)
(* has room for, and when it has not taken all of it, an edge comes once   *)
(* there is room again.  One action is one access to what the polling      *)
(* thread and the system see without the mutex: _sending, _opened, the     *)
(* buffer of the system. A byte is the number of its packet.               *)
(***************************************************************************)
EXTENDS Integers, Sequences, SequencesExt

CONSTANTS
  Writers,    \* the threads which call write()
  Flushers,   \* the threads of the pool, which flush
  None,       \* no thread
  MaxRoom,    \* the size of the buffer of the system
  MaxSize,    \* the size of the biggest packet
  MaxWrites,  \* how many packets are written
  MaxTasks    \* the actions of the pool and of the handler for a FalseWrite

ASSUME SocketSendAssumption ==
  /\ None \notin Writers \cup Flushers
  /\ Writers \cap Flushers = {}
  /\ MaxRoom \in Nat \ {0} /\ MaxSize \in 1 .. MaxRoom
  /\ MaxWrites \in Nat /\ MaxTasks \in Nat

VARIABLES
  stream,     \* the type of the socket: TYPE_STREAM or TYPE_DATAGRAM
  link,       \* the connection: "connecting", "up" or "down"
  room,       \* the free room in the buffer of the system
  full,       \* send() has not taken all of it: an edge will come
  edge,       \* EPOLLOUT, not seen yet by the polling thread
  seen,       \* the polling thread is in IOSocket::write
  opened,     \* _opened
  sending,    \* _sending
  sendings,   \* _sendings: the rest of each packet, one element per byte
  queueing,   \* _queueing
  mutex,      \* the thread which has _mutexSending
  pc,         \* where each thread is
  written,    \* what the flush of each thread has written
  tasks,      \* the Send actions in the pool
  events,     \* their Handle in the handler
  count,      \* history: how many packets have been written
  packet,     \* the packet of the last write()
  asked,      \* history: the bytes which write() has accepted
  wire,       \* history: the bytes given to the system
  waiting,    \* history: a packet has been queued since the last onFlush
  lost        \* history: the system has refused a datagram

kernel == <<link, room, full, edge>>
polled == <<seen, opened>>
writes == <<count, packet, asked, waiting>>
vars == <<stream, link, room, full, edge, seen, opened, sending, sendings, queueing,
          mutex, pc, written, tasks, events, count, packet, asked, wire, waiting, lost>>

Smallest(a, b) == IF a < b THEN a ELSE b
Bytes(number, size) == [i \in 1 .. size |-> number]
Rest(bytes, sent) == SubSeq(bytes, sent + 1, Len(bytes))

\* A client whose connect() has been called, or a datagram socket; epoll gives
\* a first edge when the socket is writable.
Init ==
  /\ stream \in BOOLEAN
  /\ link = IF stream THEN "connecting" ELSE "up"
  /\ room = MaxRoom /\ full = FALSE
  /\ edge = ~stream
  /\ seen = FALSE /\ opened = FALSE
  /\ sending = FALSE /\ sendings = <<>> /\ queueing = 0
  /\ mutex = None
  /\ pc = [t \in Writers \cup Flushers |-> "idle"]
  /\ written = [t \in Flushers |-> 0]
  /\ tasks = 0 /\ events = 0
  /\ count = 0 /\ packet = <<>> /\ asked = <<>> /\ wire = <<>> /\ waiting = FALSE /\ lost = FALSE

-----------------------------------------------------------------------------
(* The system.                                                             *)

Connected ==
  /\ link = "connecting"
  /\ link' = "up" /\ edge' = TRUE
  /\ UNCHANGED <<stream, room, full, polled, sending, sendings, queueing, mutex, pc,
                 written, tasks, events, writes, wire, lost>>

\* Refused or reset: no EPOLLOUT is looked at any more.
Broken ==
  /\ stream /\ link # "down"
  /\ link' = "down" /\ edge' = FALSE
  /\ UNCHANGED <<stream, room, full, polled, sending, sendings, queueing, mutex, pc,
                 written, tasks, events, writes, wire, lost>>

\* The peer has received: there is room again.
Drain ==
  /\ link = "up" /\ room < MaxRoom
  /\ room' = MaxRoom
  /\ full' = FALSE
  /\ edge' = (edge \/ full)
  /\ UNCHANGED <<stream, link, polled, sending, sendings, queueing, mutex, pc,
                 written, tasks, events, writes, wire, lost>>

\* Another event of the socket reports that it is writable too.
FalseWrite ==
  /\ link = "up" /\ room > 0 /\ tasks + events < MaxTasks
  /\ edge' = TRUE
  /\ UNCHANGED <<stream, link, room, full, polled, sending, sendings, queueing, mutex,
                 pc, written, tasks, events, writes, wire, lost>>

\* What send() takes of some bytes; a datagram goes as a whole.
Takes(bytes) ==
  IF link = "connecting" \/ (~stream /\ room < Len(bytes))
  THEN 0 ELSE Smallest(room, Len(bytes))

\* send() does not fail, and has taken this much.
Sent(bytes, sent) ==
  /\ link # "down"
  /\ sent = Takes(bytes)
  /\ room' = room - sent
  /\ full' = (full \/ (link = "up" /\ sent < Len(bytes)))
  /\ wire' = wire \o SubSeq(bytes, 1, sent)
  /\ UNCHANGED <<link, edge>>

\* send() fails: the connection is lost, or the system refuses this datagram.
Fails == (stream => link = "down") /\ UNCHANGED <<kernel, wire>>

-----------------------------------------------------------------------------
(* The polling thread.                                                     *)

PollWrite ==
  /\ edge /\ ~seen
  /\ edge' = FALSE /\ seen' = TRUE
  /\ UNCHANGED <<stream, link, room, full, opened, sending, sendings, queueing, mutex,
                 pc, written, tasks, events, writes, wire, lost>>

\* IOSocket::write: the first event is the connection, and is always signalled.
IOWrite ==
  /\ seen
  /\ seen' = FALSE
  /\ opened' = TRUE
  /\ tasks' = IF ~opened \/ sending THEN tasks + 1 ELSE tasks
  /\ UNCHANGED <<stream, kernel, sending, sendings, queueing, mutex, pc, written,
                 events, writes, wire, lost>>

-----------------------------------------------------------------------------
(* write(), by any thread.                                                 *)

QueueBytes(bytes) ==
  /\ sendings' = Append(sendings, bytes)
  /\ queueing' = queueing + Len(bytes)
  /\ waiting' = TRUE

\* Mutant of Write: _sending is not set.
WriteUnmarked(t, size) ==
  /\ pc[t] = "idle" /\ mutex = None /\ count < MaxWrites
  /\ count' = count + 1
  /\ packet' = Bytes(count', size)
  /\ asked' = asked \o packet'
  /\ IF sendings # <<>>
     THEN QueueBytes(packet') /\ UNCHANGED <<sending, mutex, pc>>
     ELSE /\ mutex' = t
          /\ pc' = [pc EXCEPT ![t] = "write"]
          /\ UNCHANGED <<sending, sendings, queueing, waiting>>
  /\ UNCHANGED <<stream, kernel, polled, written, tasks, events, wire, lost>>

\* Under the mutex: behind the others, or a try to send it now.
Write(t, size) ==
  /\ pc[t] = "idle" /\ mutex = None /\ count < MaxWrites
  /\ count' = count + 1
  /\ packet' = Bytes(count', size)
  /\ asked' = asked \o packet'
  /\ IF sendings # <<>>
     THEN QueueBytes(packet') /\ UNCHANGED <<sending, mutex, pc>>
     ELSE /\ sending' = TRUE /\ mutex' = t
          /\ pc' = [pc EXCEPT ![t] = "write"]
          /\ UNCHANGED <<sendings, queueing, waiting>>
  /\ UNCHANGED <<stream, kernel, polled, written, tasks, events, wire, lost>>

Unlock(t, at) == mutex' = None /\ pc' = [pc EXCEPT ![t] = at]

\* Mutant of WriteSent: the whole packet is queued.
WriteSentWhole(t) ==
  LET sent == Takes(packet) IN
  /\ mutex = t
  /\ Sent(packet, sent)
  /\ IF sent = Len(packet)
     THEN sending' = FALSE /\ UNCHANGED <<sendings, queueing, waiting>>
     ELSE QueueBytes(packet) /\ UNCHANGED sending
  /\ Unlock(t, "idle")
  /\ UNCHANGED <<stream, polled, written, tasks, events, count, packet, asked, lost>>

WriteSent(t) ==
  LET sent == Takes(packet) IN
  /\ mutex = t
  /\ Sent(packet, sent)
  /\ IF sent = Len(packet)
     THEN sending' = FALSE /\ UNCHANGED <<sendings, queueing, waiting>>
     ELSE QueueBytes(Rest(packet, sent)) /\ UNCHANGED sending
  /\ Unlock(t, "idle")
  /\ UNCHANGED <<stream, polled, written, tasks, events, count, packet, asked, lost>>

\* write() returns -1; the stream is shut down.
WriteFails(t) ==
  /\ mutex = t /\ Fails
  /\ sending' = FALSE
  /\ lost' = TRUE
  /\ Unlock(t, "idle")
  /\ UNCHANGED <<stream, polled, sendings, queueing, written, tasks, events, writes>>

-----------------------------------------------------------------------------
(* The Send action: flush() in a thread of the pool, then its Handle.      *)

Flush(t) ==
  /\ pc[t] = "idle" /\ mutex = None /\ tasks > 0
  /\ tasks' = tasks - 1
  /\ mutex' = t
  /\ pc' = [pc EXCEPT ![t] = "flush"]
  /\ written' = [written EXCEPT ![t] = 0]
  /\ UNCHANGED <<stream, kernel, polled, sending, sendings, queueing, events, writes,
                 wire, lost>>

\* The front goes, in part or as a whole; in part, flush() is over.
FlushSent(t) ==
  LET bytes == Head(sendings)
      sent == Takes(bytes)
  IN
  /\ pc[t] = "flush" /\ sendings # <<>>
  /\ Sent(bytes, sent)
  /\ written' = [written EXCEPT ![t] = @ + sent]
  /\ IF sent = Len(bytes)
     THEN sendings' = Tail(sendings) /\ UNCHANGED pc
     ELSE /\ sendings' = [sendings EXCEPT ![1] = Rest(bytes, sent)]
          /\ pc' = [pc EXCEPT ![t] = "end"]
  /\ UNCHANGED <<stream, polled, sending, queueing, mutex, tasks, events, writes, lost>>

\* A refused datagram is dropped, and flush() is over; a stream is shut down, and
\* _queueing stays what it was.
FlushFails(t) ==
  /\ pc[t] = "flush" /\ sendings # <<>> /\ Fails
  /\ lost' = TRUE
  /\ IF stream
     THEN Unlock(t, "idle") /\ UNCHANGED sendings
     ELSE /\ sendings' = Tail(sendings)
          /\ pc' = [pc EXCEPT ![t] = "end"] /\ UNCHANGED mutex
  /\ UNCHANGED <<stream, polled, sending, queueing, written, tasks, events, writes>>

\* Mutant of FlushEnd: _queueing is counted down at the end of the queue only.
FlushEndEmpty(t) ==
  /\ pc[t] = "end" \/ (pc[t] = "flush" /\ sendings = <<>>)
  /\ queueing' = IF sendings = <<>> THEN queueing - written[t] ELSE queueing
  /\ sending' = (sending /\ ~(written[t] > 0 /\ queueing' = 0))
  /\ Unlock(t, "check")
  /\ UNCHANGED <<stream, kernel, polled, sendings, written, tasks, events, writes,
                 wire, lost>>

FlushEnd(t) ==
  /\ pc[t] = "end" \/ (pc[t] = "flush" /\ sendings = <<>>)
  /\ queueing' = queueing - written[t]
  /\ sending' = (sending /\ ~(written[t] > 0 /\ queueing' = 0))
  /\ Unlock(t, "check")
  /\ UNCHANGED <<stream, kernel, polled, sendings, written, tasks, events, writes,
                 wire, lost>>

\* Out of the mutex: onFlush when all is sent...
Signal(t) ==
  /\ pc[t] = "check"
  /\ pc' = [pc EXCEPT ![t] = "idle"]
  /\ events' = IF queueing = 0 THEN events + 1 ELSE events
  /\ UNCHANGED <<stream, kernel, polled, sending, sendings, queueing, mutex, written,
                 tasks, writes, wire, lost>>

\* ... and still is, in the thread of the application.
Dispatch ==
  /\ events > 0
  /\ events' = events - 1
  /\ waiting' = (waiting /\ queueing # 0)
  /\ UNCHANGED <<stream, kernel, polled, sending, sendings, queueing, mutex, pc,
                 written, tasks, count, packet, asked, wire, lost>>

-----------------------------------------------------------------------------

Poll == PollWrite \/ IOWrite
Writer(t) == WriteSent(t) \/ WriteFails(t)
Flusher(t) == Flush(t) \/ FlushSent(t) \/ FlushFails(t) \/ FlushEnd(t) \/ Signal(t)

Next ==
  \/ Connected \/ Broken \/ Drain \/ FalseWrite
  \/ Poll \/ Dispatch
  \/ \E t \in Writers : Writer(t) \/ \E size \in 1 .. MaxSize : Write(t, size)
  \/ \E t \in Flushers : Flusher(t)

Spec == Init /\ [][Next]_vars

\* A connection succeeds or not, the peer receives, threads go on; nothing
\* obliges a thread to write, and EPOLLOUT comes with other events by chance.
FairSpec ==
  /\ Spec
  /\ WF_vars(Connected) /\ WF_vars(Drain) /\ WF_vars(Poll) /\ WF_vars(Dispatch)
  /\ \A t \in Writers : WF_vars(Writer(t))
  /\ \A t \in Flushers : SF_vars(Flush(t)) /\ WF_vars(Flusher(t))

-----------------------------------------------------------------------------
(* Correctness *)

TypeOK ==
  /\ stream \in BOOLEAN /\ link \in {"connecting", "up", "down"}
  /\ room \in 0 .. MaxRoom /\ full \in BOOLEAN /\ edge \in BOOLEAN
  /\ seen \in BOOLEAN /\ opened \in BOOLEAN /\ sending \in BOOLEAN
  /\ sendings \in Seq(Seq(1 .. MaxWrites)) /\ queueing \in Nat
  /\ mutex \in {None} \cup Writers \cup Flushers
  /\ pc \in [Writers \cup Flushers -> {"idle", "write", "flush", "end", "check"}]
  /\ written \in [Flushers -> Nat] /\ tasks \in Nat /\ events \in Nat
  /\ count \in 0 .. MaxWrites /\ packet \in Seq(1 .. MaxWrites)
  /\ asked \in Seq(1 .. MaxWrites) /\ wire \in Seq(1 .. MaxWrites)
  /\ waiting \in BOOLEAN /\ lost \in BOOLEAN

\* "Sequential and safe writing" (Net/Socket.h:144): whatever the threads which
\* write and flush, and the pieces the system takes, what it was given and what
\* is queued are the bytes asked for, in their order, unless the system has failed.
SentInOrder ==
  mutex = None /\ ~lost => wire \o FlattenSeq(sendings) = asked

\* queueing() is what is queued, and _sending is set as long as there is some:
\* the polling thread drops the edge otherwise.
QueueingIsExact ==
  mutex = None /\ ~lost =>
    /\ queueing = Len(FlattenSeq(sendings))
    /\ sendings # <<>> => sending

\* The edge which lets a queued packet go is never missed: "can queue data if
\* can't send immediatly (flush required on onFlush event)" (Net/Socket.h:144),
\* and onFlush comes once all is sent, unless the connection breaks or the system
\* refuses a datagram.
EveryWriteFlushed == waiting ~> ~waiting \/ link = "down" \/ lost
=============================================================================
