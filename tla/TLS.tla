---------------------------------- MODULE TLS ----------------------------------
(***************************************************************************)
(* A TLS::Socket (Net/TLS.h, TLS.cpp): the handshake of OpenSSL goes on in *)
(* whichever call comes first, of the application which writes, of the      *)
(* thread which receives or of the one which flushes, each under _mutex;   *)
(* what has been written meanwhile waits in the queue of Socket, under      *)
(* _mutexSending.                                                          *)
(*                                                                          *)
(* A handshake is a sequence of flights to write and to read; the socket    *)
(* has room for some flights and packets.  The bytes received, the errors   *)
(* and the parts of packets are left out (SocketSend has them).  Left out   *)
(* too: OpenSSL wants a write of which it has kept a record to be tried     *)
(* again from the same memory, and Socket::write() copies a packet of       *)
(* which it does not share the buffer (Socket.cpp:508).                     *)
(***************************************************************************)
EXTENDS Naturals, Sequences

CONSTANTS
  Handshakes,  \* the flights of a client and of a server: sequences of "write" and "read"
  MaxRoom,     \* how many flights or packets the socket may hold
  MaxWrites    \* bound: packets written

VARIABLES
  flights,    \* what remains of the handshake: empty when SSL_is_init_finished
  room,       \* free room of the socket
  inbox,      \* flights of the peer to read
  answers,    \* flights that the peer has to send
  edges,      \* what epoll has to tell: "in", "out"
  open,       \* _opened
  sending,    \* _sending
  queue,      \* how many packets are in _sendings
  writes,     \* packets written by the application
  sent,       \* packets given to the socket
  receives,   \* a Receive in the pool
  sends,      \* a Send in the pool
  mutex,      \* owner of _mutex, or None
  sendMutex,  \* owner of _mutexSending, or None
  at          \* where each thread is

network == <<room, inbox, answers, edges>>
work == <<open, sending, queue, writes, sent, receives, sends>>
tlsVars == <<flights, network, work, mutex, sendMutex, at>>

None == "none"
Threads == {"application", "receiver", "sender"}

TLSInit ==
  /\ flights \in Handshakes
  /\ room = MaxRoom /\ inbox = 0 /\ answers = (IF Head(flights) = "read" THEN 1 ELSE 0)
  /\ edges = {"out"} /\ open = FALSE /\ sending = FALSE
  /\ queue = 0 /\ writes = 0 /\ sent = 0 /\ receives = FALSE /\ sends = FALSE
  /\ mutex = None /\ sendMutex = None /\ at = [t \in Threads |-> "idle"]

Goes(t, place) == at' = [at EXCEPT ![t] = place]
Finished == flights = <<>>

-----------------------------------------------------------------------------
(* The peer, the system, and the polling thread *)

Answer ==
  /\ answers > 0 /\ answers' = answers - 1 /\ inbox' = inbox + 1
  /\ edges' = edges \cup {"in"}
  /\ UNCHANGED <<flights, room, work, mutex, sendMutex, at>>

Drain ==
  /\ room < MaxRoom /\ room' = room + 1
  /\ edges' = IF room = 0 THEN edges \cup {"out"} ELSE edges
  /\ UNCHANGED <<flights, inbox, answers, work, mutex, sendMutex, at>>

\* IOSocket: a socket is flushed when it is told writable, the first time, and then if it
\* is sending. epoll tells it with every other event, kqueue and Windows at an edge only.
Poll(both) ==
  LET out == room > 0 /\ ("out" \in edges \/ both) IN
  /\ edges # {} /\ edges' = {}
  /\ receives' = (receives \/ "in" \in edges)
  /\ open' = (open \/ out)
  /\ sends' = (sends \/ (out /\ (~open \/ sending)))
  /\ UNCHANGED <<flights, room, inbox, answers, sending, queue, writes, sent, mutex, sendMutex, at>>

-----------------------------------------------------------------------------
(* OpenSSL, under _mutex *)

\* SSL_do_handshake, SSL_read and SSL_write do what they can of the handshake.
CanShake == ~Finished /\ IF Head(flights) = "read" THEN inbox > 0 ELSE room > 0

Shake(t) ==
  /\ mutex = t /\ at[t] \in {"handshake", "try", "write"} /\ CanShake
  /\ flights' = Tail(flights)
  /\ answers' = IF Tail(flights) # <<>> /\ Head(Tail(flights)) = "read" THEN answers + 1 ELSE answers
  /\ IF Head(flights) = "read" THEN inbox' = inbox - 1 /\ UNCHANGED room
     ELSE room' = room - 1 /\ UNCHANGED inbox
  /\ UNCHANGED <<edges, work, mutex, sendMutex, at>>

Lock(t) == mutex = None /\ mutex' = t
Unlock(t) == mutex = t /\ mutex' = None

-----------------------------------------------------------------------------
(* Socket::write and Socket::flush, with _mutexSending, and sendTo          *)

WriteStart ==
  /\ at["application"] = "idle" /\ writes < MaxWrites /\ writes' = writes + 1
  /\ sendMutex = None /\ sendMutex' = "application" /\ Goes("application", "queue")
  /\ sending' = (sending \/ queue = 0)
  /\ UNCHANGED <<flights, network, open, queue, sent, receives, sends, mutex>>

\* A packet behind others waits with them, and the first one is tried.
WriteQueue ==
  /\ at["application"] = "queue" /\ queue > 0
  /\ queue' = queue + 1 /\ sendMutex' = None /\ Goes("application", "idle")
  /\ UNCHANGED <<flights, network, open, sending, writes, sent, receives, sends, mutex>>

WriteTry ==
  /\ at["application"] = "queue" /\ queue = 0
  /\ Lock("application") /\ Goes("application", "write")
  /\ UNCHANGED <<flights, network, work, sendMutex>>

\* SSL_write gives it to the socket, or wants to read or to write first.
WriteEnd ==
  /\ at["application"] = "write" /\ ~CanShake /\ Unlock("application")
  /\ sendMutex' = None /\ Goes("application", "idle")
  /\ IF Finished /\ room > 0
     THEN /\ room' = room - 1 /\ sent' = sent + 1 /\ sending' = FALSE /\ UNCHANGED queue
     ELSE /\ queue' = queue + 1 /\ UNCHANGED <<room, sent, sending>>
  /\ UNCHANGED <<flights, inbox, answers, edges, open, writes, receives, sends>>

\* Socket::flush, of a Receive or of a Send.
FlushStart(t) ==
  /\ at[t] = "flush" /\ sendMutex = None /\ sendMutex' = t /\ Goes(t, "flushing")
  /\ UNCHANGED <<flights, network, work, mutex>>

FlushTry(t) ==
  /\ at[t] = "flushing" /\ queue > 0 /\ Lock(t) /\ Goes(t, "try")
  /\ UNCHANGED <<flights, network, work, sendMutex>>

AfterFlush(t) == IF t = "receiver" THEN "read" ELSE "idle"

FlushSent(t) ==
  /\ at[t] = "try" /\ Finished /\ room > 0 /\ Unlock(t) /\ Goes(t, "flushing")
  /\ room' = room - 1 /\ sent' = sent + 1 /\ queue' = queue - 1
  /\ UNCHANGED <<flights, inbox, answers, edges, open, sending, writes, receives, sends, sendMutex>>

FlushBlocked(t) ==
  /\ at[t] = "try" /\ ~CanShake /\ (Finished => room = 0) /\ Unlock(t)
  /\ sendMutex' = None /\ Goes(t, AfterFlush(t))
  /\ UNCHANGED <<flights, network, work>>

FlushEnd(t) ==
  /\ at[t] = "flushing" /\ queue = 0 /\ sendMutex' = None /\ Goes(t, AfterFlush(t))
  /\ sending' = FALSE
  /\ UNCHANGED <<flights, network, open, queue, writes, sent, receives, sends, mutex>>

-----------------------------------------------------------------------------
(* TLS::Socket::receive *)

ReceiveStart ==
  /\ at["receiver"] = "idle" /\ receives /\ receives' = FALSE /\ Lock("receiver")
  /\ Goes("receiver", IF Finished THEN "end" ELSE "handshake")
  /\ UNCHANGED <<flights, network, open, sending, queue, writes, sent, sends, sendMutex>>

\* Mutant of ReceiveHandshake: nothing is flushed.
ReceiveHandshakeAlone ==
  /\ at["receiver"] = "handshake" /\ ~CanShake /\ Unlock("receiver")
  /\ Goes("receiver", IF Finished THEN "read" ELSE "idle")
  /\ UNCHANGED <<flights, network, work, sendMutex>>

\* Without _mutex, which sendTo takes: the packets queued during the handshake leave.
ReceiveHandshake ==
  /\ at["receiver"] = "handshake" /\ ~CanShake /\ Unlock("receiver")
  /\ Goes("receiver", IF Finished THEN "flush" ELSE "idle")
  /\ UNCHANGED <<flights, network, work, sendMutex>>

ReceiveRead ==
  /\ at["receiver"] = "read" /\ Lock("receiver") /\ Goes("receiver", "end")
  /\ UNCHANGED <<flights, network, work, sendMutex>>

\* SSL_read has nothing more.
ReceiveEnd ==
  /\ at["receiver"] = "end" /\ Unlock("receiver") /\ Goes("receiver", "idle")
  /\ UNCHANGED <<flights, network, work, sendMutex>>

-----------------------------------------------------------------------------
(* TLS::Socket::flush *)

\* queueing() is read without a lock: SSL_write will do the handshake.
SendStart ==
  /\ at["sender"] = "idle" /\ sends /\ sends' = FALSE
  /\ Goes("sender", IF queue > 0 THEN "flush" ELSE "shake")
  /\ UNCHANGED <<flights, network, open, sending, queue, writes, sent, receives, mutex, sendMutex>>

SendLock ==
  /\ at["sender"] = "shake" /\ Lock("sender") /\ Goes("sender", "handshake")
  /\ UNCHANGED <<flights, network, work, sendMutex>>

SendHandshake ==
  /\ at["sender"] = "handshake" /\ ~CanShake /\ Unlock("sender")
  /\ Goes("sender", IF Finished THEN "flush" ELSE "idle")
  /\ UNCHANGED <<flights, network, work, sendMutex>>

-----------------------------------------------------------------------------
Flush(t) == FlushStart(t) \/ FlushTry(t) \/ FlushSent(t) \/ FlushBlocked(t) \/ FlushEnd(t)
ApplicationEnds == WriteQueue \/ WriteTry \/ WriteEnd \/ Shake("application")
Receiver ==
  \/ ReceiveStart \/ ReceiveHandshake \/ ReceiveRead \/ ReceiveEnd
  \/ Flush("receiver") \/ Shake("receiver")
Sender == SendStart \/ SendLock \/ SendHandshake \/ Flush("sender") \/ Shake("sender")
Network == Answer \/ Drain \/ \E both \in BOOLEAN : Poll(both)

TLSNext == WriteStart \/ ApplicationEnds \/ Receiver \/ Sender \/ Network

\* A thread which can go on does, the system sends and the peer answers; nothing makes the
\* application write.
TLSFairness ==
  /\ WF_tlsVars(ApplicationEnds)
  /\ WF_tlsVars(Receiver) /\ WF_tlsVars(Sender) /\ WF_tlsVars(Network)

-----------------------------------------------------------------------------
(* Correctness *)

\* Whatever is written, before, during and after the handshake is given to the socket at
\* last, although the handshake goes on in three threads and epoll tells an edge once.
EveryPacketSent == []<>(queue = 0 /\ sent = writes)
=============================================================================
