------------------------------ MODULE IOSocket ------------------------------
(***************************************************************************)
(* Mona::IOSocket (Net/IOSocket.cpp), the receptions of TCP sockets: the   *)
(* polling thread and its life, the Receive, Send and Close actions which  *)
(* it queues in the pool, and what they queue in the handler.              *)
(*                                                                         *)
(* The polling thread is modelled with epoll, edge-triggered: the system   *)
(* gives all that a socket is ready for when something new happens on it.  *)
(* A byte is its rank in what the peer sends.  The actions of a socket     *)
(* have one thread (_threadReceive), a Send has any.  TCPClient holds the  *)
(* sockets and receives what is in the handler.                            *)
(***************************************************************************)
EXTENDS Integers, Sequences

CONSTANTS
  MaxSockets, \* the number of sockets, which are each connected once
  Streams     \* which sockets there are, how many bytes the peer of each sends, how the
              \* connections may end ("ended", "reset", or not by the peers), and the
              \* recvBufferSize() of the sockets

Sockets == 1 .. MaxSockets
None == 0

ASSUME IOSocketAssumption ==
  /\ MaxSockets \in Nat
  /\ \A p \in Streams : /\ p.sizes \in Seq(Nat) /\ Len(p.sizes) <= MaxSockets
                        /\ p.ends \subseteq {"ended", "reset"} /\ p.limit \in Nat \ {0}

VARIABLES
  stream,       \* one of Streams
  link,         \* the connection of each socket
  arrived,      \* the bytes it has got from its peer
  received,     \* the bytes which recv() has given
  edge,         \* epoll has something new for it
  poller,       \* where the polling thread is; "off" when it does not run
  batch,        \* what it still has to do for each socket
  reader,       \* the socket whose _reading it has seen null
  subscribers,  \* _subscribers
  weak,         \* the Weak<Socket> given to epoll, *_pWeakThis
  piped,        \* the Weak<Socket> in the pipe
  woken,        \* the pipe is in the batch
  held,         \* whose Shared<Socket> the application has
  opened,       \* _opened
  reading,      \* _reading
  receiving,    \* _receiving
  tasks,        \* the actions of each socket in the pool
  loop,         \* the thread of this socket is in Receive::process
  flushes,      \* how many Send of each socket are in the pool
  results       \* the queue of the handler

peers == <<stream, link, arrived>>
polling == <<poller, batch, reader, piped, woken>>
pooled == <<tasks, loop, flushes>>
ioVars == <<stream, link, arrived, received, edge, poller, batch, reader, subscribers, weak,
            piped, woken, held, opened, reading, receiving, tasks, loop, flushes, results>>

Limit == stream.limit

IOInit ==
  /\ stream \in Streams
  /\ link = [s \in Sockets |-> "none"]
  /\ arrived = [s \in Sockets |-> 0] /\ received = [s \in Sockets |-> 0]
  /\ edge = [s \in Sockets |-> FALSE]
  /\ poller = "off" /\ batch = [s \in Sockets |-> {}] /\ reader = None
  /\ subscribers = 0 /\ weak = [s \in Sockets |-> "none"]
  /\ piped = {} /\ woken = FALSE /\ held = {}
  /\ opened = [s \in Sockets |-> FALSE]
  /\ reading = [s \in Sockets |-> 0] /\ receiving = [s \in Sockets |-> 0]
  /\ tasks = [s \in Sockets |-> <<>>] /\ loop = [s \in Sockets |-> FALSE]
  /\ flushes = [s \in Sockets |-> 0]
  /\ results = <<>>

\* Each access of a uint8_t.
Up(n) == (n + 1) % 256
Down(n) == (n + 255) % 256
Blocked == 255

-----------------------------------------------------------------------------
(* The peers, of the sockets which the application has: nothing is seen of *)
(* the others.                                                             *)

Established(s) ==
  /\ s \in held /\ link[s] = "connecting"
  /\ link' = [link EXCEPT ![s] = "up"] /\ edge' = [edge EXCEPT ![s] = TRUE]
  /\ UNCHANGED <<stream, arrived, received, polling, subscribers, weak, held, opened, reading,
                 receiving, pooled, results>>

Arrive(s) ==
  /\ s \in held /\ link[s] = "up" /\ arrived[s] < stream.sizes[s]
  /\ arrived' = [arrived EXCEPT ![s] = @ + 1] /\ edge' = [edge EXCEPT ![s] = TRUE]
  /\ UNCHANGED <<stream, link, received, polling, subscribers, weak, held, opened, reading,
                 receiving, pooled, results>>

\* The end of the stream, or a connection refused or reset.
End(s, how) ==
  /\ s \in held /\ how \in stream.ends
  /\ link[s] = "up" \/ (link[s] = "connecting" /\ how = "reset")
  /\ link' = [link EXCEPT ![s] = how] /\ edge' = [edge EXCEPT ![s] = TRUE]
  /\ UNCHANGED <<stream, arrived, received, polling, subscribers, weak, held, opened, reading,
                 receiving, pooled, results>>

\* What epoll gives of a socket.
Events(s) ==
  { e \in {"hup", "out", "in"} :
      \/ e = "hup" /\ link[s] \in {"ended", "reset"}
      \/ e = "out" /\ link[s] = "up"
      \/ e = "in"  /\ received[s] < arrived[s] }

-----------------------------------------------------------------------------
(* The polling thread, IOSocket::run.                                      *)

\* Someone else than the weak reference keeps the socket.
Alive(s) == s \in held \/ loop[s] \/ reader = s

EpollWait ==
  LET ready == { s \in Sockets : weak[s] = "set" /\ edge[s] } IN
  /\ poller = "wait" /\ (ready # {} \/ piped # {})
  /\ poller' = "batch"
  /\ batch' = [s \in Sockets |-> IF s \in ready THEN Events(s) ELSE {}]
  /\ edge' = [s \in Sockets |-> edge[s] /\ s \notin ready]
  /\ woken' = (piped # {})
  /\ UNCHANGED <<peers, received, reader, subscribers, weak, piped, held, opened,
                 reading, receiving, pooled, results>>

Done(s, events) == batch' = [batch EXCEPT ![s] = @ \ events]

\* The socket is dead.
PollDead(s) ==
  /\ poller = "batch" /\ reader = None /\ batch[s] # {} /\ ~Alive(s)
  /\ Done(s, batch[s])
  /\ UNCHANGED <<peers, received, edge, poller, reader, subscribers, weak, piped, woken,
                 held, opened, reading, receiving, pooled, results>>

\* close(): with EPOLLRDHUP nothing else is looked at, what there is to read included.
PollClose(s) ==
  /\ poller = "batch" /\ reader = None /\ "hup" \in batch[s] /\ Alive(s)
  /\ Done(s, batch[s])
  /\ tasks' = [tasks EXCEPT ![s] = Append(@, IF link[s] = "reset" THEN "fail" ELSE "close")]
  /\ UNCHANGED <<peers, received, edge, poller, reader, subscribers, weak, piped, woken,
                 held, opened, reading, receiving, loop, flushes, results>>

\* write(): the first time is the connection; here nothing is _sending.
PollWrite(s) ==
  /\ poller = "batch" /\ reader = None /\ Alive(s)
  /\ "out" \in batch[s] /\ "hup" \notin batch[s]
  /\ Done(s, {"out"})
  /\ opened' = [opened EXCEPT ![s] = TRUE]
  /\ flushes' = [flushes EXCEPT ![s] = IF opened[s] THEN @ ELSE @ + 1]
  /\ UNCHANGED <<peers, received, edge, poller, reader, subscribers, weak, piped, woken,
                 held, reading, receiving, tasks, loop, results>>

\* read(): the test of _reading...
PollTest(s) ==
  /\ poller = "batch" /\ reader = None /\ batch[s] = {"in"} /\ Alive(s)
  /\ Done(s, {"in"})
  /\ reader' = IF reading[s] = 0 THEN s ELSE None
  /\ UNCHANGED <<peers, received, edge, poller, subscribers, weak, piped, woken, held,
                 opened, reading, receiving, pooled, results>>

\* ... and the reception of which it is one more.
PollRead(s) ==
  /\ reader = s
  /\ reader' = None
  /\ reading' = [reading EXCEPT ![s] = Up(@)]
  /\ tasks' = [tasks EXCEPT ![s] = Append(@, "receive")]
  /\ UNCHANGED <<peers, received, edge, poller, batch, subscribers, weak, piped, woken,
                 held, opened, receiving, loop, flushes, results>>

\* Mutant of BatchEnd: the references are deleted as soon as the pipe is read.
BatchEndEarly ==
  /\ poller = "batch" /\ reader = None
  /\ piped' = IF woken THEN {} ELSE piped
  /\ weak' = [s \in Sockets |-> IF woken /\ s \in piped THEN "deleted" ELSE weak[s]]
  /\ woken' = FALSE
  /\ poller' = IF subscribers = 0 THEN "stop" ELSE "wait"
  /\ UNCHANGED <<peers, received, edge, batch, reader, subscribers, held, opened, reading,
                 receiving, pooled, results>>

\* The references which the pipe has given are deleted (what it gets until here is read
\* too: the latest that the code may read it); and then, without _mutex: no more socket
\* to manage?
BatchEnd ==
  /\ poller = "batch" /\ reader = None /\ \A s \in Sockets : batch[s] = {}
  /\ piped' = IF woken THEN {} ELSE piped
  /\ weak' = [s \in Sockets |-> IF woken /\ s \in piped THEN "deleted" ELSE weak[s]]
  /\ woken' = FALSE
  /\ poller' = IF subscribers = 0 THEN "stop" ELSE "wait"
  /\ UNCHANGED <<peers, received, edge, batch, reader, subscribers, held, opened, reading,
                 receiving, pooled, results>>

\* Mutant of PollerStop: nothing is tested again with _mutex.
PollerStopBlindly ==
  /\ poller = "stop"
  /\ poller' = "off" /\ piped' = {}
  /\ UNCHANGED <<peers, received, edge, batch, reader, subscribers, weak, woken, held,
                 opened, reading, receiving, pooled, results>>

\* The same test with _mutex.
PollerStop ==
  /\ poller = "stop"
  /\ IF subscribers = 0 THEN poller' = "off" /\ piped' = {}
     ELSE poller' = "wait" /\ UNCHANGED piped
  /\ UNCHANGED <<peers, received, edge, batch, reader, subscribers, weak, woken, held,
                 opened, reading, receiving, pooled, results>>

-----------------------------------------------------------------------------
(* subscribe() and unsubscribe(), with _mutex, by the application.         *)

Subscribed(s) ==
  /\ poller' = IF poller = "off" THEN "wait" ELSE poller
  /\ subscribers' = subscribers + 1
  /\ weak' = [weak EXCEPT ![s] = "set"]

\* The weak reference goes through the pipe, for the batch can have it.
Unsubscribed(s) ==
  /\ subscribers' = subscribers - 1
  /\ IF poller = "off"
     THEN weak' = [weak EXCEPT ![s] = "deleted"] /\ UNCHANGED piped
     ELSE weak' = [weak EXCEPT ![s] = "piped"] /\ piped' = piped \cup {s}

-----------------------------------------------------------------------------
(* The threads of the pool.                                                *)

\* Action::handle: nothing when the application has released the socket.
Queued(s, result) == results' = IF s \in held THEN Append(results, result) ELSE results

Result(s, kind) == [socket |-> s, kind |-> kind, from |-> 0, to |-> 0, armed |-> FALSE]

NextTask(s) == tasks' = [tasks EXCEPT ![s] = Tail(@)]

\* An action whose socket is dead.
RunDead(s) ==
  /\ tasks[s] # <<>> /\ ~loop[s] /\ ~Alive(s)
  /\ NextTask(s)
  /\ UNCHANGED <<peers, received, edge, polling, subscribers, weak, held, opened,
                 reading, receiving, loop, flushes, results>>

\* Receive::process: one more reception, or too many.
ReceiveStart(s) ==
  /\ tasks[s] # <<>> /\ ~loop[s] /\ Alive(s) /\ Head(tasks[s]) = "receive"
  /\ NextTask(s)
  /\ loop' = [loop EXCEPT ![s] = reading[s] # 0]
  /\ reading' = [reading EXCEPT ![s] = Down(@)]
  /\ UNCHANGED <<peers, received, edge, polling, subscribers, weak, held, opened,
                 receiving, flushes, results>>

\* What is available, and its Handle, which stops the reception when the
\* application has too much to receive.
ReceiveData(s) ==
  LET size == arrived[s] - received[s]
      stop == s \in held /\ receiving[s] + size >= Limit
  IN
  /\ loop[s] /\ size > 0 /\ link[s] \in {"up", "ended"}
  /\ received' = [received EXCEPT ![s] = arrived[s]]
  /\ receiving' = [receiving EXCEPT ![s] = IF s \in held THEN @ + size ELSE @]
  /\ reading' = [reading EXCEPT ![s] = IF stop THEN Up(@) ELSE @]
  /\ loop' = [loop EXCEPT ![s] = ~stop]
  /\ Queued(s, [socket |-> s, kind |-> "data", from |-> received[s], to |-> arrived[s],
                armed |-> stop])
  /\ UNCHANGED <<peers, edge, polling, subscribers, weak, held, opened, tasks, flushes>>

\* EWOULDBLOCK; or recv() gives 0 at the end, which blocks the receptions; or it
\* fails once, when the connection is reset.
ReceiveNothing(s) ==
  /\ loop[s]
  /\ arrived[s] = received[s] \/ link[s] = "reset"
  /\ loop' = [loop EXCEPT ![s] = FALSE]
  /\ \/ /\ link[s] = "up" /\ UNCHANGED <<reading, results>>
     \/ /\ link[s] \in {"ended", "reset"}
        /\ reading' = [reading EXCEPT ![s] = Blocked] /\ UNCHANGED results
     \/ /\ link[s] = "reset"
        /\ Queued(s, Result(s, "error")) /\ UNCHANGED reading
  /\ UNCHANGED <<peers, received, edge, polling, subscribers, weak, held, opened,
                 receiving, tasks, flushes>>

\* Close::process: "fail" has an error to give before, as a refused connection has.
Close(s) ==
  /\ tasks[s] # <<>> /\ ~loop[s] /\ Alive(s) /\ Head(tasks[s]) \in {"close", "fail"}
  /\ NextTask(s)
  /\ reading' = [reading EXCEPT ![s] = Blocked]
  /\ Queued(s, Result(s, IF opened[s] THEN Head(tasks[s]) ELSE "fail"))
  /\ UNCHANGED <<peers, received, edge, polling, subscribers, weak, held, opened,
                 receiving, loop, flushes>>

\* Send: nothing to flush, and the first onFlush.
Send(s) ==
  /\ flushes[s] > 0
  /\ flushes' = [flushes EXCEPT ![s] = @ - 1]
  /\ Queued(s, Result(s, "flush"))
  /\ UNCHANGED <<peers, received, edge, polling, subscribers, weak, held, opened,
                 reading, receiving, tasks, loop>>

-----------------------------------------------------------------------------

Peer(s) == Established(s) \/ Arrive(s) \/ \E how \in {"ended", "reset"} : End(s, how)

PollSocket(s) == PollDead(s) \/ PollClose(s) \/ PollWrite(s) \/ PollTest(s) \/ PollRead(s)

Poll ==
  \/ EpollWait \/ BatchEnd \/ PollerStop
  \/ \E s \in Sockets : PollSocket(s)

Receive(s) ==
  RunDead(s) \/ ReceiveStart(s) \/ ReceiveData(s) \/ ReceiveNothing(s) \/ Close(s)
=============================================================================
