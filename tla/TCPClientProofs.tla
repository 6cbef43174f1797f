--------------------------- MODULE TCPClientProofs ---------------------------
(***************************************************************************)
(* Theorems about TCPClient over IOSocket, for any number of sockets, any  *)
(* streams of any length and any limit of reception.                       *)
(*                                                                         *)
(* A byte which onData has not seen may be in a result of the handler, in  *)
(* the one which is dispatched, or stored by StreamData: the invariant     *)
(* follows the stream through all of them, counted by _receiving.          *)
(***************************************************************************)
EXTENDS TCPClient, SequenceTheorems, TLAPS

(* The invariant.                                                          *)

Kinds == {"data", "flush", "error", "fail", "close"}
Results == [socket : Sockets, kind : Kinds, from : Nat, to : Nat, armed : BOOLEAN]

\* What waits in the handler, and what runs.
Shapes ==
  /\ stream \in Streams
  /\ results \in Seq(Results)
  /\ call = Idle \/ (call.kind \in {"data", "fail"} /\ call.result \in Results)
  /\ arming # "no" => call.kind = "data"
  /\ consumed \in [Sockets -> Nat]

\* The application has one socket at most, which it has subscribed.
Holding ==
  /\ held = IF socket = None THEN {} ELSE {socket}
  /\ subscribers = IF socket = None THEN 0 ELSE 1
  /\ socket # None => link[socket] # "none"

\* What the polling thread has of a batch is gone when it leaves it.
Polling ==
  /\ WeakIsAlive
  /\ poller # "batch" => reader = None /\ \A s \in Sockets : batch[s] = {}

\* A socket which is not connected has given nothing.
Unconnected(s) ==
  /\ arrived[s] = 0 /\ received[s] = 0 /\ receiving[s] = 0 /\ consumed[s] = 0
  /\ flushes[s] = 0 /\ "out" \notin batch[s]
  /\ \A i \in DOMAIN results : results[i].socket = s => results[i].kind \notin {"data", "flush"}
  /\ call.kind = "data" => call.result.socket # s

Fresh == \A s \in Sockets : link[s] \in {"none", "new", "connecting"} => Unconnected(s)

\* The data of s in a queue follow each other, from a byte to another one: at[i] is
\* where the stream is before the result i.
IsData(result, s) == result.socket = s /\ result.kind = "data"
Chain(queue, s, from, to) ==
  \E at \in [1 .. Len(queue) + 1 -> 0 .. to] :
    /\ at[1] = from /\ at[Len(queue) + 1] = to
    /\ \A i \in 1 .. Len(queue) :
         IF IsData(queue[i], s)
         THEN queue[i].from = at[i] /\ queue[i].to = at[i + 1] /\ at[i] < at[i + 1]
         ELSE at[i + 1] = at[i]

\* onData has been shown its result, and has not returned.
InData(s) == call.kind = "data" /\ arming = "no" /\ call.result.socket = s

\* Where the data which onData has not seen begin.
Begin(s) == received[s] - receiving[s]

\* What is stored, what is shown and what waits in the handler are the stream from what
\* is consumed to what is received.
Streaming ==
  /\ socket = None => stored = <<>>
  /\ socket # None =>
       LET s == socket IN
       /\ receiving[s] \in 0 .. received[s] /\ consumed[s] \in 0 .. Begin(s)
       /\ InData(s) =>
            /\ stored = <<>> /\ call.buffer = Bytes(s, consumed[s], call.result.to)
            /\ call.result.from = Begin(s) /\ Begin(s) < call.result.to
            /\ Chain(results, s, call.result.to, received[s])
       /\ ~InData(s) =>
            /\ stored = Bytes(s, consumed[s], Begin(s))
            /\ Chain(results, s, Begin(s), received[s])

IInv ==
  TypeOK /\ Shapes /\ Holding /\ Polling /\ Fresh /\ OneDisconnection /\ Streaming

\* No socket is None.
LEMMA SocketsType == None \notin Sockets /\ Sockets \subseteq Nat
BY IOSocketAssumption DEF None, Sockets

\* The counter of the receptions has 8 bits.
LEMMA UpDown == \A n \in 0 .. 255 : Up(n) \in 0 .. 255 /\ Down(n) \in 0 .. 255
<1> SUFFICES ASSUME NEW n \in 0 .. 255 PROVE Up(n) \in 0 .. 255 /\ Down(n) \in 0 .. 255
  OBVIOUS
<1>1. n + 1 \in Int /\ n + 255 \in Int
  OBVIOUS
<1>2. \A m \in Int : m % 256 \in 0 .. 255
  OBVIOUS
<1> QED BY <1>1, <1>2 DEF Up, Down

-----------------------------------------------------------------------------
(* Pieces of a stream.                                                     *)

\* A piece of a stream is a sequence.
LEMMA BytesType ==
  ASSUME NEW s, NEW a \in Nat, NEW b \in Nat, a <= b
  PROVE  /\ Bytes(s, a, b) \in Seq({s} \X Nat) /\ Len(Bytes(s, a, b)) = b - a
         /\ DOMAIN Bytes(s, a, b) = 1 .. b - a
         /\ \A i \in 1 .. b - a : Bytes(s, a, b)[i] = <<s, a + i>>
<1> DEFINE n == b - a
           f == [i \in 1 .. n |-> <<s, a + i>>]
<1>1. n \in Nat /\ f = Bytes(s, a, b)
  BY DEF Bytes
<1> HIDE DEF n
<1>2. f \in [1 .. n -> {s} \X Nat]
  BY <1>1
<1>3. f \in Seq({s} \X Nat) /\ Len(f) = n
  <2> HIDE DEF f
  <2> QED BY <1>1, <1>2
<1> QED BY <1>1, <1>3 DEF n

\* Two pieces which follow each other make a piece.
LEMMA BytesConcat ==
  ASSUME NEW s, NEW a \in Nat, NEW b \in Nat, NEW c \in Nat, a <= b, b <= c
  PROVE  Bytes(s, a, b) \o Bytes(s, b, c) = Bytes(s, a, c)
<1> DEFINE x == Bytes(s, a, b)
           y == Bytes(s, b, c)
           z == Bytes(s, a, c)
           T == {s} \X Nat
<1>1. x \in Seq(T) /\ Len(x) = b - a /\ \A i \in 1 .. b - a : x[i] = <<s, a + i>>
  BY BytesType
<1>2. y \in Seq(T) /\ Len(y) = c - b /\ \A i \in 1 .. c - b : y[i] = <<s, b + i>>
  BY BytesType
<1>3. z \in Seq(T) /\ Len(z) = c - a /\ \A i \in 1 .. c - a : z[i] = <<s, a + i>>
  <2>1. a <= c
    OBVIOUS
  <2> QED BY <2>1, BytesType
<1> HIDE DEF x, y, z, T
<1>4. x \o y \in Seq(T) /\ Len(x \o y) = Len(x) + Len(y) /\ Len(x \o y) = Len(z)
  <2>1. x \in Seq(T) /\ y \in Seq(T)
    BY <1>1, <1>2
  <2>2. x \o y \in Seq(T) /\ Len(x \o y) = Len(x) + Len(y)
    BY <2>1, ConcatProperties
  <2>3. Len(x) + Len(y) = Len(z)
    BY <1>1, <1>2, <1>3
  <2> QED BY <2>2, <2>3
<1>5. \A i \in 1 .. Len(x) + Len(y) : (x \o y)[i] = IF i <= Len(x) THEN x[i] ELSE y[i - Len(x)]
  <2>1. x \in Seq(T) /\ y \in Seq(T)
    BY <1>1, <1>2
  <2> QED BY <2>1, ConcatProperties
<1>6. ASSUME NEW i \in 1 .. Len(z) PROVE (x \o y)[i] = z[i]
  <2>1. i \in 1 .. Len(x) + Len(y) /\ i \in 1 .. c - a /\ z[i] = <<s, a + i>>
    BY <1>3, <1>4
  <2>2. CASE i <= Len(x)
    BY <1>1, <1>5, <2>1, <2>2
  <2>3. CASE ~(i <= Len(x))
    <3>1. (x \o y)[i] = y[i - (b - a)]
      BY <1>1, <1>5, <2>1, <2>3
    <3>2. i - (b - a) \in 1 .. c - b /\ b + (i - (b - a)) = a + i
      BY <1>1, <2>1, <2>3
    <3> QED BY <1>2, <2>1, <3>1, <3>2
  <2> QED BY <2>2, <2>3
<1>7. x \o y = z
  BY <1>3, <1>4, <1>6, SeqEqual
<1> QED BY <1>7 DEF x, y, z

\* The end of a piece is a piece.
LEMMA BytesEnd ==
  ASSUME NEW s, NEW a \in Nat, NEW b \in Nat, a <= b, NEW n \in 0 .. b - a
  PROVE  SubSeq(Bytes(s, a, b), Len(Bytes(s, a, b)) - n + 1, Len(Bytes(s, a, b))) = Bytes(s, b - n, b)
<1> DEFINE x == Bytes(s, a, b)
           T == {s} \X Nat
           m == b - n
           z == Bytes(s, m, b)
           y == SubSeq(x, Len(x) - n + 1, Len(x))
<1>1. m \in Nat /\ m <= b
  OBVIOUS
<1>2. /\ x \in Seq(T) /\ Len(x) = b - a /\ \A i \in 1 .. b - a : x[i] = <<s, a + i>>
      /\ z \in Seq(T) /\ Len(z) = b - m /\ \A i \in 1 .. b - m : z[i] = <<s, m + i>>
  <2> HIDE DEF m
  <2> QED BY <1>1, BytesType
<1> HIDE DEF x, z, T
<1>3. y \in Seq(T) /\ Len(y) = n /\ \A i \in 1 .. n : y[i] = x[(b - a) - n + i]
  BY <1>2
<1>4. ASSUME NEW i \in 1 .. Len(y) PROVE y[i] = z[i]
  <2>1. i \in 1 .. n
    BY <1>3
  <2>2. (b - a) - n + i \in 1 .. b - a /\ a + ((b - a) - n + i) = m + i /\ i \in 1 .. b - m
    BY <2>1
  <2> HIDE DEF y, m
  <2> QED BY <1>2, <1>3, <2>1, <2>2
<1>5. Len(y) = Len(z)
  BY <1>2, <1>3
<1>6. y = z
  <2> HIDE DEF y
  <2> QED BY <1>2, <1>3, <1>4, <1>5, SeqEqual
<1> QED BY <1>6 DEF x, z

-----------------------------------------------------------------------------
(* Chains of results.                                                      *)

\* The bounds of a chain.
LEMMA ChainBounds ==
  ASSUME NEW queue \in Seq(Results), NEW s, NEW from, NEW to \in Nat, Chain(queue, s, from, to)
  PROVE  from \in 0 .. to
<1>1. 1 \in 1 .. Len(queue) + 1
  OBVIOUS
<1> QED BY <1>1 DEF Chain

\* A queue without data of s.
LEMMA ChainNone ==
  ASSUME NEW queue \in Seq(Results), NEW s,
         \A i \in DOMAIN queue : ~IsData(queue[i], s)
  PROVE  Chain(queue, s, 0, 0)
<1> DEFINE at == [i \in 1 .. Len(queue) + 1 |-> 0]
<1>1. /\ Len(queue) \in Nat /\ DOMAIN queue = 1 .. Len(queue)
      /\ \A i \in 1 .. Len(queue) : i \in 1 .. Len(queue) + 1 /\ i + 1 \in 1 .. Len(queue) + 1
      /\ 1 \in 1 .. Len(queue) + 1 /\ Len(queue) + 1 \in 1 .. Len(queue) + 1
  OBVIOUS
<1>2. at \in [1 .. Len(queue) + 1 -> 0 .. 0]
  OBVIOUS
<1>3. \A i \in 1 .. Len(queue) + 1 : at[i] = 0
  OBVIOUS
<1> HIDE DEF at
<1> QED BY <1>1, <1>2, <1>3 DEF Chain

\* A result comes at the end.
LEMMA ChainAppend ==
  ASSUME NEW queue \in Seq(Results), NEW r \in Results, NEW s, NEW from, NEW to \in Nat,
         Chain(queue, s, from, to), IsData(r, s) => r.from = to /\ to < r.to
  PROVE  Chain(Append(queue, r), s, from, IF IsData(r, s) THEN r.to ELSE to)
<1> DEFINE n == Len(queue)
           end == IF IsData(r, s) THEN r.to ELSE to
<1>1. n \in Nat /\ Append(queue, r) \in Seq(Results) /\ Len(Append(queue, r)) = n + 1
  OBVIOUS
<1>2. /\ \A i \in 1 .. n : Append(queue, r)[i] = queue[i]
      /\ Append(queue, r)[n + 1] = r
  OBVIOUS
<1>3. end \in Nat /\ to <= end
  BY DEF Results
<1>4. PICK at \in [1 .. n + 1 -> 0 .. to] :
         /\ at[1] = from /\ at[n + 1] = to
         /\ \A i \in 1 .. n :
              IF IsData(queue[i], s)
              THEN queue[i].from = at[i] /\ queue[i].to = at[i + 1] /\ at[i] < at[i + 1]
              ELSE at[i + 1] = at[i]
  BY DEF Chain
<1> DEFINE new == [i \in 1 .. n + 1 + 1 |-> IF i = n + 1 + 1 THEN end ELSE at[i]]
<1> HIDE DEF n, end
<1>5. \A i \in 1 .. n + 1 : new[i] = at[i] /\ at[i] \in 0 .. to
  BY <1>1
<1>6. new[n + 1 + 1] = end
  BY <1>1
<1>7. new \in [1 .. n + 1 + 1 -> 0 .. end]
  BY <1>1, <1>3, <1>4
<1> HIDE DEF new
<1>8. new[1] = from /\ new[n + 1] = to
  BY <1>1, <1>4, <1>5
<1>9. ASSUME NEW i \in 1 .. n + 1
      PROVE  IF IsData(Append(queue, r)[i], s)
             THEN /\ Append(queue, r)[i].from = new[i] /\ Append(queue, r)[i].to = new[i + 1]
                  /\ new[i] < new[i + 1]
             ELSE new[i + 1] = new[i]
  <2>1. CASE i = n + 1
    BY <1>2, <1>6, <1>8, <2>1 DEF end
  <2>2. CASE i # n + 1
    <3>1. i \in 1 .. n
      BY <1>1, <2>2
    <3>2. new[i] = at[i] /\ new[i + 1] = at[i + 1]
      BY <1>1, <1>5, <3>1
    <3> QED BY <1>2, <1>4, <3>1, <3>2
  <2> QED BY <2>1, <2>2
<1>10. Chain(Append(queue, r), s, from, end)
  <2> DEFINE q == Append(queue, r)
  <2>1. n \in Nat /\ Len(q) = n + 1
    BY <1>1
  <2>2. new \in [1 .. Len(q) + 1 -> 0 .. end] /\ new[1] = from /\ new[Len(q) + 1] = end
    BY ONLY <1>6, <1>7, <1>8, <2>1
  <2>3. \A i \in 1 .. Len(q) :
           IF IsData(q[i], s)
           THEN q[i].from = new[i] /\ q[i].to = new[i + 1] /\ new[i] < new[i + 1]
           ELSE new[i + 1] = new[i]
    BY ONLY <1>9, <2>1
  <2> HIDE DEF q
  <2>4. Chain(q, s, from, end)
    BY ONLY <2>2, <2>3 DEF Chain
  <2> QED BY <2>4 DEF q
<1> QED BY <1>10 DEF end

\* The first result leaves.
LEMMA ChainTail ==
  ASSUME NEW queue \in Seq(Results), queue # <<>>, NEW s, NEW from, NEW to \in Nat,
         Chain(queue, s, from, to)
  PROVE  /\ IsData(Head(queue), s) =>
              /\ Head(queue).from = from /\ from < Head(queue).to
              /\ Chain(Tail(queue), s, Head(queue).to, to)
         /\ ~IsData(Head(queue), s) => Chain(Tail(queue), s, from, to)
<1> DEFINE n == Len(queue)
           q == Tail(queue)
<1>1. /\ n \in Nat \ {0} /\ q \in Seq(Results) /\ Len(q) = n - 1 /\ Head(queue) = queue[1]
      /\ \A i \in 1 .. n - 1 : q[i] = queue[i + 1]
  OBVIOUS
<1>2. PICK at \in [1 .. n + 1 -> 0 .. to] :
         /\ at[1] = from /\ at[n + 1] = to
         /\ \A i \in 1 .. n :
              IF IsData(queue[i], s)
              THEN queue[i].from = at[i] /\ queue[i].to = at[i + 1] /\ at[i] < at[i + 1]
              ELSE at[i + 1] = at[i]
  BY DEF Chain
<1> DEFINE new == [i \in 1 .. n |-> at[i + 1]]
<1> HIDE DEF n, q
<1>3. \A i \in 1 .. n : new[i] = at[i + 1]
  OBVIOUS
<1>4. new \in [1 .. n -> 0 .. to]
  BY <1>1
<1> HIDE DEF new
<1>5. 1 \in 1 .. n /\ n \in 1 .. n /\ new[1] = at[2] /\ new[n] = to
  BY <1>1, <1>2, <1>3
<1>6. ASSUME NEW i \in 1 .. n - 1
      PROVE  IF IsData(q[i], s)
             THEN q[i].from = new[i] /\ q[i].to = new[i + 1] /\ new[i] < new[i + 1]
             ELSE new[i + 1] = new[i]
  <2>1. i \in 1 .. n /\ i + 1 \in 1 .. n
    BY ONLY <1>1
  <2>2. new[i] = at[i + 1] /\ new[i + 1] = at[i + 1 + 1]
    BY ONLY <1>3, <2>1
  <2>3. q[i] = queue[i + 1]
    BY ONLY <1>1
  <2> QED BY <1>2, <2>1, <2>2, <2>3
<1>7. Len(q) + 1 = n /\ Len(q) = n - 1
  BY <1>1
<1>8. Chain(q, s, at[2], to)
  <2>1. /\ new \in [1 .. Len(q) + 1 -> 0 .. to] /\ new[1] = at[2] /\ new[Len(q) + 1] = to
    BY <1>4, <1>5, <1>7
  <2>2. \A i \in 1 .. Len(q) :
          IF IsData(q[i], s)
          THEN q[i].from = new[i] /\ q[i].to = new[i + 1] /\ new[i] < new[i + 1]
          ELSE new[i + 1] = new[i]
    BY <1>6, <1>7
  <2> QED BY <2>1, <2>2 DEF Chain
<1>9. IF IsData(queue[1], s)
      THEN queue[1].from = at[1] /\ queue[1].to = at[2] /\ at[1] < at[2]
      ELSE at[2] = at[1]
  BY <1>2, <1>5
<1> QED BY <1>1, <1>2, <1>8, <1>9 DEF q

-----------------------------------------------------------------------------
(* The steps of the system, of the polling thread and of the pool.         *)

\* Fresh, when nothing of the unconnected sockets changes.
LEMMA FreshKept ==
  ASSUME IInv, UNCHANGED <<link, arrived, received, receiving, results, client>>,
         \A s \in Sockets :
           link[s] \in {"none", "new", "connecting"} /\ flushes[s] = 0 /\ "out" \notin batch[s] =>
             flushes'[s] = 0 /\ "out" \notin batch'[s]
  PROVE  Fresh'
BY DEF IInv, Fresh, Unconnected, client

\* What does not change the client nor what it receives.
LEMMA ClientKept ==
  ASSUME IInv, TypeOK', Polling', Fresh',
         UNCHANGED <<stream, link, received, receiving, results, held, subscribers, client>>
  PROVE  IInv'
<1>1. Shapes' /\ Holding'
  BY DEF IInv, Shapes, Holding, client
<1>2. OneDisconnection'
  BY DEF IInv, OneDisconnection, HasPeer, client
<1>3. Streaming'
  BY DEF IInv, Streaming, InData, Begin, client
<1> QED BY <1>1, <1>2, <1>3 DEF IInv

\* The polling thread takes a batch of events.
LEMMA EpollWaitStep ==
  ASSUME IInv, EpollWait, UNCHANGED client
  PROVE  IInv'
<1> DEFINE ready == { s \in Sockets : weak[s] = "set" /\ edge[s] }
<1>1. /\ poller = "wait" /\ poller' = "batch" /\ woken' = (piped # {})
      /\ batch' = [s \in Sockets |-> IF s \in ready THEN Events(s) ELSE {}]
      /\ edge' = [s \in Sockets |-> edge[s] /\ s \notin ready]
      /\ UNCHANGED <<stream, link, arrived, received, reader, subscribers, weak, piped, held,
                     opened, reading, receiving, tasks, loop, flushes, results>>
  BY DEF EpollWait, peers, pooled
<1>2. \A s \in Sockets : Events(s) \subseteq {"hup", "out", "in"} /\ ("out" \in Events(s) => link[s] = "up")
  BY DEF Events
<1>3. batch' \in [Sockets -> SUBSET {"hup", "out", "in"}]
  BY <1>1, <1>2
<1>4. edge' \in [Sockets -> BOOLEAN]
  <2> HIDE DEF ready
  <2> QED BY <1>1
<1>5. TypeOK'
  BY <1>1, <1>3, <1>4 DEF IInv, TypeOK, client
<1>6. Polling'
  BY <1>1 DEF IInv, Polling, WeakIsAlive
<1>7. Fresh'
  <2>1. \A s \in Sockets : "out" \in batch'[s] => link[s] = "up"
    BY <1>1, <1>2
  <2> QED BY <1>1, <2>1, FreshKept
<1> QED BY <1>1, <1>5, <1>6, <1>7, ClientKept

\* The events of a socket of the batch.
LEMMA PollSocketStep ==
  ASSUME IInv, NEW s \in Sockets, PollSocket(s), UNCHANGED client
  PROVE  IInv'
<1>1. /\ UNCHANGED <<stream, link, arrived, received, edge, poller, subscribers, weak, piped,
                     woken, held, receiving, loop, results>>
      /\ poller = "batch"
  <2>1. CASE PollRead(s)
    <3>1. reader \in Sockets /\ reader # None
      BY <2>1, SocketsType DEF PollRead
    <3> QED BY <2>1, <3>1 DEF PollRead, IInv, Polling, peers
  <2> QED BY <2>1 DEF PollSocket, PollDead, PollClose, PollWrite, PollTest, peers, pooled
<1> DEFINE K == {"receive", "close", "fail"}
<1>2. /\ batch' \in [Sockets -> SUBSET {"hup", "out", "in"}]
      /\ \A t \in Sockets : batch'[t] \subseteq batch[t]
  <2>1. batch' = batch \/ \E e : batch' = [batch EXCEPT ![s] = @ \ e]
    BY DEF PollSocket, PollDead, PollClose, PollWrite, PollTest, PollRead, Done
  <2>2. batch \in [Sockets -> SUBSET {"hup", "out", "in"}]
    BY DEF IInv, TypeOK
  <2> QED BY <2>1, <2>2
<1>3. reader' \in {None} \cup Sockets
  BY DEF PollSocket, PollDead, PollClose, PollWrite, PollTest, PollRead, IInv, TypeOK
<1>4. opened' \in [Sockets -> BOOLEAN]
  BY DEF PollSocket, PollDead, PollClose, PollWrite, PollTest, PollRead, IInv, TypeOK, pooled
<1>5. reading' \in [Sockets -> 0 .. 255]
  <2>1. reading' = reading \/ reading' = [reading EXCEPT ![s] = Up(reading[s])]
    BY DEF PollSocket, PollDead, PollClose, PollWrite, PollTest, PollRead
  <2>2. Up(reading[s]) \in 0 .. 255 /\ reading \in [Sockets -> 0 .. 255]
    BY UpDown DEF IInv, TypeOK
  <2> QED BY <2>1, <2>2
<1>6. tasks' \in [Sockets -> Seq(K)]
  <2>1. tasks' = tasks \/ \E k \in K : tasks' = [tasks EXCEPT ![s] = Append(tasks[s], k)]
    BY DEF PollSocket, PollDead, PollClose, PollWrite, PollTest, PollRead, pooled
  <2>2. tasks \in [Sockets -> Seq(K)] /\ tasks[s] \in Seq(K)
    BY DEF IInv, TypeOK
  <2> HIDE DEF K
  <2>3. \A k \in K : Append(tasks[s], k) \in Seq(K)
    BY <2>2
  <2> QED BY <2>1, <2>2, <2>3
<1>7. flushes' \in [Sockets -> Nat]
  <2>1. \E n \in {flushes[s], flushes[s] + 1} : flushes' = [flushes EXCEPT ![s] = n]
    <3>1. flushes = [flushes EXCEPT ![s] = flushes[s]]
      BY DEF IInv, TypeOK
    <3> QED BY <3>1 DEF PollSocket, PollDead, PollClose, PollWrite, PollTest, PollRead, pooled
  <2>2. flushes \in [Sockets -> Nat] /\ flushes[s] \in Nat
    BY DEF IInv, TypeOK
  <2> QED BY <2>1, <2>2
<1>8. TypeOK'
  BY <1>1, <1>2, <1>3, <1>4, <1>5, <1>6, <1>7 DEF IInv, TypeOK, client
<1>9. Polling'
  BY <1>1, <1>2 DEF IInv, Polling, WeakIsAlive
<1>10. Fresh'
  <2>1. \A t \in Sockets : "out" \notin batch[t] => flushes'[t] = flushes[t]
    BY DEF PollSocket, PollDead, PollClose, PollWrite, PollTest, PollRead, pooled, IInv, TypeOK
  <2> QED BY <1>1, <1>2, <2>1, FreshKept
<1> QED BY <1>1, <1>8, <1>9, <1>10, ClientKept

\* The polling thread deletes references, and ends or goes on.
LEMMA BatchEndStep ==
  ASSUME IInv, BatchEnd \/ PollerStop, UNCHANGED client
  PROVE  IInv'
<1>1. /\ UNCHANGED <<stream, link, arrived, received, edge, batch, reader, subscribers, held,
                     opened, reading, receiving, tasks, loop, flushes, results>>
  BY DEF BatchEnd, PollerStop, peers, pooled
<1>2. reader = None /\ \A s \in Sockets : batch[s] = {}
  BY DEF BatchEnd, PollerStop, IInv, Polling
<1>3. /\ weak' \in [Sockets -> {"none", "set", "piped", "deleted"}]
      /\ poller' \in {"off", "wait", "batch", "test", "stop"}
      /\ piped' \in SUBSET Sockets /\ woken' \in BOOLEAN
  <2>1. /\ weak \in [Sockets -> {"none", "set", "piped", "deleted"}]
        /\ piped \in SUBSET Sockets /\ woken \in BOOLEAN
    BY DEF IInv, TypeOK
  <2>2. CASE BatchEnd
    <3>1. /\ weak' = [s \in Sockets |-> IF woken /\ s \in piped THEN "deleted" ELSE weak[s]]
          /\ piped' \in {{}, piped} /\ woken' = FALSE /\ poller' \in {"stop", "wait"}
      BY <2>2 DEF BatchEnd
    <3> QED BY ONLY <2>1, <3>1
  <2>3. CASE PollerStop
    <3>1. /\ weak' = weak /\ piped' \in {{}, piped} /\ woken' = woken
          /\ poller' \in {"off", "wait"}
      BY <2>3 DEF PollerStop
    <3> QED BY ONLY <2>1, <3>1
  <2> QED BY <2>2, <2>3
<1>4. TypeOK'
  BY <1>1, <1>3 DEF IInv, TypeOK, client
<1>5. Polling'
  BY <1>1, <1>2 DEF Polling, WeakIsAlive
<1>6. Fresh'
  BY <1>1, FreshKept
<1> QED BY <1>1, <1>4, <1>5, <1>6, ClientKept

\* An action of the pool leaves its queue.
LEMMA TailTask ==
  ASSUME TypeOK, NEW s \in Sockets, tasks[s] # <<>>, NextTask(s)
  PROVE  tasks' \in [Sockets -> Seq({"receive", "close", "fail"})]
<1> DEFINE K == {"receive", "close", "fail"}
<1>1. tasks \in [Sockets -> Seq(K)] /\ tasks[s] \in Seq(K) /\ tasks[s] # <<>>
  BY DEF TypeOK
<1> HIDE DEF K
<1>2. Tail(tasks[s]) \in Seq(K)
  BY <1>1
<1>3. tasks' = [tasks EXCEPT ![s] = Tail(tasks[s])]
  BY DEF NextTask
<1>4. tasks' \in [Sockets -> Seq(K)]
  BY <1>1, <1>2, <1>3
<1> QED BY <1>4 DEF K

\* An action of the pool begins a reception, or finds its socket dead.
LEMMA ReceiveStartStep ==
  ASSUME IInv, NEW s \in Sockets, RunDead(s) \/ ReceiveStart(s), UNCHANGED client
  PROVE  IInv'
<1>1. UNCHANGED <<stream, link, arrived, received, edge, poller, batch, reader, piped, woken,
                  subscribers, weak, held, opened, receiving, flushes, results>>
  BY DEF RunDead, ReceiveStart, peers, polling
<1>2. reading' \in [Sockets -> 0 .. 255]
  <2>1. reading' = reading \/ reading' = [reading EXCEPT ![s] = Down(reading[s])]
    BY DEF RunDead, ReceiveStart
  <2>2. Down(reading[s]) \in 0 .. 255 /\ reading \in [Sockets -> 0 .. 255]
    BY UpDown DEF IInv, TypeOK
  <2> QED BY <2>1, <2>2
<1>3. tasks' \in [Sockets -> Seq({"receive", "close", "fail"})]
  BY TailTask DEF RunDead, ReceiveStart, IInv
<1>4. loop' \in [Sockets -> BOOLEAN]
  BY DEF RunDead, ReceiveStart, IInv, TypeOK
<1>5. TypeOK'
  BY <1>1, <1>2, <1>3, <1>4 DEF IInv, TypeOK, client
<1>6. Polling'
  BY <1>1 DEF IInv, Polling, WeakIsAlive
<1>7. Fresh'
  BY <1>1, FreshKept
<1> QED BY <1>1, <1>5, <1>6, <1>7, ClientKept

\* The peer connects, sends or ends.
LEMMA PeerStep ==
  ASSUME IInv, NEW s \in Sockets, Peer(s), UNCHANGED client
  PROVE  IInv'
<1>1. UNCHANGED <<stream, received, poller, batch, reader, piped, woken, subscribers, weak,
                  held, opened, reading, receiving, tasks, loop, flushes, results>>
  BY DEF Peer, Established, Arrive, End, polling, pooled
<1>2. /\ s \in held /\ link[s] \in {"connecting", "up"}
      /\ link' = link \/ \E l \in {"up", "ended", "reset"} : link' = [link EXCEPT ![s] = l]
      /\ link[s] = "connecting" => arrived' = arrived
      /\ arrived' = arrived \/ arrived' = [arrived EXCEPT ![s] = @ + 1]
      /\ edge' = [edge EXCEPT ![s] = TRUE]
  BY DEF Peer, Established, Arrive, End
<1>3. link' \in [Sockets -> {"none", "new", "connecting", "up", "ended", "reset"}]
  BY <1>2 DEF IInv, TypeOK
<1>4. edge' \in [Sockets -> BOOLEAN]
  BY <1>2 DEF IInv, TypeOK
<1>5. arrived' \in [Sockets -> Nat] /\ \A t \in Sockets : received'[t] <= arrived'[t]
  <2>1. /\ arrived \in [Sockets -> Nat] /\ received \in [Sockets -> Nat]
        /\ \A t \in Sockets : received[t] <= arrived[t]
    BY DEF IInv, TypeOK
  <2>2. CASE arrived' = arrived
    BY <1>1, <2>1, <2>2
  <2>3. CASE arrived' = [arrived EXCEPT ![s] = @ + 1]
    <3>1. arrived' \in [Sockets -> Nat] /\ \A t \in Sockets : arrived'[t] >= arrived[t]
      BY <2>1, <2>3
    <3> QED BY <1>1, <2>1, <3>1
  <2> QED BY <1>2, <2>2, <2>3
<1>6. TypeOK'
  BY <1>1, <1>3, <1>4, <1>5 DEF IInv, TypeOK, client
<1>7. Shapes' /\ Polling'
  BY <1>1 DEF IInv, Shapes, Polling, WeakIsAlive, client
<1>8. /\ \A t \in Sockets : link'[t] \in {"none", "new"} <=> link[t] \in {"none", "new"}
      /\ \A t \in Sockets :
           link'[t] \in {"none", "new", "connecting"} =>
             link[t] \in {"none", "new", "connecting"} /\ arrived'[t] = arrived[t]
      /\ \A t \in Sockets : link'[t] = "none" <=> link[t] = "none"
  BY <1>2 DEF IInv, TypeOK
<1>9. Holding'
  BY <1>1, <1>8 DEF IInv, Holding, TypeOK, client
<1>10. Fresh'
  BY <1>1, <1>8 DEF IInv, Fresh, Unconnected, client
<1>11. OneDisconnection'
  BY <1>1, <1>8 DEF IInv, OneDisconnection, HasPeer, TypeOK, client
<1>12. Streaming'
  BY <1>1 DEF IInv, Streaming, InData, Begin, client
<1> QED BY <1>6, <1>7, <1>9, <1>10, <1>11, <1>12 DEF IInv

\* A result comes in the handler, when the application still has its socket.
LEMMA QueuedType ==
  ASSUME IInv, NEW s \in Sockets, NEW r \in Results, Queued(s, r)
  PROVE  /\ results' \in Seq(Results)
         /\ results' = results \/ (s \in held /\ results' = Append(results, r))
         /\ \A i \in DOMAIN results' : results'[i] = r \/ \E j \in DOMAIN results : results'[i] = results[j]
<1>1. results \in Seq(Results)
  BY DEF IInv, Shapes
<1>2. results' = results \/ (s \in held /\ results' = Append(results, r))
  BY DEF Queued
<1>3. CASE results' = results
  BY <1>1, <1>2, <1>3
<1>4. CASE results' = Append(results, r)
  <2>1. DOMAIN results = 1 .. Len(results) /\ Len(results) \in Nat
    BY <1>1
  <2>2. /\ results' \in Seq(Results) /\ DOMAIN results' = 1 .. Len(results) + 1
        /\ \A i \in 1 .. Len(results) + 1 : results'[i] = IF i = Len(results) + 1 THEN r ELSE results[i]
    BY <1>1, <1>4
  <2>3. \A i \in 1 .. Len(results) + 1 : i # Len(results) + 1 => i \in 1 .. Len(results)
    BY <2>1
  <2> QED BY <1>2, <2>1, <2>2, <2>3
<1> QED BY <1>2, <1>3, <1>4

\* A result which is not data.
LEMMA OtherQueued ==
  ASSUME IInv, TypeOK', NEW s \in Sockets, NEW r \in Results, Queued(s, r),
         r.socket = s, r.kind # "data",
         r.kind = "flush" => link[s] \notin {"none", "new", "connecting"},
         UNCHANGED <<stream, link, arrived, received, receiving, held, subscribers, weak, poller,
                     batch, reader, client>>,
         \A t \in Sockets : flushes[t] = 0 => flushes'[t] = 0
  PROVE  IInv'
<1>1. /\ results' \in Seq(Results) /\ results \in Seq(Results)
      /\ results' = results \/ results' = Append(results, r)
      /\ \A i \in DOMAIN results' : results'[i] = r \/ \E j \in DOMAIN results : results'[i] = results[j]
  BY QueuedType DEF IInv, Shapes
<1>2. Shapes' /\ Holding' /\ Polling'
  BY <1>1 DEF IInv, Shapes, Holding, Polling, WeakIsAlive, client
<1>3. OneDisconnection'
  BY DEF IInv, OneDisconnection, HasPeer, client
<1>4. Fresh'
  <2> SUFFICES ASSUME NEW t \in Sockets, link[t] \in {"none", "new", "connecting"}
               PROVE  Unconnected(t)'
    BY DEF Fresh
  <2>1. Unconnected(t)
    BY DEF IInv, Fresh
  <2>2. ASSUME NEW i \in DOMAIN results', results'[i].socket = t
        PROVE  results'[i].kind \notin {"data", "flush"}
    <3>1. CASE results'[i] = r
      BY <2>2, <3>1
    <3>2. CASE \E j \in DOMAIN results : results'[i] = results[j]
      BY <2>1, <2>2, <3>2 DEF Unconnected
    <3> QED BY <1>1, <3>1, <3>2
  <2> QED BY <2>1, <2>2 DEF Unconnected, client
<1>5. Streaming'
  <2>1. ASSUME NEW t, NEW from, NEW to \in Nat, Chain(results, t, from, to)
        PROVE  Chain(results', t, from, to)
    <3>1. ~IsData(r, t)
      BY DEF IsData
    <3>2. Chain(Append(results, r), t, from, to)
      BY <1>1, <2>1, <3>1, ChainAppend
    <3> QED BY <1>1, <2>1, <3>2
  <2>2. socket # None => received[socket] \in Nat
    BY DEF IInv, TypeOK
  <2> QED BY <2>1, <2>2 DEF IInv, Streaming, InData, Begin, client
<1> QED BY <1>2, <1>3, <1>4, <1>5 DEF IInv

\* The other results.
LEMMA ResultType ==
  ASSUME NEW s \in Sockets, NEW kind \in Kinds
  PROVE  Result(s, kind) \in Results /\ Result(s, kind).socket = s /\ Result(s, kind).kind = kind
BY DEF Result, Results

\* A reception which gives nothing more.
LEMMA ReceiveNothingStep ==
  ASSUME IInv, NEW s \in Sockets, ReceiveNothing(s), UNCHANGED client
  PROVE  IInv'
<1>1. /\ UNCHANGED <<stream, link, arrived, received, edge, poller, batch, reader, piped, woken,
                     subscribers, weak, held, opened, receiving, tasks, flushes>>
      /\ results' = results \/ Queued(s, Result(s, "error"))
  BY DEF ReceiveNothing, peers, polling
<1>2. reading' \in [Sockets -> 0 .. 255]
  <2>1. reading' = reading \/ reading' = [reading EXCEPT ![s] = 255]
    BY DEF ReceiveNothing, Blocked
  <2>2. reading \in [Sockets -> 0 .. 255]
    BY DEF IInv, TypeOK
  <2> QED BY <2>1, <2>2
<1>3. loop' \in [Sockets -> BOOLEAN]
  BY DEF ReceiveNothing, IInv, TypeOK
<1>4. TypeOK'
  BY <1>1, <1>2, <1>3 DEF IInv, TypeOK, client
<1>5. CASE results' = results
  <2>1. Polling'
    BY <1>1 DEF IInv, Polling, WeakIsAlive
  <2>2. Fresh'
    BY <1>1, <1>5, FreshKept
  <2> QED BY <1>1, <1>4, <1>5, <2>1, <2>2, ClientKept
<1>6. CASE Queued(s, Result(s, "error"))
  <2>1. "error" \in Kinds
    BY DEF Kinds
  <2> QED BY <1>1, <1>4, <1>6, <2>1, ResultType, OtherQueued
<1> QED BY <1>1, <1>5, <1>6

\* The end of a connection.
LEMMA CloseStep ==
  ASSUME IInv, NEW s \in Sockets, Close(s), UNCHANGED client
  PROVE  IInv'
<1>1. UNCHANGED <<stream, link, arrived, received, edge, poller, batch, reader, piped, woken,
                  subscribers, weak, held, opened, receiving, loop, flushes>>
  BY DEF Close, peers, polling
<1>2. PICK kind \in {"close", "fail"} : Queued(s, Result(s, kind))
  BY DEF Close
<1>3. reading' \in [Sockets -> 0 .. 255]
  BY DEF Close, Blocked, IInv, TypeOK
<1>4. tasks' \in [Sockets -> Seq({"receive", "close", "fail"})]
  BY TailTask DEF Close, IInv
<1>5. TypeOK'
  BY <1>1, <1>3, <1>4 DEF IInv, TypeOK, client
<1>6. kind \in Kinds /\ kind # "data" /\ kind # "flush"
  BY DEF Kinds
<1> QED BY <1>1, <1>2, <1>5, <1>6, ResultType, OtherQueued

\* The first flush.
LEMMA SendStep ==
  ASSUME IInv, NEW s \in Sockets, Send(s), UNCHANGED client
  PROVE  IInv'
<1>1. UNCHANGED <<stream, link, arrived, received, edge, poller, batch, reader, piped, woken,
                  subscribers, weak, held, opened, reading, receiving, tasks, loop>>
  BY DEF Send, peers, polling
<1>2. flushes' = [flushes EXCEPT ![s] = flushes[s] - 1] /\ flushes[s] > 0 /\ flushes \in [Sockets -> Nat]
  BY DEF Send, IInv, TypeOK
<1>3. flushes' \in [Sockets -> Nat]
  BY <1>2
<1>4. TypeOK'
  BY <1>1, <1>3 DEF IInv, TypeOK, client
<1>5. link[s] \notin {"none", "new", "connecting"}
  BY <1>2 DEF IInv, Fresh, Unconnected
<1>6. \A t \in Sockets : flushes[t] = 0 => flushes'[t] = 0
  BY <1>2
<1>7. "flush" \in Kinds /\ Queued(s, Result(s, "flush"))
  BY DEF Kinds, Send
<1> QED BY <1>1, <1>4, <1>5, <1>6, <1>7, ResultType, OtherQueued

\* Data come in the handler.
LEMMA ReceiveDataStep ==
  ASSUME IInv, NEW s \in Sockets, ReceiveData(s), UNCHANGED client
  PROVE  IInv'
<1> DEFINE size == arrived[s] - received[s]
           stop == s \in held /\ receiving[s] + size >= Limit
           r == [socket |-> s, kind |-> "data", from |-> received[s], to |-> arrived[s], armed |-> stop]
<1>1. /\ UNCHANGED <<stream, link, arrived, edge, poller, batch, reader, piped, woken, subscribers,
                     weak, held, opened, tasks, flushes>>
      /\ link[s] \in {"up", "ended"}
      /\ received' = [received EXCEPT ![s] = arrived[s]]
      /\ receiving' = [receiving EXCEPT ![s] = IF s \in held THEN receiving[s] + size ELSE receiving[s]]
      /\ Queued(s, r)
  BY DEF ReceiveData, peers, polling
<1>2. /\ arrived[s] \in Nat /\ received[s] \in 0 .. arrived[s] /\ received[s] < arrived[s]
      /\ receiving[s] \in Nat /\ size \in Nat
  <2>1. arrived[s] \in Nat /\ received[s] \in Nat /\ received[s] <= arrived[s] /\ receiving[s] \in Nat
    BY DEF IInv, TypeOK
  <2>2. size > 0
    BY DEF ReceiveData
  <2> QED BY <2>1, <2>2
<1>3. r \in Results
  <2>1. stop \in BOOLEAN
    OBVIOUS
  <2> HIDE DEF stop
  <2> QED BY <1>2, <2>1 DEF Results, Kinds
<1>4. /\ results' \in Seq(Results) /\ results \in Seq(Results)
      /\ results' = IF s \in held THEN Append(results, r) ELSE results
      /\ \A i \in DOMAIN results' : results'[i] = r \/ \E j \in DOMAIN results : results'[i] = results[j]
  <2> HIDE DEF r
  <2> QED BY <1>1, <1>3, QueuedType DEF IInv, Shapes, Queued
<1> HIDE DEF size
<1>5. receiving' \in [Sockets -> Nat]
  BY <1>1, <1>2 DEF IInv, TypeOK
<1>6. /\ received' \in [Sockets -> Nat] /\ received'[s] = arrived[s]
      /\ \A t \in Sockets : received'[t] <= arrived'[t] /\ (t # s => received'[t] = received[t])
  <2>1. /\ arrived \in [Sockets -> Nat] /\ received \in [Sockets -> Nat]
        /\ \A t \in Sockets : received[t] <= arrived[t]
    BY DEF IInv, TypeOK
  <2> QED BY <1>1, <2>1
<1>7. reading' \in [Sockets -> 0 .. 255]
  <2>1. reading' = [reading EXCEPT ![s] = IF stop THEN Up(reading[s]) ELSE reading[s]]
    BY DEF ReceiveData, size
  <2>2. reading \in [Sockets -> 0 .. 255]
    BY DEF IInv, TypeOK
  <2> HIDE DEF stop
  <2> QED BY <2>1, <2>2, UpDown
<1>8. loop' \in [Sockets -> BOOLEAN]
  <2>1. loop' = [loop EXCEPT ![s] = ~stop]
    BY DEF ReceiveData, size
  <2> HIDE DEF stop
  <2> QED BY <2>1 DEF IInv, TypeOK
<1> HIDE DEF stop
<1>9. TypeOK'
  BY <1>1, <1>5, <1>6, <1>7, <1>8 DEF IInv, TypeOK, client
<1>10. Shapes' /\ Holding' /\ Polling'
  BY <1>1, <1>4 DEF IInv, Shapes, Holding, Polling, WeakIsAlive, client
<1>11. OneDisconnection'
  BY <1>1 DEF IInv, OneDisconnection, HasPeer, client
<1>12. Fresh'
  <2> SUFFICES ASSUME NEW t \in Sockets, link[t] \in {"none", "new", "connecting"}
               PROVE  Unconnected(t)'
    BY <1>1 DEF Fresh
  <2>1. Unconnected(t) /\ t # s
    BY <1>1 DEF IInv, Fresh
  <2>2. receiving'[t] = receiving[t] /\ received'[t] = received[t]
    BY <1>1, <1>6, <2>1 DEF IInv, TypeOK
  <2>3. ASSUME NEW i \in DOMAIN results', results'[i].socket = t
        PROVE  results'[i].kind \notin {"data", "flush"}
    <3>1. results'[i] # r
      BY <2>1, <2>3
    <3> QED BY <1>4, <2>1, <2>3, <3>1 DEF Unconnected
  <2> QED BY <1>1, <2>1, <2>2, <2>3 DEF Unconnected, client
<1>13. CASE s \in held
  <2>1. socket = s /\ s # None
    BY <1>13, SocketsType DEF IInv, Holding
  <2>2. receiving'[s] = receiving[s] + size /\ results' = Append(results, r)
    BY <1>1, <1>4, <1>13 DEF IInv, TypeOK
  <2>3. received'[s] = received[s] + size /\ received'[s] \in Nat /\ received[s] < received'[s]
    BY <1>2, <1>6 DEF size
  <2>4. receiving[s] \in 0 .. received[s] /\ consumed[s] \in 0 .. Begin(s)
    BY <2>1 DEF IInv, Streaming
  <2>5. Begin(s)' = Begin(s) /\ receiving'[s] \in 0 .. received'[s]
    BY <1>2, <2>2, <2>3, <2>4 DEF Begin
  <2>6. ASSUME NEW from, Chain(results, s, from, received[s])
        PROVE  Chain(results', s, from, received'[s])
    <3>1. IsData(r, s) /\ r.from = received[s] /\ r.to = received'[s] /\ received[s] \in Nat
      BY <1>2, <1>6 DEF IsData
    <3> HIDE DEF r
    <3>2. Chain(Append(results, r), s, from, received'[s])
      BY <1>3, <1>4, <2>3, <2>6, <3>1, ChainAppend
    <3> QED BY <2>2, <3>2
  <2> QED BY <1>4, <1>9, <1>10, <1>11, <1>12, <2>1, <2>4, <2>5, <2>6
         DEF IInv, Streaming, InData, client
<1>14. CASE s \notin held
  <2>1. socket # None => socket \in Sockets /\ socket # s
    BY <1>14 DEF IInv, Holding, TypeOK
  <2>2. results' = results
    BY <1>4, <1>14
  <2>3. socket # None => received'[socket] = received[socket] /\ receiving'[socket] = receiving[socket]
    BY <1>1, <1>6, <2>1 DEF IInv, TypeOK
  <2>4. Streaming'
    BY <2>2, <2>3 DEF IInv, Streaming, InData, Begin, client
  <2> QED BY <1>9, <1>10, <1>11, <1>12, <2>4 DEF IInv
<1> QED BY <1>13, <1>14

-----------------------------------------------------------------------------
(* The steps of the application.                                           *)

\* A piece without bytes.
LEMMA BytesNone ==
  ASSUME NEW s, NEW a \in Nat
  PROVE  Bytes(s, a, a) = <<>>
<1>1. a <= a /\ a - a = 0
  OBVIOUS
<1>2. Bytes(s, a, a) \in Seq({s} \X Nat) /\ Len(Bytes(s, a, a)) = a - a
  BY <1>1, BytesType
<1> QED BY <1>1, <1>2

\* The stream of a socket which is not connected is empty.
LEMMA NothingStored ==
  ASSUME IInv, socket # None => link[socket] \in {"none", "new", "connecting"}
  PROVE  stored = <<>>
<1>1. CASE socket = None
  BY <1>1 DEF IInv, Streaming
<1>2. CASE socket # None
  <2>1. socket \in Sockets
    BY <1>2 DEF IInv, TypeOK
  <2>2. Unconnected(socket)
    BY <1>2, <2>1 DEF IInv, Fresh
  <2>3. ~InData(socket) /\ received[socket] = 0 /\ receiving[socket] = 0 /\ consumed[socket] = 0
    BY <2>2 DEF Unconnected, InData
  <2>4. Begin(socket) = 0
    BY <2>3 DEF Begin
  <2>5. stored = Bytes(socket, 0, 0)
    BY <1>2, <2>3, <2>4 DEF IInv, Streaming
  <2> QED BY <2>5, BytesNone
<1> QED BY <1>1, <1>2

\* Results which stay of a queue.
Among(queue) == \A i \in DOMAIN queue : \E j \in DOMAIN results : queue[i] = results[j]

\* The first result is taken.
LEMMA TailAmong ==
  ASSUME IInv, results # <<>>
  PROVE  /\ Tail(results) \in Seq(Results) /\ Among(Tail(results))
         /\ Head(results) \in Results /\ \E j \in DOMAIN results : Head(results) = results[j]
<1>1. results \in Seq(Results) /\ results # <<>>
  BY DEF IInv, Shapes
<1>2. /\ DOMAIN results = 1 .. Len(results) /\ Len(results) \in Nat \ {0}
      /\ Tail(results) \in Seq(Results) /\ DOMAIN Tail(results) = 1 .. Len(results) - 1
      /\ \A i \in 1 .. Len(results) - 1 : Tail(results)[i] = results[i + 1]
      /\ Head(results) = results[1] /\ Head(results) \in Results
  BY <1>1
<1>3. /\ 1 \in 1 .. Len(results)
      /\ \A i \in 1 .. Len(results) - 1 : i + 1 \in 1 .. Len(results)
  BY <1>2
<1> QED BY <1>2, <1>3 DEF Among

\* disconnect().
LEMMA LeaveStep ==
  ASSUME IInv, Leave, socket # None, arming = "no",
         UNCHANGED <<stream, link, arrived, received, edge, poller, batch, reader, woken, opened,
                     reading, tasks, loop, flushes, arming>>,
         results' \in Seq(Results), Among(results'), call' \in {call, Idle}
  PROVE  IInv'
<1>1. /\ socket \in Sockets /\ socket' = None /\ connected' = FALSE
      /\ held' = held \ {socket}
      /\ receiving' = [receiving EXCEPT ![socket] = 0]
      /\ consumed' = [consumed EXCEPT ![socket] = 0]
      /\ ends' = IF HasPeer(socket) THEN [ends EXCEPT ![socket] = ends[socket] + 1] ELSE ends
      /\ stored' = IF HasPeer(socket) THEN <<>> ELSE stored
      /\ Unsubscribed(socket)
  BY DEF Leave, IInv, TypeOK
<1>2. /\ subscribers' = subscribers - 1 /\ subscribers = 1 /\ held = {socket}
      /\ weak' \in [Sockets -> {"none", "set", "piped", "deleted"}]
      /\ piped' \in SUBSET Sockets
      /\ \A s \in Sockets : weak'[s] = "deleted" => poller = "off" \/ weak[s] = "deleted"
  BY <1>1 DEF Unsubscribed, IInv, TypeOK, Holding
<1>3. receiving' \in [Sockets -> Nat] /\ consumed' \in [Sockets -> Nat] /\ ends' \in [Sockets -> Nat]
  BY <1>1 DEF IInv, TypeOK, Shapes
<1>4. TypeOK'
  <2>1. subscribers' = 0 /\ held' = {} /\ arming' = arming
    BY <1>1, <1>2
  <2>2. subscribers' \in Nat /\ held' \in SUBSET Sockets
    BY <2>1
  <2>3. socket' \in {None} \cup Sockets /\ connected' \in BOOLEAN
    BY <1>1
  <2> QED BY <1>2, <1>3, <2>1, <2>2, <2>3 DEF IInv, TypeOK
<1>5. Shapes'
  BY <1>3 DEF IInv, Shapes
<1>6. Holding'
  BY <1>1, <1>2 DEF Holding
<1>7. Polling'
  BY <1>2 DEF IInv, Polling, WeakIsAlive
<1>8. Fresh'
  <2> SUFFICES ASSUME NEW s \in Sockets, link[s] \in {"none", "new", "connecting"}
               PROVE  Unconnected(s)'
    BY DEF Fresh
  <2>1. Unconnected(s)
    BY DEF IInv, Fresh
  <2>2. receiving'[s] = 0 /\ consumed'[s] = 0
    BY <1>1, <2>1 DEF Unconnected, IInv, TypeOK, Shapes
  <2>3. call'.kind = "data" => call' = call
    BY DEF Idle
  <2>4. \A i \in DOMAIN results' : results'[i].socket = s => results'[i].kind \notin {"data", "flush"}
    BY <2>1 DEF Unconnected, Among
  <2> QED BY <2>1, <2>2, <2>3, <2>4 DEF Unconnected
<1>9. OneDisconnection'
  <2>1. \A s \in Sockets : ends[s] = IF HasPeer(s) /\ s \notin held THEN 1 ELSE 0
    BY DEF IInv, OneDisconnection
  <2>2. \A s \in Sockets : ends'[s] = IF HasPeer(s) /\ s \notin held' THEN 1 ELSE 0
    <3> SUFFICES ASSUME NEW s \in Sockets
                 PROVE  ends'[s] = IF HasPeer(s) /\ s \notin held' THEN 1 ELSE 0
      OBVIOUS
    <3>1. CASE s = socket
      <4>1. ends[s] = 0 /\ s \notin held'
        BY <1>1, <1>2, <2>1, <3>1
      <4>2. ends' = IF HasPeer(socket) THEN [ends EXCEPT ![socket] = 1] ELSE ends
        BY <1>1, <3>1, <4>1
      <4> QED BY <3>1, <4>1, <4>2 DEF IInv, TypeOK
    <3>2. CASE s # socket
      <4>1. ends'[s] = ends[s] /\ (s \in held' <=> s \in held)
        BY <1>1, <3>2 DEF IInv, TypeOK
      <4> QED BY <2>1, <4>1
    <3> QED BY <3>1, <3>2
  <2> QED BY <1>1, <2>2 DEF OneDisconnection, HasPeer
<1>10. Streaming'
  <2>1. ~HasPeer(socket) => stored = <<>>
    BY NothingStored DEF HasPeer
  <2> QED BY <1>1, <2>1 DEF Streaming
<1> QED BY <1>4, <1>5, <1>6, <1>7, <1>8, <1>9, <1>10 DEF IInv

\* disconnect() by the application, or by what is in the handler.
LEMMA DisconnectStep ==
  ASSUME IInv, \/ arming = "no" /\ Disconnect
               \/ DispatchClose
               \/ ReturnFail /\ socket = call.result.socket
  PROVE  IInv'
<1>1. CASE arming = "no" /\ Disconnect
  <2>1. results' = results /\ call' = call /\ results \in Seq(Results) /\ Among(results)
    BY <1>1 DEF Disconnect, IInv, Shapes, Among
  <2> QED BY <1>1, <2>1, LeaveStep DEF Disconnect, peers, pooled, Among
<1>2. CASE DispatchClose
  <2>1. /\ results' = Tail(results) /\ results # <<>> /\ call = Idle /\ call' = call /\ Leave
        /\ Head(results).socket = socket
        /\ UNCHANGED <<stream, link, arrived, received, edge, poller, batch, reader, woken, opened,
                       reading, tasks, loop, flushes, arming>>
    BY <1>2 DEF DispatchClose, peers, pooled
  <2>2. results' \in Seq(Results) /\ Among(results') /\ Head(results) \in Results
    BY <2>1, TailAmong DEF Among
  <2>3. socket # None
    BY <2>1, <2>2, SocketsType DEF Results
  <2>4. arming = "no"
    BY <2>1 DEF IInv, Shapes, Idle
  <2> QED BY <2>1, <2>2, <2>3, <2>4, LeaveStep
<1>3. CASE ReturnFail /\ socket = call.result.socket
  <2>1. /\ results' = results /\ call.kind = "fail" /\ call' = Idle /\ Leave
        /\ UNCHANGED <<stream, link, arrived, received, edge, poller, batch, reader, woken, opened,
                       reading, tasks, loop, flushes, arming>>
    BY <1>3 DEF ReturnFail, peers, pooled
  <2>2. results' \in Seq(Results) /\ Among(results')
    BY <2>1 DEF IInv, Shapes, Among
  <2>3. socket # None
    BY <1>3, <2>1, SocketsType DEF IInv, Shapes, Results, Idle
  <2>4. arming = "no"
    BY <2>1 DEF IInv, Shapes
  <2> QED BY <2>1, <2>2, <2>3, <2>4, LeaveStep
<1> QED BY <1>1, <1>2, <1>3

\* onError returns in vain.
LEMMA ReturnFailStep ==
  ASSUME IInv, ReturnFail, socket # call.result.socket
  PROVE  IInv'
<1>1. /\ call.kind = "fail" /\ call' = Idle
      /\ UNCHANGED <<ioVars, connected, socket, stored, arming, consumed, ends>>
  BY DEF ReturnFail, peers, pooled, ioVars
<1>2. arming = "no"
  BY <1>1 DEF IInv, Shapes
<1>3. TypeOK'
  BY <1>1 DEF IInv, TypeOK, ioVars
<1>4. Shapes' /\ Holding' /\ Polling'
  BY <1>1, <1>2 DEF IInv, Shapes, Holding, Polling, WeakIsAlive, ioVars
<1>5. Fresh'
  BY <1>1 DEF IInv, Fresh, Unconnected, ioVars, Idle
<1>6. OneDisconnection'
  BY <1>1 DEF IInv, OneDisconnection, HasPeer, ioVars
<1>7. Streaming'
  BY <1>1 DEF IInv, Streaming, InData, Begin, ioVars, Idle
<1> QED BY <1>3, <1>4, <1>5, <1>6, <1>7 DEF IInv

\* connect(address).
LEMMA ConnectStep ==
  ASSUME IInv, Connect
  PROVE  IInv'
<1>1. /\ socket \in Sockets /\ socket # None /\ link[socket] = "new"
      /\ link' = [link EXCEPT ![socket] = "connecting"]
      /\ UNCHANGED <<stream, arrived, received, edge, poller, batch, reader, subscribers, weak,
                     piped, woken, held, opened, reading, receiving, tasks, loop, flushes, results,
                     client>>
  BY DEF Connect, polling, pooled, IInv, TypeOK
<1>2. link' \in [Sockets -> {"none", "new", "connecting", "up", "ended", "reset"}]
  BY <1>1 DEF IInv, TypeOK
<1>3. /\ link'[socket] = "connecting"
      /\ \A s \in Sockets : s # socket => link'[s] = link[s]
  BY <1>1 DEF IInv, TypeOK
<1>4. TypeOK'
  BY <1>1, <1>2 DEF IInv, TypeOK, client
<1>5. Shapes' /\ Polling'
  BY <1>1 DEF IInv, Shapes, Polling, WeakIsAlive, client
<1>6. Holding'
  BY <1>1, <1>3 DEF IInv, Holding, client
<1>7. Fresh'
  <2>1. \A s \in Sockets : link'[s] \in {"none", "new", "connecting"} => Unconnected(s)
    BY <1>1, <1>3 DEF IInv, Fresh
  <2> QED BY <1>1, <2>1 DEF Fresh, Unconnected, client
<1>8. OneDisconnection'
  <2>1. ~connected /\ socket \in held /\ held' = held /\ ends' = ends /\ connected' = connected
    BY <1>1 DEF IInv, OneDisconnection, Holding, client
  <2> QED BY <1>3, <2>1 DEF IInv, OneDisconnection, HasPeer
<1>9. Streaming'
  BY <1>1 DEF IInv, Streaming, InData, Begin, client
<1> QED BY <1>4, <1>5, <1>6, <1>7, <1>8, <1>9 DEF IInv

\* A socket which begins has nothing before it.
LEMMA NewStreaming ==
  ASSUME IInv, NEW s \in Sockets, link[s] = "none",
         socket # None => link[socket] = "new",
         socket' = s, UNCHANGED <<received, receiving, results, stored, call, arming, consumed>>
  PROVE  Streaming'
<1>1. Unconnected(s) /\ s # None /\ results \in Seq(Results) /\ stored = <<>>
  BY NothingStored, SocketsType DEF IInv, Fresh, Shapes
<1>2. /\ received[s] = 0 /\ receiving[s] = 0 /\ consumed[s] = 0 /\ Begin(s) = 0
      /\ ~InData(s) /\ \A i \in DOMAIN results : ~IsData(results[i], s)
  BY <1>1 DEF Unconnected, Begin, InData, IsData
<1>3. Chain(results, s, 0, 0) /\ Bytes(s, 0, 0) = <<>>
  BY <1>1, <1>2, ChainNone, BytesNone
<1>4. Begin(s)' = Begin(s) /\ InData(s)' = InData(s)
  BY DEF Begin, InData
<1> QED BY <1>1, <1>2, <1>3, <1>4 DEF Streaming

\* A socket, subscribed before it is connected.
LEMMA NewSocketStep ==
  ASSUME IInv, NEW s \in Sockets, NewSocket(s)
  PROVE  IInv'
<1>1. /\ socket = None /\ link[s] = "none" /\ socket' = s /\ held' = held \cup {s}
      /\ link' = [link EXCEPT ![s] = "new"]
      /\ Subscribed(s)
      /\ UNCHANGED <<stream, arrived, received, edge, batch, reader, piped, woken, opened, reading,
                     receiving, tasks, loop, flushes, results, connected, stored, call, arming,
                     consumed, ends>>
  BY DEF NewSocket, Unused, pooled
<1>2. /\ link' \in [Sockets -> {"none", "new", "connecting", "up", "ended", "reset"}]
      /\ link'[s] = "new" /\ \A t \in Sockets : t # s => link'[t] = link[t]
  BY <1>1 DEF IInv, TypeOK
<1>3. /\ held = {} /\ held' = {s} /\ subscribers' = 1
      /\ weak' \in [Sockets -> {"none", "set", "piped", "deleted"}]
      /\ weak' = [weak EXCEPT ![s] = "set"]
      /\ poller' = IF poller = "off" THEN "wait" ELSE poller
  BY <1>1 DEF IInv, TypeOK, Holding, Subscribed
<1>4. TypeOK'
  BY <1>1, <1>2, <1>3 DEF IInv, TypeOK
<1>5. Shapes'
  BY <1>1 DEF IInv, Shapes
<1>6. Holding'
  BY <1>1, <1>2, <1>3, SocketsType DEF Holding
<1>7. Polling'
  BY <1>1, <1>3 DEF IInv, Polling, WeakIsAlive, TypeOK
<1>8. Fresh'
  <2>1. \A t \in Sockets : link'[t] \in {"none", "new", "connecting"} => Unconnected(t)
    BY <1>1, <1>2 DEF IInv, Fresh
  <2> QED BY <1>1, <2>1 DEF Fresh, Unconnected
<1>9. OneDisconnection'
  BY <1>1, <1>2, <1>3 DEF IInv, OneDisconnection, HasPeer
<1>10. Streaming'
  BY <1>1, NewStreaming
<1> QED BY <1>4, <1>5, <1>6, <1>7, <1>8, <1>9, <1>10 DEF IInv

\* A socket which a server has accepted.
LEMMA AdoptStep ==
  ASSUME IInv, NEW s \in Sockets, Adopt(s)
  PROVE  IInv'
<1>1. /\ link[s] = "none" /\ (socket # None => link[socket] = "new") /\ socket' = s
      /\ held' = (held \ {socket}) \cup {s}
      /\ link' = [link EXCEPT ![s] = "up"] /\ edge' = [edge EXCEPT ![s] = TRUE]
      /\ poller' = IF poller = "off" THEN "wait" ELSE poller
      /\ UNCHANGED <<stream, arrived, received, batch, reader, woken, opened, reading,
                     receiving, tasks, loop, flushes, results, connected, stored, call, arming,
                     consumed, ends>>
  BY DEF Adopt, Unused, pooled
<1>2. /\ link' \in [Sockets -> {"none", "new", "connecting", "up", "ended", "reset"}]
      /\ link'[s] = "up" /\ \A t \in Sockets : t # s => link'[t] = link[t]
      /\ edge' \in [Sockets -> BOOLEAN]
  BY <1>1 DEF IInv, TypeOK
<1>3. held' = {s} /\ subscribers' = 1
  BY <1>1 DEF IInv, Holding, Adopt
<1>4. /\ weak' \in [Sockets -> {"none", "set", "piped", "deleted"}]
      /\ piped' \in SUBSET Sockets
      /\ \A t \in Sockets : weak'[t] = "deleted" => weak[t] = "deleted"
  <2>1. weak \in [Sockets -> {"none", "set", "piped", "deleted"}] /\ piped \in SUBSET Sockets
    BY DEF IInv, TypeOK
  <2>2. CASE socket = None
    <3>1. weak' = [weak EXCEPT ![s] = "set"] /\ piped' = piped
      BY <2>2 DEF Adopt
    <3> QED BY <2>1, <3>1
  <2>3. CASE socket # None
    <3>1. /\ weak' = [weak EXCEPT ![s] = "set", ![socket] = "piped"] /\ piped' = piped \cup {socket}
          /\ socket \in Sockets
      BY <2>3 DEF Adopt, IInv, TypeOK
    <3> QED BY <2>1, <3>1
  <2> QED BY <2>2, <2>3
<1>5. TypeOK'
  BY <1>1, <1>2, <1>3, <1>4 DEF IInv, TypeOK
<1>6. Shapes'
  BY <1>1 DEF IInv, Shapes
<1>7. Holding'
  BY <1>1, <1>2, <1>3, SocketsType DEF Holding
<1>8. Polling'
  BY <1>1, <1>4 DEF IInv, Polling, WeakIsAlive
<1>9. Fresh'
  <2>1. \A t \in Sockets : link'[t] \in {"none", "new", "connecting"} => Unconnected(t)
    BY <1>1, <1>2 DEF IInv, Fresh
  <2> QED BY <1>1, <2>1 DEF Fresh, Unconnected
<1>10. OneDisconnection'
  <2>1. ~connected
    BY <1>1 DEF IInv, OneDisconnection
  <2>2. \A t \in Sockets : t # s => (HasPeer(t) /\ t \notin held <=> (HasPeer(t) /\ t \notin held)')
    <3>1. \A t \in Sockets : t \in held => t = socket /\ ~HasPeer(t)
      BY <1>1, SocketsType DEF IInv, Holding, HasPeer
    <3> QED BY <1>2, <1>3, <3>1 DEF HasPeer
  <2>3. ~HasPeer(s) /\ s \in held'
    BY <1>1, <1>3 DEF HasPeer
  <2> QED BY <1>1, <2>1, <2>2, <2>3 DEF IInv, OneDisconnection
<1>11. Streaming'
  BY <1>1, NewStreaming
<1> QED BY <1>5, <1>6, <1>7, <1>8, <1>9, <1>10, <1>11 DEF IInv

-----------------------------------------------------------------------------
(* The steps of the handler.                                               *)

\* A result is dispatched; onData begins when it has data.
LEMMA DispatchStep ==
  ASSUME IInv, Dispatch
  PROVE  IInv'
<1> DEFINE r == Head(results)
           s == r.socket
           data == s = socket /\ r.kind = "data"
<1>1. /\ call = Idle /\ results # <<>> /\ results' = Tail(results)
      /\ connected' = (connected \/ (s = socket /\ r.kind \in {"data", "flush"}))
      /\ call' = IF s # socket \/ r.kind \notin {"data", "fail"} THEN Idle
                 ELSE [result |-> r, kind |-> r.kind, buffer |-> stored \o Bytes(s, r.from, r.to)]
      /\ stored' = IF data THEN <<>> ELSE stored
      /\ UNCHANGED <<stream, link, arrived, received, edge, poller, batch, reader, piped, woken,
                     subscribers, weak, held, opened, reading, receiving, tasks, loop, flushes,
                     socket, arming, consumed, ends>>
  BY DEF Dispatch, peers, polling, pooled
<1>2. call.kind = "none" /\ arming = "no"
  BY <1>1 DEF IInv, Shapes, Idle
<1>3. /\ results' \in Seq(Results) /\ Among(results') /\ r \in Results
      /\ \E j \in DOMAIN results : r = results[j]
  BY <1>1, TailAmong DEF Among
<1>4. s \in Sockets /\ r.kind \in Kinds /\ r.from \in Nat /\ r.to \in Nat
  <2> HIDE DEF r
  <2> QED BY <1>3 DEF Results
<1> HIDE DEF r
<1>5. r.kind \in {"data", "flush"} => link[s] \notin {"none", "new", "connecting"}
  BY <1>3, <1>4 DEF IInv, Fresh, Unconnected
<1>6. /\ call' = Idle \/ (call'.kind = r.kind /\ r.kind \in {"data", "fail"} /\ call'.result = r)
      /\ call'.kind = "data" <=> data
      /\ data => call'.result = r /\ call'.buffer = stored \o Bytes(s, r.from, r.to)
  BY <1>1 DEF Idle
<1>7. TypeOK'
  <2>1. connected' \in BOOLEAN
    BY <1>1 DEF IInv, TypeOK
  <2> QED BY <1>1, <2>1 DEF IInv, TypeOK
<1>8. Shapes'
  BY <1>1, <1>2, <1>3, <1>6 DEF IInv, Shapes
<1>9. Holding' /\ Polling'
  BY <1>1 DEF IInv, Holding, Polling, WeakIsAlive
<1>10. Fresh'
  <2> SUFFICES ASSUME NEW t \in Sockets, link[t] \in {"none", "new", "connecting"}
               PROVE  Unconnected(t)'
    BY <1>1 DEF Fresh
  <2>1. Unconnected(t)
    BY DEF IInv, Fresh
  <2>2. call'.kind = "data" => call'.result.socket # t
    BY <1>5, <1>6
  <2>3. \A i \in DOMAIN results' : results'[i].socket = t => results'[i].kind \notin {"data", "flush"}
    BY <1>3, <2>1 DEF Unconnected, Among
  <2> QED BY <1>1, <2>1, <2>2, <2>3 DEF Unconnected
<1>11. OneDisconnection'
  <2>1. s = socket => socket # None
    BY <1>4, SocketsType
  <2> QED BY <1>1, <1>5, <2>1 DEF IInv, OneDisconnection, HasPeer
<1>12. Streaming'
  <2>1. CASE socket = None
    <3>1. ~data
      BY <1>4, <2>1, SocketsType
    <3> QED BY <1>1, <2>1, <3>1 DEF IInv, Streaming
  <2>2. CASE socket # None
    <3>1. /\ socket \in Sockets /\ received[socket] \in Nat /\ results \in Seq(Results)
          /\ Begin(socket)' = Begin(socket)
      BY <1>1, <2>2 DEF IInv, TypeOK, Shapes, Begin
    <3>2. /\ receiving[socket] \in 0 .. received[socket] /\ consumed[socket] \in 0 .. Begin(socket)
          /\ stored = Bytes(socket, consumed[socket], Begin(socket))
          /\ Chain(results, socket, Begin(socket), received[socket])
      BY <1>2, <2>2 DEF IInv, Streaming, InData
    <3>3. CASE data
      <4>1. IsData(r, socket)
        BY <3>3 DEF IsData
      <4>2. /\ r.from = Begin(socket) /\ Begin(socket) < r.to
            /\ Chain(results', socket, r.to, received[socket])
        BY <1>1, <3>1, <3>2, <4>1, ChainTail DEF r
      <4>3. /\ consumed[socket] \in Nat /\ Begin(socket) \in Nat /\ consumed[socket] <= Begin(socket)
            /\ Begin(socket) <= r.to
        <5>1. Begin(socket) \in Int
          BY <3>1, <3>2 DEF Begin
        <5> QED BY <1>4, <3>2, <4>2, <5>1
      <4>4. stored \o Bytes(socket, r.from, r.to) = Bytes(socket, consumed[socket], r.to)
        <5> DEFINE c == consumed[socket]
                   b == Begin(socket)
        <5>1. stored = Bytes(socket, c, b) /\ r.from = b
          BY <3>2, <4>2
        <5>2. c \in Nat /\ b \in Nat /\ c <= b /\ b <= r.to /\ r.to \in Nat
          BY <1>4, <4>3
        <5> HIDE DEF c, b
        <5>3. Bytes(socket, c, b) \o Bytes(socket, b, r.to) = Bytes(socket, c, r.to)
          BY <5>2, BytesConcat
        <5> QED BY <5>1, <5>3 DEF c
      <4>5. /\ InData(socket)' /\ call'.result.to = r.to /\ call'.result.from = r.from
            /\ call'.buffer = Bytes(socket, consumed[socket], r.to)
        BY <1>1, <1>2, <1>6, <3>3, <4>4 DEF InData
      <4> QED BY <1>1, <2>2, <3>1, <3>2, <3>3, <4>2, <4>5 DEF Streaming
    <3>4. CASE ~data
      <4>1. ~IsData(r, socket)
        BY <3>4 DEF IsData
      <4>2. Chain(results', socket, Begin(socket), received[socket])
        BY <1>1, <3>1, <3>2, <4>1, ChainTail DEF r
      <4>3. ~InData(socket)'
        BY <1>6, <3>4 DEF InData
      <4> QED BY <1>1, <2>2, <3>1, <3>2, <3>4, <4>2, <4>3 DEF Streaming
    <3> QED BY <3>3, <3>4
  <2> QED BY <2>1, <2>2
<1> QED BY <1>7, <1>8, <1>9, <1>10, <1>11, <1>12 DEF IInv

\* The end of onData: what it leaves is stored, or shuts down the reception.
LEMMA ReturnDataStep ==
  ASSUME IInv, NEW rest, rest \in 0 .. Len(call.buffer), ReturnData(rest)
  PROVE  IInv'
<1> DEFINE r == call.result
           s == r.socket
           buffer == call.buffer
           kept == IF rest > Limit THEN 0 ELSE rest
<1>1. /\ call.kind = "data" /\ arming = "no"
      /\ socket # s => rest = 0
      /\ stored' = IF kept = 0 THEN stored
                   ELSE SubSeq(buffer, Len(buffer) - kept + 1, Len(buffer))
      /\ \/ link[s] = "up" /\ link' = [link EXCEPT ![s] = "ended"] /\ edge' = [edge EXCEPT ![s] = TRUE]
         \/ link' = link /\ edge' = edge
      /\ consumed' = IF socket = s THEN [consumed EXCEPT ![s] = r.to - kept] ELSE consumed
      /\ receiving' = IF socket = s THEN [receiving EXCEPT ![s] = receiving[s] - (r.to - r.from)]
                      ELSE receiving
      /\ arming' \in {"no", "queue", "drop"}
      /\ call' = IF arming' = "no" THEN Idle ELSE call
      /\ UNCHANGED <<stream, arrived, received, poller, batch, reader, piped, woken, subscribers, weak,
                     held, opened, reading, tasks, loop, flushes, results, socket, connected, ends>>
  BY DEF ReturnData, polling, pooled
<1>2. r \in Results /\ s \in Sockets /\ r.from \in Nat /\ r.to \in Nat /\ r.armed \in BOOLEAN /\ s # None
  BY <1>1, SocketsType DEF IInv, Shapes, Idle, Results
<1> HIDE DEF r
<1>3. kept = 0 \/ kept = rest
  OBVIOUS
<1> HIDE DEF kept
<1>4. /\ link' \in [Sockets -> {"none", "new", "connecting", "up", "ended", "reset"}]
      /\ edge' \in [Sockets -> BOOLEAN]
  BY <1>1, <1>2 DEF IInv, TypeOK
<1>5. \A t \in Sockets : link'[t] = link[t] \/ (link[t] = "up" /\ link'[t] = "ended")
  BY <1>1, <1>2 DEF IInv, TypeOK
<1>6. (call' = call \/ call' = Idle) /\ ~InData(socket)'
  BY <1>1 DEF InData, Idle
\* The stream of the socket, when the application still has it.
<1>7. ASSUME socket = s
      PROVE  /\ kept \in 0 .. r.to /\ r.to \in 0 .. received[s]
             /\ receiving' = [receiving EXCEPT ![s] = received[s] - r.to]
             /\ stored' = Bytes(s, r.to - kept, r.to)
             /\ Chain(results, s, r.to, received[s])
  <2>1. InData(s) /\ socket # None
    BY <1>1, <1>2, <1>7 DEF InData, r
  <2>2. /\ receiving[s] \in 0 .. received[s] /\ consumed[s] \in 0 .. Begin(s)
        /\ stored = <<>> /\ buffer = Bytes(s, consumed[s], r.to)
        /\ r.from = Begin(s) /\ Begin(s) < r.to
        /\ Chain(results, s, r.to, received[s])
    BY <1>7, <2>1 DEF IInv, Streaming, r
  <2>3. received[s] \in Nat /\ receiving[s] \in Nat /\ results \in Seq(Results)
    BY <1>2 DEF IInv, TypeOK, Shapes
  <2>4. r.to \in 0 .. received[s]
    BY <2>2, <2>3, ChainBounds
  <2>5. consumed[s] \in Nat /\ consumed[s] <= r.to
    BY <1>2, <2>2, <2>3 DEF Begin
  <2>6. Len(buffer) = r.to - consumed[s]
    <3> DEFINE c == consumed[s]
    <3>1. c \in Nat /\ c <= r.to /\ r.to \in Nat /\ buffer = Bytes(s, c, r.to)
      BY <1>2, <2>2, <2>5
    <3> HIDE DEF c, s, buffer
    <3>2. Len(Bytes(s, c, r.to)) = r.to - c
      BY <3>1, BytesType
    <3> QED BY <3>1, <3>2 DEF c
  <2>7. kept \in 0 .. r.to - consumed[s]
    BY <1>2, <1>3, <2>5, <2>6
  <2>8. kept \in 0 .. r.to
    BY <1>2, <2>5, <2>7
  <2>9. receiving[s] - (r.to - r.from) = received[s] - r.to
    BY <1>2, <2>2, <2>3 DEF Begin
  <2>10. stored' = Bytes(s, r.to - kept, r.to)
    <3>1. CASE kept = 0
      <4>1. r.to - kept = r.to
        BY <1>2, <3>1
      <4> QED BY <1>1, <1>2, <2>2, <3>1, <4>1, BytesNone
    <3>2. CASE kept # 0
      <4> DEFINE c == consumed[s]
                 b == r.to
      <4>1. stored' = SubSeq(buffer, Len(buffer) - kept + 1, Len(buffer))
        BY <1>1, <3>2
      <4>2. c \in Nat /\ b \in Nat /\ c <= b /\ kept \in 0 .. b - c /\ buffer = Bytes(s, c, b)
        BY <1>2, <2>2, <2>5, <2>7
      <4> HIDE DEF b, c
      <4>3. SubSeq(Bytes(s, c, b), Len(Bytes(s, c, b)) - kept + 1, Len(Bytes(s, c, b))) = Bytes(s, b - kept, b)
        BY ONLY <4>2, BytesEnd
      <4>4. stored' = Bytes(s, b - kept, b)
        BY ONLY <4>1, <4>2, <4>3
      <4> QED BY <4>4 DEF b
    <3> QED BY <3>1, <3>2
  <2> QED BY <1>1, <1>7, <2>2, <2>4, <2>8, <2>9, <2>10
<1>8. /\ receiving' \in [Sockets -> Nat] /\ consumed' \in [Sockets -> Nat]
      /\ \A t \in Sockets : t # s => receiving'[t] = receiving[t] /\ consumed'[t] = consumed[t]
  <2>1. receiving \in [Sockets -> Nat] /\ consumed \in [Sockets -> Nat] /\ received[s] \in Nat
    BY <1>2 DEF IInv, TypeOK, Shapes
  <2>2. CASE socket = s
    <3>1. received[s] - r.to \in Nat /\ r.to - kept \in Nat
      BY <1>2, <1>7, <2>1, <2>2
    <3> QED BY <1>1, <1>2, <1>7, <2>1, <2>2, <3>1
  <2>3. CASE socket # s
    BY <1>1, <2>1, <2>3
  <2> QED BY <2>2, <2>3
<1>9. TypeOK'
  <2>1. arming' \in {"no", "queue", "drop"}
    BY <1>1, <1>2
  <2> QED BY <1>1, <1>4, <1>8, <2>1 DEF IInv, TypeOK
<1>10. Shapes'
  <2>1. call' = Idle \/ (call'.kind \in {"data", "fail"} /\ call'.result \in Results)
    BY <1>6 DEF IInv, Shapes
  <2>2. arming' # "no" => call'.kind = "data"
    BY <1>1
  <2> QED BY <1>1, <1>8, <2>1, <2>2 DEF IInv, Shapes
<1>11. Holding'
  BY <1>1, <1>5 DEF IInv, Holding, TypeOK
<1>12. Polling'
  BY <1>1 DEF IInv, Polling, WeakIsAlive
<1>13. Fresh'
  <2> SUFFICES ASSUME NEW t \in Sockets, link'[t] \in {"none", "new", "connecting"}
               PROVE  Unconnected(t)'
    BY DEF Fresh
  <2>1. link[t] \in {"none", "new", "connecting"}
    BY <1>5
  <2>2. Unconnected(t)
    BY <2>1 DEF IInv, Fresh
  <2>3. t # s
    BY <1>1, <2>2 DEF Unconnected, r
  <2>4. receiving'[t] = receiving[t] /\ consumed'[t] = consumed[t]
    BY <1>8, <2>3
  <2>5. call'.kind = "data" => call'.result.socket # t
    BY <1>6, <2>2 DEF Unconnected, Idle
  <2> QED BY <1>1, <2>2, <2>4, <2>5 DEF Unconnected
<1>14. OneDisconnection'
  <2>1. \A t \in Sockets : HasPeer(t)' <=> HasPeer(t)
    BY <1>5 DEF HasPeer
  <2>2. connected => socket # None /\ socket \in Sockets /\ link[socket] \notin {"new", "connecting"}
    BY DEF IInv, OneDisconnection, TypeOK
  <2>3. connected => link'[socket] \notin {"new", "connecting"}
    BY <1>5, <2>2
  <2> QED BY <1>1, <2>1, <2>2, <2>3 DEF IInv, OneDisconnection
<1>15. Streaming'
  <2>1. CASE socket = s
    <3>1. received[s] \in Nat /\ kept \in 0 .. r.to /\ r.to \in 0 .. received[s]
      BY <1>2, <1>7, <2>1 DEF IInv, TypeOK
    <3>2. consumed'[s] = r.to - kept /\ receiving'[s] = received[s] - r.to
      BY <1>1, <1>2, <1>7, <2>1 DEF IInv, TypeOK, Shapes
    <3>3. Begin(socket)' = r.to /\ received'[s] = received[s]
      BY <1>1, <2>1, <3>1, <3>2 DEF Begin
    <3>4. receiving'[s] \in 0 .. received'[s] /\ consumed'[s] \in 0 .. Begin(socket)'
      BY <3>1, <3>2, <3>3
    <3>5. /\ stored' = Bytes(s, consumed'[s], Begin(socket)')
          /\ Chain(results', s, Begin(socket)', received'[s])
      BY <1>1, <1>7, <2>1, <3>2, <3>3
    <3> QED BY <1>1, <1>2, <1>6, <2>1, <3>4, <3>5 DEF Streaming
  <2>2. CASE socket # s
    <3>1. rest = 0 /\ kept = 0
      BY <1>1, <1>3, <2>2
    <3>2. stored' = stored /\ consumed' = consumed /\ receiving' = receiving
      BY <1>1, <2>2, <3>1
    <3>3. ~InData(socket)
      BY <2>2 DEF InData, r
    <3> QED BY <1>1, <1>6, <3>2, <3>3 DEF IInv, Streaming, Begin
  <2> QED BY <2>1, <2>2
<1> QED BY <1>9, <1>10, <1>11, <1>12, <1>13, <1>14, <1>15 DEF IInv

\* The Handle which has stopped the reception starts it again.
LEMMA RearmStep ==
  ASSUME IInv, Rearm
  PROVE  IInv'
<1>1. /\ arming # "no" /\ arming' = "no" /\ call' = Idle
      /\ UNCHANGED <<stream, link, arrived, received, edge, poller, batch, reader, piped, woken,
                     subscribers, weak, held, opened, receiving, loop, flushes, results, socket,
                     connected, stored, consumed, ends>>
  BY DEF Rearm, peers, polling
<1>2. call.kind = "data" /\ call.result.socket \in Sockets
  BY <1>1 DEF IInv, Shapes, Idle, Results
<1>3. tasks' \in [Sockets -> Seq({"receive", "close", "fail"})]
  <2> DEFINE s == call.result.socket
  <2>1. tasks' = tasks \/ tasks' = [tasks EXCEPT ![s] = Append(tasks[s], "receive")]
    BY DEF Rearm
  <2>2. tasks \in [Sockets -> Seq({"receive", "close", "fail"})]
    BY DEF IInv, TypeOK
  <2>3. Append(tasks[s], "receive") \in Seq({"receive", "close", "fail"})
    <3>1. tasks[s] \in Seq({"receive", "close", "fail"})
      BY <1>2, <2>2
    <3> HIDE DEF s
    <3> QED BY <3>1
  <2> HIDE DEF s
  <2> QED BY <2>1, <2>2, <2>3
<1>4. reading' \in [Sockets -> 0 .. 255]
  <2> DEFINE s == call.result.socket
  <2>1. reading' = reading \/ reading' = [reading EXCEPT ![s] = Down(reading[s])]
    BY DEF Rearm
  <2>2. reading \in [Sockets -> 0 .. 255]
    BY DEF IInv, TypeOK
  <2>3. Down(reading[s]) \in 0 .. 255
    BY <1>2, <2>2, UpDown
  <2> HIDE DEF s
  <2> QED BY <2>1, <2>2, <2>3
<1>5. TypeOK'
  BY <1>1, <1>3, <1>4 DEF IInv, TypeOK
<1>6. Shapes' /\ Holding' /\ Polling'
  BY <1>1 DEF IInv, Shapes, Holding, Polling, WeakIsAlive
<1>7. Fresh'
  BY <1>1 DEF IInv, Fresh, Unconnected, Idle
<1>8. OneDisconnection'
  BY <1>1 DEF IInv, OneDisconnection, HasPeer
<1>9. Streaming'
  BY <1>1 DEF IInv, Streaming, InData, Begin, Idle
<1> QED BY <1>5, <1>6, <1>7, <1>8, <1>9 DEF IInv

-----------------------------------------------------------------------------

\* Nothing has begun.
LEMMA InitStep == Init => IInv
<1> SUFFICES ASSUME Init PROVE IInv
  OBVIOUS
<1> USE DEF Init, IOInit
<1>1. TypeOK
  <2>1. <<>> \in Seq({"receive", "close", "fail"})
    OBVIOUS
  <2>2. tasks \in [Sockets -> Seq({"receive", "close", "fail"})]
    BY <2>1
  <2>3. /\ link \in [Sockets -> {"none", "new", "connecting", "up", "ended", "reset"}]
        /\ batch \in [Sockets -> SUBSET {"hup", "out", "in"}]
        /\ weak \in [Sockets -> {"none", "set", "piped", "deleted"}]
    OBVIOUS
  <2>4. /\ poller \in {"off", "wait", "batch", "test", "stop"} /\ reader \in {None} \cup Sockets
        /\ subscribers \in Nat /\ piped \in SUBSET Sockets /\ held \in SUBSET Sockets
        /\ woken \in BOOLEAN /\ connected \in BOOLEAN /\ arming \in {"no", "queue", "drop"}
        /\ socket \in {None} \cup Sockets
    OBVIOUS
  <2>5. /\ edge \in [Sockets -> BOOLEAN] /\ opened \in [Sockets -> BOOLEAN]
        /\ loop \in [Sockets -> BOOLEAN] /\ reading \in [Sockets -> 0 .. 255]
    OBVIOUS
  <2>6. /\ arrived \in [Sockets -> Nat] /\ received \in [Sockets -> Nat]
        /\ receiving \in [Sockets -> Nat] /\ flushes \in [Sockets -> Nat]
        /\ ends \in [Sockets -> Nat]
    OBVIOUS
  <2>7. \A s \in Sockets : received[s] <= arrived[s]
    OBVIOUS
  <2> QED BY ONLY <2>2, <2>3, <2>4, <2>5, <2>6, <2>7 DEF TypeOK
<1>2. Shapes
  BY DEF Shapes
<1>3. Holding /\ Polling
  BY DEF Holding, Polling, WeakIsAlive
<1>4. Fresh
  BY DEF Fresh, Unconnected, Idle
<1>5. OneDisconnection
  BY DEF OneDisconnection, HasPeer
<1>6. Streaming
  BY DEF Streaming
<1> QED BY <1>1, <1>2, <1>3, <1>4, <1>5, <1>6 DEF IInv

\* A step of the peers, of the polling thread or of the pool.
LEMMA IOStep ==
  ASSUME IInv, IO, UNCHANGED client
  PROVE  IInv'
<1>1. CASE Poll
  BY <1>1, EpollWaitStep, PollSocketStep, BatchEndStep DEF Poll
<1>2. ASSUME NEW s \in Sockets, Peer(s) \/ Receive(s) \/ Send(s)
      PROVE  IInv'
  BY <1>2, PeerStep, ReceiveStartStep, ReceiveDataStep, ReceiveNothingStep, CloseStep, SendStep
     DEF Receive
<1> QED BY <1>1, <1>2 DEF IO

\* A step of the handler.
LEMMA HandlerStep ==
  ASSUME IInv, Handler
  PROVE  IInv'
<1>1. ASSUME NEW rest \in 0 .. (IF call.kind = "data" THEN Len(call.buffer) ELSE 0), ReturnData(rest)
      PROVE  IInv'
  <2>1. call.kind = "data"
    BY <1>1 DEF ReturnData
  <2> QED BY <1>1, <2>1, ReturnDataStep
<1>2. CASE ReturnFail
  BY <1>2, DisconnectStep, ReturnFailStep
<1> QED BY <1>1, <1>2, DispatchStep, DisconnectStep, RearmStep DEF Handler

\* IInv holds after every step, whatever the pace of the threads, how the connections end
\* and what the application calls in its callbacks.
THEOREM Inductive == IInv /\ [Next]_vars => IInv'
<1> SUFFICES ASSUME IInv, [Next]_vars PROVE IInv'
  OBVIOUS
<1>1. CASE Application
  BY <1>1, ConnectStep, DisconnectStep, NewSocketStep, AdoptStep DEF Application
<1>2. CASE Handler
  BY <1>2, HandlerStep
<1>3. CASE IO /\ UNCHANGED client
  BY <1>3, IOStep
<1>4. CASE UNCHANGED vars
  <2>1. UNCHANGED ioVars /\ UNCHANGED client
    BY <1>4 DEF vars
  <2>2. TypeOK' /\ Polling' /\ Fresh'
    BY <2>1 DEF IInv, TypeOK, Polling, WeakIsAlive, Fresh, Unconnected, ioVars, client
  <2> QED BY <2>1, <2>2, ClientKept DEF ioVars
<1> QED BY <1>1, <1>2, <1>3, <1>4 DEF Next

\* IInv holds in every state.
THEOREM Invariance == Spec => []IInv
BY InitStep, Inductive, PTL DEF Spec

\* Every variable keeps its type: _receiving, an unsigned counter, never goes under zero,
\* when a callback disconnects the socket of its data too.
THEOREM TypeCorrect == Spec => []TypeOK
<1>1. IInv => TypeOK
  BY DEF IInv
<1> QED BY Invariance, <1>1, PTL

\* A weak reference is not deleted while the polling thread has to look at it.
THEOREM WeakAlive == Spec => []WeakIsAlive
<1>1. IInv => WeakIsAlive
  BY DEF IInv, Polling
<1> QED BY Invariance, <1>1, PTL

\* onData is shown all that it has not consumed, in its order.
THEOREM StreamWhole == Spec => []StreamIsWhole
<1>1. IInv => StreamIsWhole
  <2> SUFFICES ASSUME IInv, call.kind = "data", arming = "no", call.result.socket = socket
               PROVE  call.buffer = Bytes(socket, consumed[socket], call.result.to)
    BY DEF StreamIsWhole
  <2>1. socket # None
    BY SocketsType DEF IInv, Shapes, Idle, Results
  <2> QED BY <2>1 DEF IInv, Streaming, InData
<1> QED BY Invariance, <1>1, PTL

\* A client which leaves a connection has one onDisconnection of it, and connected() is
\* true of a connection only.
THEOREM OneEnd == Spec => []OneDisconnection
<1>1. IInv => OneDisconnection
  BY DEF IInv
<1> QED BY Invariance, <1>1, PTL
=============================================================================
