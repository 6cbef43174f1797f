----------------------------- MODULE TCPClient ------------------------------
(***************************************************************************)
(* Mona::TCPClient (Net/TCPClient.cpp) and its StreamData over IOSocket:   *)
(* the thread of the application runs what is in the handler, and may call *)
(* connect(), disconnect() and socket() at any time, in a callback too.    *)
(*                                                                         *)
(* `call` is the callback in progress.  Calls on a socket already released *)
(* have no effect (its events are null) and are left out.                  *)
(***************************************************************************)
EXTENDS IOSocket, SequencesExt

VARIABLES
  socket,     \* _pSocket
  connected,  \* _connected
  stored,     \* StreamData::_pBuffer, as a sequence of <<socket, byte>>
  call,       \* the result in progress, with what onData is shown
  arming,     \* its Handle has counted _receiving down, and is to "queue" a reception or "drop" it
  consumed,   \* history: the bytes of each socket which onData has no more to see
  ends        \* history: how many onDisconnection each socket has had

client == <<socket, connected, stored, call, arming, consumed, ends>>
vars == <<ioVars, client>>

Idle == [kind |-> "none"]

Init ==
  /\ IOInit
  /\ socket = None /\ connected = FALSE /\ stored = <<>>
  /\ call = Idle /\ arming = "no"
  /\ consumed = [s \in Sockets |-> 0] /\ ends = [s \in Sockets |-> 0]

Bytes(s, from, to) == [i \in 1 .. to - from |-> <<s, from + i>>]
HasPeer(s) == link[s] \notin {"none", "new"}

-----------------------------------------------------------------------------
(* What the application calls.                                             *)

\* Sockets are numbered in the order of their use.
Unused(s) == s \in DOMAIN stream.sizes /\ link[s] = "none" /\ \A t \in 1 .. s - 1 : link[t] # "none"

\* socket(): a new socket, subscribed before it is connected.
NewSocket(s) ==
  /\ socket = None /\ Unused(s)
  /\ socket' = s /\ held' = held \cup {s}
  /\ link' = [link EXCEPT ![s] = "new"]
  /\ Subscribed(s)
  /\ UNCHANGED <<stream, arrived, received, edge, batch, reader, piped, woken, opened, reading,
                 receiving, pooled, results, connected, stored, call, arming, consumed,
                 ends>>

\* connect(address) of this socket; a second call to the same address changes nothing.
Connect ==
  /\ socket # None /\ link[socket] = "new"
  /\ link' = [link EXCEPT ![socket] = "connecting"]
  /\ UNCHANGED <<stream, arrived, received, edge, polling, subscribers, weak, held, opened,
                 reading, receiving, pooled, results, client>>

\* Mutant of Leave: what is stored of the stream is kept.
LeaveKeeping ==
  /\ connected' = FALSE
  /\ Unsubscribed(socket)
  /\ held' = held \ {socket}
  /\ socket' = None
  /\ receiving' = [receiving EXCEPT ![socket] = 0]
  /\ consumed' = [consumed EXCEPT ![socket] = 0]
  /\ IF HasPeer(socket)
     THEN ends' = [ends EXCEPT ![socket] = @ + 1] /\ UNCHANGED stored
     ELSE UNCHANGED <<stored, ends>>

\* Mutant of Leave: only what is connected is disconnected.
LeaveConnected ==
  /\ connected' = FALSE
  /\ Unsubscribed(socket)
  /\ held' = held \ {socket}
  /\ socket' = None
  /\ receiving' = [receiving EXCEPT ![socket] = 0]
  /\ consumed' = [consumed EXCEPT ![socket] = 0]
  /\ IF connected
     THEN stored' = <<>> /\ ends' = [ends EXCEPT ![socket] = @ + 1]
     ELSE UNCHANGED <<stored, ends>>

\* disconnect() and its onDisconnection; the state of a socket is gone with it.
Leave ==
  /\ connected' = FALSE
  /\ Unsubscribed(socket)
  /\ held' = held \ {socket}
  /\ socket' = None
  /\ receiving' = [receiving EXCEPT ![socket] = 0]
  /\ consumed' = [consumed EXCEPT ![socket] = 0]
  /\ IF HasPeer(socket)
     THEN stored' = <<>> /\ ends' = [ends EXCEPT ![socket] = @ + 1]
     ELSE UNCHANGED <<stored, ends>>

\* disconnect() by the application, or a connect() which fails.
Disconnect ==
  /\ socket # None
  /\ Leave
  /\ UNCHANGED <<peers, received, edge, poller, batch, reader, woken, opened, reading,
                 pooled, results, call, arming>>

\* connect(pSocket), of a socket which has been accepted: the former one has no peer.
Adopt(s) ==
  /\ Unused(s) /\ (socket # None => link[socket] = "new")
  /\ link' = [link EXCEPT ![s] = "up"] /\ edge' = [edge EXCEPT ![s] = TRUE]
  /\ socket' = s
  /\ held' = (held \ {socket}) \cup {s}
  /\ poller' = IF poller = "off" THEN "wait" ELSE poller
  /\ IF socket = None
     THEN /\ subscribers' = subscribers + 1
          /\ weak' = [weak EXCEPT ![s] = "set"]
          /\ UNCHANGED piped
     ELSE /\ UNCHANGED subscribers
          /\ weak' = [weak EXCEPT ![s] = "set", ![socket] = "piped"]
          /\ piped' = piped \cup {socket}
  /\ UNCHANGED <<stream, arrived, received, batch, reader, woken, opened, reading, receiving,
                 pooled, results, connected, stored, call, arming, consumed, ends>>

-----------------------------------------------------------------------------
(* The handler.                                                            *)

\* Handle::run: onFlush and onError, which change nothing by themselves, are over at
\* once, so that what the application calls there comes right after; onError is not,
\* when onDisconnection follows it; onReceived takes what is stored.
Dispatch ==
  LET result == Head(results)
      s == result.socket
  IN
  /\ call = Idle /\ results # <<>> /\ (s = socket => result.kind # "close")
  /\ results' = Tail(results)
  /\ connected' = (connected \/ (s = socket /\ result.kind \in {"data", "flush"}))
  /\ call' = IF s # socket \/ result.kind \notin {"data", "fail"} THEN Idle
             ELSE [result |-> result, kind |-> result.kind,
                   buffer |-> stored \o Bytes(s, result.from, result.to)]
  /\ stored' = IF s = socket /\ result.kind = "data" THEN <<>> ELSE stored
  /\ UNCHANGED <<peers, received, edge, polling, subscribers, weak, held, opened,
                 reading, receiving, pooled, socket, arming, consumed, ends>>

\* _onDisconnection, which is disconnect().
DispatchClose ==
  /\ call = Idle /\ results # <<>>
  /\ Head(results).socket = socket /\ Head(results).kind = "close"
  /\ results' = Tail(results)
  /\ Leave
  /\ UNCHANGED <<peers, received, edge, poller, batch, reader, woken, opened, reading,
                 pooled, call, arming>>

\* onError has returned: _onDisconnection, unless onError has disconnected.
ReturnFail ==
  /\ call.kind = "fail"
  /\ call' = Idle
  /\ IF socket = call.result.socket THEN Leave
     ELSE UNCHANGED <<connected, subscribers, weak, piped, held, socket, receiving,
                      consumed, stored, ends>>
  /\ UNCHANGED <<peers, received, edge, poller, batch, reader, woken, opened, reading,
                 pooled, results, arming>>

\* onData has returned a rest: addStreamData stores it, or shuts down the reception
\* when it is too much. One which has disconnected returns no rest, for "returning 0 can
\* delete this" (Net/StreamData.h:30).
ReturnData(rest) ==
  LET s == call.result.socket
      buffer == call.buffer
      left == socket # s
      kept == IF rest > Limit THEN 0 ELSE rest
  IN
  /\ call.kind = "data" /\ arming = "no"
  /\ left => rest = 0
  /\ stored' = IF kept = 0 THEN stored ELSE SubSeq(buffer, Len(buffer) - kept + 1, Len(buffer))
  /\ IF rest > Limit /\ link[s] = "up"
     THEN link' = [link EXCEPT ![s] = "ended"] /\ edge' = [edge EXCEPT ![s] = TRUE]
     ELSE UNCHANGED <<link, edge>>
  /\ IF left THEN UNCHANGED <<consumed, receiving>>
     ELSE /\ consumed' = [consumed EXCEPT ![s] = call.result.to - kept]
          /\ receiving' = [receiving EXCEPT ![s] = @ - (call.result.to - call.result.from)]
  /\ arming' = IF left \/ ~call.result.armed THEN "no"
               ELSE IF receiving'[s] < Limit THEN "queue" ELSE "drop"
  /\ call' = IF arming' = "no" THEN Idle ELSE call
  /\ UNCHANGED <<stream, arrived, received, polling, subscribers, weak, held, opened, reading,
                 pooled, results, socket, connected, ends>>

\* Mutant of Rearm: the polling thread is left to start the reception again.
RearmNever ==
  LET s == call.result.socket IN
  /\ arming # "no"
  /\ arming' = "no" /\ call' = Idle
  /\ reading' = [reading EXCEPT ![s] = Down(@)]
  /\ UNCHANGED tasks
  /\ UNCHANGED <<peers, received, edge, polling, subscribers, weak, held, opened,
                 receiving, loop, flushes, results, socket, connected, stored, consumed,
                 ends>>

\* The end of the Handle which has stopped the reception, as it has read _receiving.
Rearm ==
  LET s == call.result.socket IN
  /\ arming # "no"
  /\ arming' = "no" /\ call' = Idle
  /\ IF arming = "queue"
     THEN tasks' = [tasks EXCEPT ![s] = Append(@, "receive")] /\ UNCHANGED reading
     ELSE reading' = [reading EXCEPT ![s] = Down(@)] /\ UNCHANGED tasks
  /\ UNCHANGED <<peers, received, edge, polling, subscribers, weak, held, opened,
                 receiving, loop, flushes, results, socket, connected, stored, consumed,
                 ends>>

-----------------------------------------------------------------------------

Application == arming = "no" /\ (Connect \/ Disconnect \/ \E s \in Sockets : NewSocket(s) \/ Adopt(s))

Handler ==
  \/ Dispatch \/ DispatchClose \/ ReturnFail \/ Rearm
  \/ \E rest \in 0 .. (IF call.kind = "data" THEN Len(call.buffer) ELSE 0) : ReturnData(rest)

IO ==
  \/ Poll
  \/ \E s \in Sockets : Peer(s) \/ Receive(s) \/ Send(s)

Next == Application \/ Handler \/ (IO /\ UNCHANGED client)

Spec == Init /\ [][Next]_vars

\* Threads go on, and so does the application; peers and calls do as they like.
FairSpec ==
  /\ Spec
  /\ WF_vars(Handler)
  /\ WF_vars(Poll /\ UNCHANGED client)
  /\ \A s \in Sockets : WF_vars((Receive(s) \/ Send(s)) /\ UNCHANGED client)

-----------------------------------------------------------------------------
(* Correctness *)

TypeOK ==
  /\ link \in [Sockets -> {"none", "new", "connecting", "up", "ended", "reset"}]
  /\ arrived \in [Sockets -> Nat] /\ received \in [Sockets -> Nat]
  /\ \A s \in Sockets : received[s] <= arrived[s]
  /\ edge \in [Sockets -> BOOLEAN]
  /\ poller \in {"off", "wait", "batch", "test", "stop"}
  /\ batch \in [Sockets -> SUBSET {"hup", "out", "in"}]
  /\ reader \in {None} \cup Sockets /\ subscribers \in Nat
  /\ weak \in [Sockets -> {"none", "set", "piped", "deleted"}]
  /\ piped \in SUBSET Sockets /\ woken \in BOOLEAN /\ held \in SUBSET Sockets
  /\ opened \in [Sockets -> BOOLEAN]
  /\ reading \in [Sockets -> 0 .. 255] /\ receiving \in [Sockets -> Nat]
  /\ tasks \in [Sockets -> Seq({"receive", "close", "fail"})]
  /\ loop \in [Sockets -> BOOLEAN] /\ flushes \in [Sockets -> Nat]
  /\ socket \in {None} \cup Sockets /\ connected \in BOOLEAN /\ arming \in {"no", "queue", "drop"}
  /\ ends \in [Sockets -> Nat]

\* A weak reference is not deleted while the batch of the polling thread has its socket.
WeakIsAlive == \A s \in Sockets : batch[s] # {} => weak[s] # "deleted"

\* onData is shown what it has not consumed of the current connection, all of it, in
\* its order and from where it has stopped, whatever is disconnected and connected
\* again in callbacks.
StreamIsWhole ==
  call.kind = "data" /\ arming = "no" /\ call.result.socket = socket =>
    LET s == socket IN
    call.buffer = Bytes(s, consumed[s], call.result.to)

\* "just one onDisconnection!" (Net/IOSocket.cpp:446): by a disconnect() of the
\* application, in onError for instance, or by the polling thread, never by both; and
\* by one of them once the client has left; and connected() is true of a connection only.
OneDisconnection ==
  /\ \A s \in Sockets : ends[s] = IF HasPeer(s) /\ s \notin held THEN 1 ELSE 0
  /\ connected => socket # None /\ link[socket] \notin {"new", "connecting"}

\* What arrives is received, whatever the pace of the handler, as long as the
\* connection is up and the client is there.
EveryByteReceived ==
  \A s \in Sockets :
    received[s] < arrived[s] ~> received[s] = arrived[s] \/ link[s] # "up" \/ s \notin held

\* A connection which ends is signalled to the client, which leaves it, also when the
\* polling thread was ending.
EndIsSignalled ==
  \A s \in Sockets : s \in held /\ link[s] \in {"ended", "reset"} ~> s \notin held
=============================================================================
