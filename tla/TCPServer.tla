------------------------------- MODULE TCPServer -------------------------------
(***************************************************************************)
(* A TCPServer (Net/TCPServer.cpp) and the Accept action by which IOSocket *)
(* accepts its connections (Net/IOSocket.cpp): in a loop, until there is    *)
(* none or until BACKLOG_MAX of them wait for the application, which lets   *)
(* the loop go on when it has handled them.                                 *)
(*                                                                          *)
(* IOSocket.tla has the life of the polling thread and of the sockets: here *)
(* the thread polls, and what is left of a stopped server is dead.          *)
(***************************************************************************)
EXTENDS Naturals, Sequences

CONSTANTS
  Backlog,         \* Socket::BACKLOG_MAX
  MaxConnections,  \* bound: connections made to a socket of the server
  MaxFailures,     \* bound: failures of accept()
  MaxStarts        \* bound: starts of the server

VARIABLES
  subscribed,  \* _subscribed: the server listens and is polled
  starts,      \* starts of the server
  failures,    \* failures of accept()
  listener     \* the socket of the server, or Closed

serverVars == <<subscribed, starts, failures, listener>>

Closed ==
  [made      |-> 0,      \* connections made to it
   waiting   |-> 0,      \* those that the system keeps for accept()
   edge      |-> FALSE,  \* epoll has new ones to tell
   tested    |-> FALSE,  \* the polling thread has seen _reading null
   reading   |-> 0,      \* _reading, a uint8_t
   receiving |-> 0,      \* _receiving: connections which the application has to handle
   tasks     |-> 0,      \* Accept actions in the pool
   loop      |-> FALSE,  \* one of them is in its loop
   handles   |-> <<>>,   \* the queue of the handler: whether a Handle starts the loop again
   behind    |-> FALSE]  \* a failure of accept() has left connections behind it

Up(n) == (n + 1) % 256
Down(n) == (n + 255) % 256

ServerInit == subscribed = FALSE /\ starts = 0 /\ failures = 0 /\ listener = Closed

\* start(): a new socket is bound and listens before it is subscribed.
Start ==
  /\ ~subscribed /\ starts < MaxStarts
  /\ subscribed' = TRUE /\ starts' = starts + 1 /\ UNCHANGED <<failures, listener>>

\* stop(): the actions and the handles of the socket find it dead.
Stop == subscribed /\ subscribed' = FALSE /\ listener' = Closed /\ UNCHANGED <<starts, failures>>

Becomes(new) == subscribed /\ listener' = new /\ UNCHANGED <<subscribed, starts, failures>>

-----------------------------------------------------------------------------
(* The clients, and the polling thread *)

Connection ==
  /\ listener.made < MaxConnections
  /\ Becomes([listener EXCEPT !.made = @ + 1, !.waiting = @ + 1,
                              !.edge = TRUE, !.behind = FALSE])

\* read(): a test of _reading, and its increment.
PollTest ==
  /\ listener.edge /\ ~listener.tested
  /\ Becomes([listener EXCEPT !.edge = FALSE, !.tested = (listener.reading = 0)])

PollRead ==
  /\ listener.tested
  /\ Becomes([listener EXCEPT !.tested = FALSE, !.reading = Up(@), !.tasks = @ + 1])

-----------------------------------------------------------------------------
(* Accept, in the thread of the socket *)

AcceptStart ==
  /\ listener.tasks > 0 /\ ~listener.loop
  /\ Becomes([listener EXCEPT !.tasks = @ - 1, !.loop = (listener.reading # 0),
                              !.reading = Down(@)])

\* Mutant of AcceptOne: the loop stops without a _reading for its next start.
AcceptOneUncounted ==
  LET stop == listener.receiving + 1 >= Backlog IN
  /\ listener.loop /\ listener.waiting > 0
  /\ Becomes([listener EXCEPT !.waiting = @ - 1, !.receiving = @ + 1, !.loop = ~stop,
                !.handles = Append(@, stop)])

\* One more connection, and its Handle, which stops the loop if it is one too many.
AcceptOne ==
  LET stop == listener.receiving + 1 >= Backlog IN
  /\ listener.loop /\ listener.waiting > 0
  /\ Becomes([listener EXCEPT !.waiting = @ - 1, !.receiving = @ + 1, !.loop = ~stop,
                !.reading = IF stop THEN Up(@) ELSE @,
                !.handles = Append(@, stop)])

AcceptNone ==
  /\ listener.loop /\ listener.waiting = 0
  /\ Becomes([listener EXCEPT !.loop = FALSE])

\* Something will start the loop again.
Coming ==
  \/ listener.edge \/ listener.tested \/ listener.tasks > 0
  \/ \E i \in DOMAIN listener.handles : listener.handles[i]

\* accept() fails, on a connection which is gone (ECONNABORTED, or the TLS refuses it) or
\* for want of descriptors; onError is called, and nothing else is accepted.
AcceptFails(gone) ==
  /\ listener.loop /\ listener.waiting > 0 /\ failures < MaxFailures
  /\ failures' = failures + 1 /\ UNCHANGED <<subscribed, starts>>
  /\ LET left == IF gone THEN listener.waiting - 1 ELSE listener.waiting IN
     listener' = [listener EXCEPT !.loop = FALSE, !.waiting = left,
                                  !.behind = (left > 0 /\ ~Coming)]

\* The application handles a connection: the last of a full backlog starts the loop again,
\* but if it is full anew.
Handle ==
  LET armed == Head(listener.handles)  again == listener.receiving - 1 < Backlog IN
  /\ listener.handles # <<>>
  /\ Becomes([listener EXCEPT !.handles = Tail(@), !.receiving = @ - 1,
                !.tasks = IF armed /\ again THEN @ + 1 ELSE @,
                !.reading = IF armed /\ ~again THEN Down(@) ELSE @])

Polling == PollTest \/ PollRead
Accepting == AcceptStart \/ AcceptOne \/ AcceptNone
ServerNext ==
  \/ Start \/ Stop \/ Connection \/ Polling \/ Accepting \/ Handle
  \/ \E gone \in BOOLEAN : AcceptFails(gone)

\* The polling thread, the one of the socket and the one of the application.
ServerFairness ==
  WF_serverVars(Polling) /\ WF_serverVars(Accepting) /\ WF_serverVars(Handle)

-----------------------------------------------------------------------------
(* Correctness *)

\* While the server runs, every connection is accepted and handled at last, however the
\* polling thread, the pool and the application change _reading and _receiving. Excused:
\* those that a failure of accept() leaves behind, which wait for another connection.
EveryConnectionAccepted ==
  []<>(listener.behind \/ (listener.waiting = 0 /\ listener.handles = <<>>))
=============================================================================
