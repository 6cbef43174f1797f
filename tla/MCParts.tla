-------------------------------- MODULE MCParts --------------------------------
(* The parts of the library which stand alone, each by itself: a behaviour is one of one *)
(* of them, and the others stay as they are.                                             *)
EXTENDS Integers, Sequences, Buffer, Packet, Parameters, Logs

CONSTANTS
  w1, w2  \* FileWatcher

VARIABLES
  part,
  now, stamp, version, changes, added, held, watched, todo, looked, pc, listing, last, first,
  known, blurred,
  year, month, day, clock, weekDay, offset, changed, time, moved, sets,
  doc, state, inner, result, saved, told, stale, resets,
  flights, room, inbox, answers, edges, open, sending, queue, packets, sent, receives, sends,
  mutex, sendMutex, at,
  subscribed, starts, failures, listener

watchVars == <<now, stamp, version, changes, added, held, watched, todo, looked, pc, listing,
               last, first, known, blurred>>
dateVars == <<year, month, day, clock, weekDay, offset, changed, time, moved, sets>>
parserVars == <<doc, state, inner, result, saved, told, stale, resets>>
tlsVars == <<flights, room, inbox, answers, edges, open, sending, queue, packets, sent, receives,
             sends, mutex, sendMutex, at>>
serverVars == <<subscribed, starts, failures, listener>>

W == INSTANCE FileWatcher WITH Watchers <- {w1, w2}, Listing <- {w2}, MaxTime <- 4, MaxVersion <- 3

\* Around 1970, a leap day, the ends of a century and of four, and the year 1.
D == INSTANCE Date WITH
       Times <- {<<d, 43200000>> : d \in {0, -1, 11016, -25509, -719163}},
       Offsets <- {0, -43200000}, Years <- {1900, 2000}, Days <- {1, 31}, YearDays <- {60, 366},
       Hours <- {0, 23}, MaxSets <- 2

Few == {<<"open", "a">>, <<"close", "a">>, <<"full", "b">>, <<"text", "">>}
Tokens == Few \cup {<<kind, "">> : kind \in {"cdata", "comment", "info", "bad"}} \cup {<<"open", "b">>}
X == INSTANCE XMLParser WITH
       Documents <- UNION {[1 .. n -> Tokens] : n \in 0 .. 3} \cup [1 .. 5 -> Few], MaxResets <- 2

\* A client and a server.
S == INSTANCE TLS WITH
       Handshakes <- {<<"write", "read", "write">>, <<"read", "write", "read">>},
       MaxRoom <- 2, MaxWrites <- 3, writes <- packets

A == INSTANCE TCPServer WITH
       Backlog <- 2, MaxConnections <- 5, MaxFailures <- 2, MaxStarts <- 2

Parts == {"FileWatcher", "Logs", "Date", "Buffer", "Packet", "Parameters", "XMLParser", "TLS",
          "TCPServer"}

\* A part which is not the one of the behaviour has one initial state.
Init ==
  /\ part \in Parts
  /\ W!WatchInit /\ PacketInit /\ ParametersInit
  /\ LogsInit /\ (part = "Logs" \/ rotation = 0)
  /\ D!DateInit /\ (part = "Date" \/ (time = <<0, 43200000>> /\ offset = 0))
  /\ BufferInit /\ (part = "Buffer" \/ size = 0)
  /\ X!ParserInit /\ (part = "XMLParser" \/ doc = <<>>)
  /\ S!TLSInit /\ (part = "TLS" \/ Head(flights) = "read")
  /\ A!ServerInit

Is(name) == part = name /\ UNCHANGED part

Next ==
  \/ /\ Is("FileWatcher") /\ W!WatchNext
     /\ UNCHANGED <<logVars, dateVars, bufferVars, packetVars, paramVars, parserVars,
                    tlsVars, serverVars>>
  \/ /\ Is("Logs") /\ LogsNext
     /\ UNCHANGED <<watchVars, dateVars, bufferVars, packetVars, paramVars, parserVars,
                    tlsVars, serverVars>>
  \/ /\ Is("Date") /\ D!DateNext
     /\ UNCHANGED <<watchVars, logVars, bufferVars, packetVars, paramVars, parserVars,
                    tlsVars, serverVars>>
  \/ /\ Is("Buffer") /\ BufferNext
     /\ UNCHANGED <<watchVars, logVars, dateVars, packetVars, paramVars, parserVars,
                    tlsVars, serverVars>>
  \/ /\ Is("Packet") /\ PacketNext
     /\ UNCHANGED <<watchVars, logVars, dateVars, bufferVars, paramVars, parserVars,
                    tlsVars, serverVars>>
  \/ /\ Is("Parameters") /\ ParametersNext
     /\ UNCHANGED <<watchVars, logVars, dateVars, bufferVars, packetVars, parserVars,
                    tlsVars, serverVars>>
  \/ /\ Is("XMLParser") /\ X!ParserNext
     /\ UNCHANGED <<watchVars, logVars, dateVars, bufferVars, packetVars, paramVars,
                    tlsVars, serverVars>>
  \/ /\ Is("TLS") /\ S!TLSNext
     /\ UNCHANGED <<watchVars, logVars, dateVars, bufferVars, packetVars, paramVars,
                    parserVars, serverVars>>
  \/ /\ Is("TCPServer") /\ A!ServerNext
     /\ UNCHANGED <<watchVars, logVars, dateVars, bufferVars, packetVars, paramVars,
                    parserVars, tlsVars>>

vars == <<part, watchVars, logVars, dateVars, bufferVars, packetVars, paramVars, parserVars,
          tlsVars, serverVars>>

\* The fairness of the parts which have one, as their modules state it.
Spec ==
  /\ Init /\ [][Next]_vars
  /\ WF_watchVars(part = "FileWatcher" /\ W!Thread)
  /\ WF_watchVars(part = "FileWatcher" /\ W!Tick)
  /\ WF_tlsVars(part = "TLS" /\ S!ApplicationEnds) /\ WF_tlsVars(part = "TLS" /\ S!Receiver)
  /\ WF_tlsVars(part = "TLS" /\ S!Sender) /\ WF_tlsVars(part = "TLS" /\ S!Network)
  /\ WF_serverVars(part = "TCPServer" /\ A!Polling)
  /\ WF_serverVars(part = "TCPServer" /\ A!Accepting)
  /\ WF_serverVars(part = "TCPServer" /\ A!Handle)

-----------------------------------------------------------------------------
(* The properties of the parts, which their modules comment *)

\* FileWatcher: the last change of a file is announced to whoever watches it.
LastChangeAnnounced == W!LastChangeAnnounced
\* Date: the time, the fields and the day of the week are those of one Gregorian day.
CalendarIsExact == D!CalendarIsExact
\* Buffer, Packet, Parameters and Logs: BufferIsSequence, PacketsHold, ObserversFollow and
\* LogsKept.
\* XMLParser: every token is told once, in order, whatever the pauses and the resets.
EventsAreExact == X!EventsAreExact
\* TLS: what is written around the handshake is sent.
EveryPacketSent == S!EveryPacketSent
\* TCPServer: every connection is accepted and handled, in order.
EveryConnectionAccepted == A!EveryConnectionAccepted
=============================================================================
