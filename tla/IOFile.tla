------------------------------- MODULE IOFile -------------------------------
(***************************************************************************)
(* Mona::IOFile (Mona/Disk/IOFile.h, IOFile.cpp) with Mona::File (File.h,  *)
(* File.cpp) for one file: asynchronous loading, reading, decoding,        *)
(* writing and deletion.  The application's thread calls IOFile and gets   *)
(* the events of the file back through a Handler; the actions of a file    *)
(* all run on one thread of IOFile's pool (its _ioTrack), its decodings on *)
(* one thread of the shared pool (its _decodingTrack).  Both threads are   *)
(* FIFO queues, as ThreadQueue implements them, and so is the Handler.     *)
(*                                                                         *)
(* The counters _queueing and _flushing are atomics shared by the          *)
(* application and the IO thread: the actions are split between their      *)
(* accesses.  The writing actions hold the file (SAction), reading and     *)
(* decoding ones do not (WAction).                                         *)
(***************************************************************************)
EXTENDS Naturals, Sequences, FiniteSets

CONSTANTS
  FileSize,  \* the bytes to read of the file
  Sizes,     \* the sizes of the reads and writes, 0 is an empty packet
  MaxCalls   \* bound: how many times the application calls IOFile

ASSUME IOFileAssumption ==
  FileSize \in Nat /\ MaxCalls \in Nat /\ Sizes \subseteq Nat

VARIABLES
  mode,      \* the mode of the file, chosen once
  decoding,  \* has the file a decoder, chosen once
  polite,    \* does the application wait for the end of a write before the next one
  held,      \* the application has its Shared<File>
  loaded,    \* _loaded
  readen,    \* _readen
  queueing,  \* _queueing
  flushing,  \* _flushing
  io,        \* the actions of the file on its IO thread, the first one under way
  step,      \* where the IO thread is in the first action of io
  decode,    \* the decodings of the file on their thread
  handles,   \* the events of the file in the Handler
  calls,     \* bound: the calls done by the application
  asked,     \* history: the reads asked, by the application or by the decoder
  answered,  \* history: the reads answered by an event, or captured by the decoder
  owed,      \* history: the file is all written, or erased, and onFlush not called since
  position   \* history: where the next onReaden must begin

choices == <<mode, decoding, polite>>
appVars == <<choices, held, calls>>
fileVars == <<loaded, readen>>
readVars == <<asked, answered, position>>
vars == <<choices, held, loaded, readen, queueing, flushing, io, step, decode, handles,
          calls, asked, answered, owed, position>>

Least(a, b) == IF a <= b THEN a ELSE b

Modes == {"read", "write", "append", "delete"}

Init ==
  /\ mode \in Modes
  /\ decoding \in BOOLEAN /\ (decoding => mode = "read")
  /\ polite \in BOOLEAN /\ (polite => mode # "read")
  /\ held = TRUE
  /\ loaded = FALSE
  /\ readen = 0
  /\ queueing = 0
  /\ flushing = 0
  /\ io = <<>>
  /\ step = "idle"
  /\ decode = <<>>
  /\ handles = <<>>
  /\ calls = 0
  /\ asked = 0
  /\ answered = 0
  /\ owed = FALSE
  /\ position = 0

-----------------------------------------------------------------------------
(* The application's thread: IOFile::load, read, write and erase.          *)

Action(op, size) == [op |-> op, size |-> size]
IsWriting(a) == a.op \in {"load", "write", "erase"}

CallIO(op, size) ==
  /\ held
  /\ calls < MaxCalls
  /\ calls' = calls + 1
  /\ io' = Append(io, Action(op, size))
  /\ UNCHANGED <<choices, held, fileVars, flushing, step, decode, handles, answered, owed, position>>

Load ==
  /\ ~loaded
  /\ CallIO("load", 0)
  /\ UNCHANGED <<queueing, asked>>

Read(size) ==
  /\ CallIO("read", size)
  /\ asked' = asked + 1
  /\ UNCHANGED queueing

\* A polite application has nothing more to be flushed.
Write(size) ==
  /\ size > 0 \/ ~loaded
  /\ polite => ~owed /\ io = <<>>
  /\ CallIO("write", size)
  /\ queueing' = queueing + size
  /\ UNCHANGED asked

Erase ==
  /\ polite => ~owed /\ io = <<>>
  /\ CallIO("erase", 0)
  /\ UNCHANGED <<queueing, asked>>

Drop ==
  /\ held
  /\ held' = FALSE
  /\ UNCHANGED <<choices, fileVars, queueing, flushing, io, step, decode, handles, calls, readVars, owed>>

-----------------------------------------------------------------------------
(* The references to the file: who has one, and Action::handle.            *)

Alive == held \/ \E i \in DOMAIN io : IsWriting(io[i])

\* pFile.unique() in an action of the IO thread; in the decoding thread it is ~Alive.
UniqueInIO == ~held /\ \A i \in 2 .. Len(io) : ~IsWriting(io[i])

Event(kind, from, size) == [kind |-> kind, from |-> from, size |-> size]

Handle(unique, event) ==
  handles' = IF unique THEN handles ELSE Append(handles, event)

-----------------------------------------------------------------------------
(* The IO thread.  The first action of io is under way.                    *)

Doing(op) == step = "idle" /\ io # <<>> /\ Head(io).op = op

Done == step' = "idle" /\ io' = Tail(io)

\* Nothing is opened to delete a file, and this is not an error (IOFile.cpp:66-70).
Error(kind) ==
  /\ Done
  /\ Handle(UniqueInIO, Event(kind, 0, 0))

LoadFile ==
  /\ Doing("load")
  /\ loaded' = (mode # "delete")
  /\ Done
  /\ UNCHANGED <<appVars, readen, queueing, flushing, decode, handles, readVars, owed>>

LoadFails ==
  /\ Doing("load")
  /\ mode # "delete" /\ ~loaded
  /\ Error("error")
  /\ UNCHANGED <<appVars, fileVars, queueing, flushing, decode, readVars, owed>>

\* The file is gone, or nobody is there any more to receive what would be read.
ReadUseless ==
  /\ Doing("read")
  /\ UniqueInIO
  /\ Done
  /\ UNCHANGED <<appVars, fileVars, queueing, flushing, decode, handles, readVars, owed>>

\* Mutant of ReadFile: _readen is not advanced.
ReadFileAgain ==
  /\ Doing("read")
  /\ ~UniqueInIO
  /\ mode = "read"
  /\ LET size == Least(FileSize - readen, Head(io).size)
         end == size = FileSize - readen
     IN  IF decoding
         THEN decode' = Append(decode, [from |-> readen, size |-> size, end |-> end])
              /\ UNCHANGED handles
         ELSE Handle(FALSE, Event("readen", readen, size)) /\ UNCHANGED decode
  /\ loaded' = TRUE
  /\ Done
  /\ UNCHANGED <<appVars, readen, queueing, flushing, readVars, owed>>

\* Mutant of ReadFile: nothing more to read, nothing answered.
ReadFileMute ==
  /\ Doing("read")
  /\ ~UniqueInIO
  /\ mode = "read"
  /\ LET size == Least(FileSize - readen, Head(io).size)
         end == size = FileSize - readen
     IN  /\ readen' = readen + size
         /\ IF size = 0 THEN UNCHANGED <<decode, handles>>
            ELSE IF decoding
            THEN decode' = Append(decode, [from |-> readen, size |-> size, end |-> end])
                 /\ UNCHANGED handles
            ELSE Handle(FALSE, Event("readen", readen, size)) /\ UNCHANGED decode
  /\ loaded' = TRUE
  /\ Done
  /\ UNCHANGED <<appVars, queueing, flushing, readVars, owed>>

ReadFile ==
  /\ Doing("read")
  /\ ~UniqueInIO
  /\ mode = "read"
  /\ LET size == Least(FileSize - readen, Head(io).size)
         end == size = FileSize - readen
     IN  /\ readen' = readen + size
         /\ IF decoding
            THEN decode' = Append(decode, [from |-> readen, size |-> size, end |-> end])
                 /\ UNCHANGED handles
            ELSE Handle(FALSE, Event("readen", readen, size)) /\ UNCHANGED decode
  /\ loaded' = TRUE
  /\ Done
  /\ UNCHANGED <<appVars, queueing, flushing, readVars, owed>>

\* The file cannot be opened or read, or has not been opened to be read.
ReadFails ==
  /\ Doing("read")
  /\ ~UniqueInIO
  /\ loaded' \in {loaded, mode # "delete"}
  /\ Error("readError")
  /\ UNCHANGED <<appVars, readen, queueing, flushing, decode, readVars, owed>>

\* Mutant of WriteDequeue: what is being written is still counted.
WriteDequeueLate ==
  /\ Doing("write")
  /\ step' = IF queueing = Head(io).size THEN "writeLast" ELSE "write"
  /\ UNCHANGED <<appVars, fileVars, queueing, flushing, io, decode, handles, readVars, owed>>

\* WriteFile::process: _queueing first, what remains of it is kept in a local.
WriteDequeue ==
  /\ Doing("write")
  /\ queueing' = queueing - Head(io).size
  /\ step' = IF queueing' = 0 THEN "writeLast" ELSE "write"
  /\ UNCHANGED <<appVars, fileVars, flushing, io, decode, handles, readVars, owed>>

WriteFile ==
  /\ step \in {"write", "writeLast"}
  /\ mode \in {"write", "append"}
  /\ loaded' = TRUE
  /\ IF step = "write"
     THEN Done /\ UNCHANGED owed
     ELSE step' = "flush" /\ owed' = TRUE /\ UNCHANGED io
  /\ UNCHANGED <<appVars, readen, queueing, flushing, decode, handles, readVars>>

WriteFails ==
  /\ step \in {"write", "writeLast"}
  /\ loaded' \in {loaded, mode # "delete"}
  /\ Error("error")
  /\ UNCHANGED <<appVars, readen, queueing, flushing, decode, readVars, owed>>

EraseFile ==
  /\ Doing("erase")
  /\ mode \in {"write", "delete"}
  /\ readen' = 0
  /\ owed' = TRUE
  /\ step' = "flush"
  /\ UNCHANGED <<appVars, loaded, queueing, flushing, io, decode, handles, readVars>>

EraseFails ==
  /\ Doing("erase")
  /\ Error("error")
  /\ UNCHANGED <<appVars, fileVars, queueing, flushing, decode, readVars, owed>>

\* Mutant of Flush: the test of _flushing is inverted.
FlushNever ==
  /\ step = "flush"
  /\ flushing' = flushing + 1
  /\ IF flushing # 0
     THEN Done /\ Handle(UniqueInIO, Event("flush", 0, 0))
     ELSE step' = "undo" /\ UNCHANGED <<io, handles>>
  /\ UNCHANGED <<appVars, fileVars, queueing, decode, readVars, owed>>

\* if (!_flushing++) handle<Handle>(pFile)...
Flush ==
  /\ step = "flush"
  /\ flushing' = flushing + 1
  /\ IF flushing = 0
     THEN Done /\ Handle(UniqueInIO, Event("flush", 0, 0))
     ELSE step' = "undo" /\ UNCHANGED <<io, handles>>
  /\ UNCHANGED <<appVars, fileVars, queueing, decode, readVars, owed>>

\* ...else --_flushing.
FlushUndo ==
  /\ step = "undo"
  /\ flushing' = flushing - 1
  /\ Done
  /\ UNCHANGED <<appVars, fileVars, queueing, decode, handles, readVars, owed>>

-----------------------------------------------------------------------------
(* The decoding thread.                                                    *)

DecodeUseless ==
  /\ decode # <<>> /\ ~Alive
  /\ decode' = Tail(decode)
  /\ UNCHANGED <<appVars, fileVars, queueing, flushing, io, step, handles, readVars, owed>>

\* decode() may capture the buffer, and may want to read again, up to the end.
Decode(captured, want) ==
  /\ decode # <<>> /\ Alive
  /\ decode' = Tail(decode)
  /\ LET d == Head(decode)
         more == want > 0 /\ ~d.end
     IN  /\ IF captured
            THEN answered' = answered + 1 /\ UNCHANGED handles
            ELSE Handle(FALSE, Event("readen", d.from, d.size)) /\ UNCHANGED answered
         /\ IF more
            THEN io' = Append(io, Action("read", want)) /\ asked' = asked + 1
            ELSE UNCHANGED <<io, asked>>
  /\ UNCHANGED <<appVars, fileVars, queueing, flushing, step, owed, position>>

-----------------------------------------------------------------------------
(* The application's thread runs the events of the Handler, in order.      *)

First == Head(handles)

DispatchDead ==
  /\ handles # <<>> /\ ~Alive
  /\ handles' = Tail(handles)
  /\ UNCHANGED <<appVars, fileVars, queueing, flushing, io, step, decode, readVars, owed>>

DispatchFlush ==
  /\ handles # <<>> /\ Alive /\ First.kind = "flush"
  /\ handles' = Tail(handles)
  /\ flushing' = flushing - 1
  /\ owed' = (owed /\ flushing' # 0)
  /\ UNCHANGED <<appVars, fileVars, queueing, io, step, decode, readVars>>

DispatchReaden ==
  /\ handles # <<>> /\ Alive /\ First.kind = "readen"
  /\ handles' = Tail(handles)
  /\ answered' = answered + 1
  /\ position' = First.from + First.size
  /\ UNCHANGED <<appVars, fileVars, queueing, flushing, io, step, decode, asked, owed>>

DispatchError ==
  /\ handles # <<>> /\ Alive /\ First.kind \in {"error", "readError"}
  /\ handles' = Tail(handles)
  /\ answered' = IF First.kind = "readError" THEN answered + 1 ELSE answered
  /\ UNCHANGED <<appVars, fileVars, queueing, flushing, io, step, decode, asked, owed, position>>

-----------------------------------------------------------------------------

Application ==
  \/ Load \/ Erase \/ Drop
  \/ \E size \in Sizes : Read(size) \/ Write(size)

IOThread ==
  \/ LoadFile \/ LoadFails \/ ReadUseless \/ ReadFile \/ ReadFails
  \/ WriteDequeue \/ WriteFile \/ WriteFails
  \/ EraseFile \/ EraseFails \/ Flush \/ FlushUndo

DecodingThread ==
  \/ DecodeUseless
  \/ \E captured \in BOOLEAN, want \in Sizes : Decode(captured, want)

Dispatch == DispatchDead \/ DispatchFlush \/ DispatchReaden \/ DispatchError

Next == Application \/ IOThread \/ DecodingThread \/ Dispatch

Spec == Init /\ [][Next]_vars

\* The threads of the pools run what they have, the application flushes its Handler.
FairSpec ==
  Spec /\ WF_vars(IOThread) /\ WF_vars(DecodingThread) /\ WF_vars(Dispatch)

-----------------------------------------------------------------------------
(* Correctness *)

Actions == [op : {"load", "read", "write", "erase"}, size : Nat]
Events == [kind : {"flush", "readen", "error", "readError"}, from : Nat, size : Nat]

\* Every variable has its type, and no counter goes below 0.
TypeOK ==
  /\ mode \in Modes /\ decoding \in BOOLEAN /\ polite \in BOOLEAN
  /\ held \in BOOLEAN /\ loaded \in BOOLEAN /\ owed \in BOOLEAN
  /\ readen \in 0 .. FileSize
  /\ queueing \in Nat /\ flushing \in 0 .. 2
  /\ io \in Seq(Actions)
  /\ step \in {"idle", "write", "writeLast", "flush", "undo"}
  /\ decode \in Seq([from : Nat, size : Nat, end : BOOLEAN])
  /\ handles \in Seq(Events)
  /\ calls \in 0 .. MaxCalls
  /\ asked \in Nat /\ answered \in Nat /\ position \in 0 .. FileSize

\* The actions which have not begun, and the bytes which they are to write, each one
\* by its action and its rank.
Pending == IF step = "idle" THEN io ELSE Tail(io)
ToWrite(actions) ==
  UNION { {i} \X (1 .. actions[i].size) : i \in {j \in DOMAIN actions : actions[j].op = "write"} }

\* _queueing is what is still to write, the write under way excluded: it
\* comes back to 0 whatever fails (IOFile.cpp:179 and 191).
QueueingIsExact == queueing = Cardinality(ToWrite(Pending))

\* The data are given in the order of the file, each byte once, whatever the
\* calls of read(), the decodings and the reads they ask (IOFile.cpp:119-174).
ReadInOrder ==
  held /\ handles # <<>> /\ First.kind = "readen" =>
    /\ First.from >= position
    /\ ~decoding => First.from = position

\* "always do the job even if size==0 to get a onReaden event!" (IOFile.cpp:172):
\* every read is answered, by data, an error or the decoder, while the file is held.
EveryReadAnswered ==
  (asked # answered) ~> (asked = answered \/ ~held)

\* "To signal end of write!" (IOFile.cpp:196 and 225): when all is written, or
\* the file erased, and nothing is on its way, onFlush has been called for it.
EndOfWriteSignalled ==
  held /\ io = <<>> /\ handles = <<>> => ~owed

\* An application which waits for onFlush before it writes again always gets it
\* (IOFile.cpp:182-200), whatever else it does with the file.
EveryWriteFlushed ==
  polite /\ owed ~> ~owed \/ ~held
=============================================================================
