----------------------------- MODULE IOFileJoin -----------------------------
(***************************************************************************)
(* IOFile::join (IOFile.cpp:99-104) over its two thread pools: the pool of *)
(* IOFile which reads and writes, and the pool of the application where    *)
(* the decodings run.  A read of a file with a decoder queues a decoding   *)
(* on the other pool, and a decoding may queue the next read back, so that *)
(* a pool which has just been joined may be working again.                 *)
(***************************************************************************)
EXTENDS ThreadPool

CONSTANTS
  Files,     \* the files read
  Calls,     \* how many times the application reads each file
  Reads,     \* how many reads the decoding of each file asks for
  IOSize,    \* the threads of IOFile's pool
  DecSize    \* the threads of the application's pool

\* A pool has a thread at least (ThreadPool::init).
ASSUME IOFileJoinAssumption ==
  /\ IOSize \in Nat \ {0} /\ DecSize \in Nat \ {0}
  /\ Calls \in Nat /\ Reads \in Nat

VARIABLES
  io,        \* IOFile::_threadPool
  dec,       \* IOFile::threadPool
  ioTrack,   \* File::_ioTrack
  decTrack,  \* File::_decodingTrack
  left,      \* the reads which the decoder of each file still wants
  todo,      \* the reads of each file which the application has still to ask for
  phase,     \* the thread of the application: "app", or in join(): "dec" or "io"
  at,        \* the thread of the pool which join() is at
  stopping,  \* join() waits for the end of this thread
  count,     \* how many running threads join() has found in this pool
  lapsed     \* history: an IO thread has stopped by itself since join() began

poolVars == <<io, dec, ioTrack, decTrack>>
joinVars == <<phase, at, stopping, count, lapsed>>
ioVars == <<io, dec, ioTrack, decTrack, left, todo, phase, at, stopping, count, lapsed>>

IOInit ==
  /\ io = NewPool(IOSize)
  /\ dec = NewPool(DecSize)
  /\ ioTrack = [f \in Files |-> 0]
  /\ decTrack = [f \in Files |-> 0]
  /\ left = [f \in Files |-> Reads]
  /\ todo = [f \in Files |-> Calls]
  /\ phase = "app"
  /\ at = 1
  /\ stopping = FALSE
  /\ count = 0
  /\ lapsed = FALSE

\* Mutant of QueueIO: the track is not kept in the file.
QueueIOTrackless(f) ==
  /\ io' = Queue(io, 0, f)
  /\ UNCHANGED ioTrack

QueueIO(f) ==
  /\ io' = Queue(io, ioTrack[f], f)
  /\ ioTrack' = [ioTrack EXCEPT ![f] = TrackOf(io, @)]

\* The application reads a file: it does not while it is in join().
Read(f) ==
  /\ phase = "app" /\ todo[f] > 0
  /\ todo' = [todo EXCEPT ![f] = @ - 1]
  /\ QueueIO(f)
  /\ UNCHANGED <<dec, decTrack, left, joinVars>>

\* A read ends with the queueing of the decoding of what it has read...
RunRead(i) ==
  /\ io.threads[i].pending # <<>>
  /\ LET f == Head(io.threads[i].pending) IN
       /\ dec' = Queue(dec, decTrack[f], f)
       /\ decTrack' = [decTrack EXCEPT ![f] = TrackOf(dec, @)]
  /\ io' = Ran(io, i)
  /\ UNCHANGED <<ioTrack, left, todo, joinVars>>

\* ... and a decoding with the queueing of the next read, if it wants one.
RunDecode(i) ==
  /\ dec.threads[i].pending # <<>>
  /\ LET f == Head(dec.threads[i].pending) IN
       IF left[f] > 0
       THEN QueueIO(f) /\ left' = [left EXCEPT ![f] = @ - 1]
       ELSE UNCHANGED <<io, ioTrack, left>>
  /\ dec' = Ran(dec, i)
  /\ UNCHANGED <<decTrack, todo, joinVars>>

IOExpires(i) ==
  /\ MayExpire(io, i)
  /\ io' = Expire(io, i)
  /\ UNCHANGED <<dec, ioTrack, decTrack, left, todo, joinVars>>

DecExpires(i) ==
  /\ MayExpire(dec, i)
  /\ dec' = Expire(dec, i)
  /\ UNCHANGED <<io, ioTrack, decTrack, left, todo, joinVars>>

-----------------------------------------------------------------------------
(* IOFile::join, by the application's thread, and ThreadPool::join in it.  *)

Pool == IF phase = "dec" THEN dec ELSE io

EnterJoin ==
  /\ phase = "app"
  /\ phase' = "dec"
  /\ lapsed' = FALSE
  /\ UNCHANGED <<poolVars, left, todo, at, stopping, count>>

\* running(): a thread which does not run is skipped, another one is stopped.
JoinThread ==
  /\ phase # "app" /\ at <= Size(Pool) /\ ~stopping
  /\ IF Pool.threads[at].running
     THEN stopping' = TRUE /\ count' = count + 1 /\ UNCHANGED at
     ELSE at' = at + 1 /\ UNCHANGED <<stopping, count>>
  /\ UNCHANGED <<poolVars, left, todo, phase, lapsed>>

\* The worker stops; when join() is in the stop() of this thread, it goes on.
Stopped(joined) ==
  IF joined
  THEN at' = at + 1 /\ stopping' = FALSE
  ELSE UNCHANGED <<at, stopping>>

IOStops(i) ==
  /\ Emptied(io, i)
  /\ LET joined == phase = "io" /\ stopping /\ at = i IN
       /\ joined \/ io.threads[i].expired
       /\ Stopped(joined)
       /\ lapsed' = (lapsed \/ ~joined)
  /\ io' = Stop(io, i)
  /\ UNCHANGED <<dec, ioTrack, decTrack, left, todo, phase, count>>

DecStops(i) ==
  /\ Emptied(dec, i)
  /\ LET joined == phase = "dec" /\ stopping /\ at = i IN
       /\ joined \/ dec.threads[i].expired
       /\ Stopped(joined)
  /\ dec' = Stop(dec, i)
  /\ UNCHANGED <<io, ioTrack, decTrack, left, todo, phase, count, lapsed>>

\* Mutant of JoinNext: the pools are joined once.
JoinNextOnce ==
  /\ phase # "app" /\ at > Size(Pool)
  /\ phase' = IF phase = "dec" THEN "io" ELSE "app"
  /\ at' = 1
  /\ count' = 0
  /\ UNCHANGED <<poolVars, left, todo, stopping, lapsed>>

\* Mutant of JoinNext: the count of the former loop is kept.
JoinNextCounting ==
  /\ phase # "app" /\ at > Size(Pool)
  /\ phase' = IF phase = "dec" THEN "io" ELSE IF count > 0 THEN "dec" ELSE "app"
  /\ at' = 1
  /\ UNCHANGED <<poolVars, left, todo, stopping, count, lapsed>>

\* One pool is joined; join() begins again as long as IO threads were running.
JoinNext ==
  /\ phase # "app" /\ at > Size(Pool)
  /\ phase' = IF phase = "dec" THEN "io" ELSE IF count > 0 THEN "dec" ELSE "app"
  /\ at' = 1
  /\ count' = 0
  /\ UNCHANGED <<poolVars, left, todo, stopping, lapsed>>

-----------------------------------------------------------------------------

IOThread(i) == RunRead(i) \/ IOStops(i)
DecThread(i) == RunDecode(i) \/ DecStops(i)
Join == JoinThread \/ JoinNext

IONext ==
  \/ \E f \in Files : Read(f)
  \/ \E i \in 1 .. IOSize : IOThread(i) \/ IOExpires(i)
  \/ \E i \in 1 .. DecSize : DecThread(i) \/ DecExpires(i)
  \/ EnterJoin \/ Join

IOBehaviour == IOInit /\ [][IONext]_ioVars

\* The threads of both pools and the one in join() are scheduled.
FairIOBehaviour ==
  /\ IOBehaviour
  /\ \A i \in 1 .. IOSize : WF_ioVars(IOThread(i))
  /\ \A i \in 1 .. DecSize : WF_ioVars(DecThread(i))
  /\ WF_ioVars(Join)

-----------------------------------------------------------------------------
(* Correctness *)

Threads(size) ==
  [1 .. size -> [pending : Seq(Files), running : BOOLEAN, expired : BOOLEAN]]

\* Every variable has its type; a thread which has something to do runs.
IOTypeOK ==
  /\ io \in [current : 0 .. Wrap - 1, threads : Threads(IOSize)]
  /\ dec \in [current : 0 .. Wrap - 1, threads : Threads(DecSize)]
  /\ \A i \in 1 .. IOSize : io.threads[i].pending # <<>> => io.threads[i].running
  /\ ioTrack \in [Files -> 0 .. IOSize] /\ decTrack \in [Files -> 0 .. DecSize]
  /\ left \in [Files -> 0 .. Reads] /\ todo \in [Files -> 0 .. Calls]
  /\ phase \in {"app", "dec", "io"}
  /\ at \in Nat /\ count \in Nat /\ stopping \in BOOLEAN /\ lapsed \in BOOLEAN

\* The operations of a file are never on two threads of a pool: this is what
\* keeps them in order (ThreadPool.h:34-39, the tracks of File.h:118-119).
OneThreadPerFile ==
  \A f \in Files, p \in {io, dec} : \A i, j \in 1 .. Size(p) :
    (\E k \in DOMAIN p.threads[i].pending : p.threads[i].pending[k] = f)
      /\ (\E k \in DOMAIN p.threads[j].pending : p.threads[j].pending[k] = f) => i = j

\* join() waits for all: "reading and writing operation" and "possible decoding"
\* (IOFile.cpp:100-103), however the two pools feed each other meanwhile; unless
\* an IO thread stops by itself, whose last decoding join() may then not see.
JoinWaitsForAll ==
  [][phase = "io" /\ phase' = "app" /\ ~lapsed => Idle(io) /\ Idle(dec)]_ioVars

\* join() returns.
JoinReturns == phase # "app" ~> phase = "app"
=============================================================================
