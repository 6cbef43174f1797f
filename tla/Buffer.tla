-------------------------------- MODULE Buffer --------------------------------
(***************************************************************************)
(* A Buffer and its allocator (Memory/Buffer.h, Buffer.cpp): a chunk of    *)
(* memory, of which an offset has been clipped off, filled up to a size    *)
(* and good up to a capacity.  Bytes are numbers: 0 is what memory holds   *)
(* when nobody has written there.  The smallest chunk is of MinCapacity    *)
(* bytes, for the 16 of the code; 32-bit sizes are beyond the bound.       *)
(***************************************************************************)
EXTENDS Naturals, Sequences, FiniteSetsExt

CONSTANTS
  MinCapacity,  \* smallest capacity
  MaxSize,      \* bound: bytes of a buffer
  MaxWrites     \* bound: calls of append

VARIABLES
  memory,    \* bytes of the chunk, from _data - _offset
  skipped,   \* _offset
  size,      \* _size
  capacity,  \* _capacity
  expected,  \* the bytes that the program expects, Unwritten for those it has not written
  freed,     \* the chunk just given back to the pool: <<capacity announced, real one>>
  writes     \* calls of append

bufferVars == <<memory, skipped, size, capacity, expected, freed, writes>>

Unwritten == 0
Powers == {2 ^ k : k \in 0 .. MaxSize}

\* Every size has a power of two above it: Alloc keeps the sizes over 2^31 as they are.
ASSUME BufferAssumption ==
  /\ MaxSize \in Nat /\ MaxSize >= 3 /\ MaxWrites \in Nat /\ MinCapacity \in Nat
  /\ Powers \subseteq Nat \ {0}
  /\ \A n \in 0 .. MaxSize : \E c \in Powers : c >= n /\ c >= MinCapacity

Garbage(n) == [i \in 1 .. n |-> Unwritten]

\* Allocator::Alloc: the capacity of a chunk for n bytes, none for the empty one.
Capacity(n) == IF n = 0 THEN 0 ELSE Min({c \in Powers : c >= n /\ c >= MinCapacity})

\* Allocator::Free: an odd capacity goes to the heap, the others to the pool.
Given(c, real) == IF c \in Powers THEN {<<c, real>>} ELSE {}

Content == SubSeq(memory, skipped + 1, skipped + size)
Overwritten(bytes, start, data) ==
  [i \in 1 .. Len(bytes) |->
     IF i > start /\ i <= start + Len(data) THEN data[i - start] ELSE bytes[i]]

Fresh(n) ==
  /\ capacity = Capacity(n) /\ memory = Garbage(Capacity(n))
  /\ skipped = 0 /\ size = n /\ expected = Garbage(n)

BufferInit == (\E n \in {0, 1} : Fresh(n)) /\ freed = {} /\ writes = 0

\* Mutant of Resized: the content stays where the offset was.
ResizedUnmoved(n, preserve) ==
  LET whole == capacity + skipped IN
  CASE n <= capacity ->
         [memory |-> memory, skipped |-> IF preserve THEN skipped ELSE 0,
          capacity |-> IF preserve THEN capacity ELSE whole, freed |-> {}]
    [] n > capacity /\ n <= whole ->
         [memory |-> memory, skipped |-> 0, capacity |-> whole, freed |-> {}]
    [] OTHER ->
         [memory |-> IF preserve THEN Overwritten(Garbage(Capacity(n)), 0, Content)
                     ELSE Garbage(Capacity(n)),
          skipped |-> 0, capacity |-> Capacity(n), freed |-> Given(whole, Len(memory))]

\* resize(): the memory after it, its offset and its capacity.
Resized(n, preserve) ==
  LET whole == capacity + skipped IN
  CASE n <= capacity ->
         [memory |-> memory, skipped |-> IF preserve THEN skipped ELSE 0,
          capacity |-> IF preserve THEN capacity ELSE whole, freed |-> {}]
    [] n > capacity /\ n <= whole ->
         [memory |-> IF preserve THEN Overwritten(memory, 0, Content) ELSE memory,
          skipped |-> 0, capacity |-> whole, freed |-> {}]
    [] OTHER ->
         [memory |-> IF preserve THEN Overwritten(Garbage(Capacity(n)), 0, Content)
                     ELSE Garbage(Capacity(n)),
          skipped |-> 0, capacity |-> Capacity(n), freed |-> Given(whole, Len(memory))]

Adopts(r, n, data) ==
  /\ memory' = IF data = <<>> THEN r.memory ELSE Overwritten(r.memory, r.skipped + size, data)
  /\ skipped' = r.skipped /\ capacity' = r.capacity /\ freed' = r.freed
  /\ size' = n

Kept(n) == [i \in 1 .. n |-> IF i <= size THEN expected[i] ELSE Unwritten]

ResizeTo(n, preserve) ==
  /\ Adopts(Resized(n, preserve), n, <<>>)
  /\ expected' = IF preserve THEN Kept(n) ELSE Garbage(n)
  /\ UNCHANGED writes

\* append(): n bytes, all the same.
AppendBytes(n) ==
  /\ writes < MaxWrites /\ writes' = writes + 1
  /\ size + n <= MaxSize
  /\ LET data == [i \in 1 .. n |-> writes + 1] IN
     /\ Adopts(Resized(size + n, TRUE), size + n, data)
     /\ expected' = expected \o data

Clip(n) ==
  /\ UNCHANGED writes
  /\ IF n >= size
     THEN Adopts(Resized(0, FALSE), 0, <<>>) /\ expected' = <<>>
     ELSE /\ skipped' = skipped + n /\ size' = size - n /\ capacity' = capacity - n
          /\ expected' = SubSeq(expected, n + 1, size)
          /\ UNCHANGED <<memory, freed>>

\* The destructor, and a new Buffer.
Renew(n) ==
  /\ freed' = Given(capacity, Len(memory))
  /\ capacity' = Capacity(n) /\ memory' = Garbage(Capacity(n))
  /\ skipped' = 0 /\ size' = n /\ expected' = Garbage(n)
  /\ UNCHANGED writes

BufferNext ==
  \/ \E n \in 0 .. MaxSize, preserve \in BOOLEAN : ResizeTo(n, preserve)
  \/ \E n \in 1 .. 2 : AppendBytes(n)
  \/ \E n \in 1 .. MaxSize : Clip(n)
  \/ \E n \in {0, 3} : Renew(n)

-----------------------------------------------------------------------------
(* Correctness *)

\* A chunk given back with less than its size: what the clips have left of it.
Clipped(f) == f[1] < f[2]

\* Whatever is appended, clipped, cut and grown, the buffer holds the bytes that the
\* program has put in it and not clipped off, inside its chunk; and the pool is never
\* told that a chunk is larger than it is, for the next buffer to write beyond its end, nor
\* of a capacity under the smallest one but by a buffer which was clipped.
BufferIsSequence ==
  /\ size <= capacity /\ capacity + skipped = Len(memory)
  /\ Len(expected) = size
  /\ \A i \in 1 .. size : expected[i] # Unwritten => Content[i] = expected[i]
  /\ \A f \in freed : f[1] <= f[2] /\ (f[1] < MinCapacity => Clipped(f))

\* "check than we have a size create with Alloc (capacity log2)" (Memory/Buffer.cpp:58):
\* the pool is given a capacity that Alloc gives, which it has a bucket for.  It is not so
\* of a buffer clipped down to less than the smallest one, and then destroyed.
PoolTakesAllocated == \A f \in freed : f[1] \in {Capacity(n) : n \in 1 .. MaxSize}
=============================================================================
