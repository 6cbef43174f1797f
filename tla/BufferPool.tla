----------------------------- MODULE BufferPool -----------------------------
(***************************************************************************)
(* Mona::BufferPool (Mona/Memory/BufferPool.h, BufferPool.cpp) behind      *)
(* Buffer::Allocator (Buffer.h:56-73, Buffer.cpp:26-62): the recycling of  *)
(* the memory of one capacity, of the 28 which have a bucket.  A bucket is *)
(* a stack of free buffers with two marks: _minSize, below which the stack *)
(* has not gone down since the last cleaning, and _maxSize, the highest it *)
(* has been.  Every ten seconds the pool's thread takes _minSize buffers,  *)
(* which have been useless all that time, off the stack and deletes them.  *)
(*                                                                         *)
(* The buckets share nothing but chunks: a clipped one is freed with the   *)
(* capacity which is left of it (Buffer.cpp:74-77).  Its first bucket sees *)
(* a buffer which goes to the heap (Delete), the other one a buffer which  *)
(* comes from it (New) and is freed.                                       *)
(*                                                                         *)
(* The spin flag makes alloc, free and manage atomic.  Alloc and Free only *)
(* try it: when another thread has it they go to the heap instead, which   *)
(* the model allows at any time.                                           *)
(***************************************************************************)
EXTENDS Integers, Sequences

CONSTANTS
  Buffers,  \* the addresses the heap can return for this capacity
  Null      \* the NULL pointer

ASSUME BufferPoolAssumption == Null \notin Buffers

VARIABLES
  stack,    \* the std::vector<char*> of the bucket
  minSize,  \* _minSize
  maxSize,  \* _maxSize
  used,     \* the buffers given to the program
  heap,     \* the addresses allocated by new and not deleted yet
  gc,       \* the buffers the cleaner is about to delete
  cleaner   \* where BufferPool::run is

vars == <<stack, minSize, maxSize, used, heap, gc, cleaner>>

Members(s) == {s[i] : i \in DOMAIN s}

\* std::vector::resize: truncates, or fills with NULL.
Resize(s, n) == [i \in 1 .. n |-> IF i <= Len(s) THEN s[i] ELSE Null]

Init ==
  /\ stack = <<>>
  /\ minSize = 0
  /\ maxSize = 0
  /\ used = {}
  /\ heap = {}
  /\ gc = {}
  /\ cleaner = "wait"

\* alloc: the last buffer of the stack...
Pop ==
  /\ stack # <<>>
  /\ used' = used \cup {stack[Len(stack)]}
  /\ stack' = SubSeq(stack, 1, Len(stack) - 1)
  /\ minSize' = IF Len(stack) - 1 < minSize THEN Len(stack) - 1 ELSE minSize
  /\ UNCHANGED <<maxSize, heap, gc, cleaner>>

\* ... or new memory, when the stack is empty or the flag taken.
New(b) ==
  /\ b \notin heap
  /\ heap' = heap \cup {b}
  /\ used' = used \cup {b}
  /\ UNCHANGED <<stack, minSize, maxSize, gc, cleaner>>

\* free: on the stack...
Push(b) ==
  /\ b \in used
  /\ used' = used \ {b}
  /\ stack' = Append(stack, b)
  /\ maxSize' = IF Len(stack) + 1 > maxSize THEN Len(stack) + 1 ELSE maxSize
  /\ UNCHANGED <<minSize, heap, gc, cleaner>>

\* ... or deleted, when the flag is taken.
Delete(b) ==
  /\ b \in used
  /\ used' = used \ {b}
  /\ heap' = heap \ {b}
  /\ UNCHANGED <<stack, minSize, maxSize, gc, cleaner>>

\* What the mutants of Manage have in common.
ManageBy(resized, min) ==
  /\ cleaner = "wait"
  /\ gc' = {stack[i] : i \in Len(stack) - minSize + 1 .. Len(stack)}
  /\ stack' = resized
  /\ minSize' = min
  /\ maxSize' = 0
  /\ cleaner' = "delete"
  /\ UNCHANGED <<used, heap>>

\* Mutant of Manage: without the second resize.
ManageOnce == ManageBy(Resize(stack, maxSize), Len(stack) - minSize)

\* Mutant of Manage: _minSize starts again from 0.
ManageFromZero == ManageBy(Resize(Resize(stack, maxSize), Len(stack) - minSize), 0)

\* Buffers::manage, under the flag: the minSize last buffers go to gc, and the
\* vector is resized twice, to give its capacity back.
Manage ==
  /\ cleaner = "wait"
  /\ gc' = {stack[i] : i \in Len(stack) - minSize + 1 .. Len(stack)}
  /\ stack' = Resize(Resize(stack, maxSize), Len(stack) - minSize)
  /\ minSize' = Len(stack) - minSize
  /\ maxSize' = 0
  /\ cleaner' = "delete"
  /\ UNCHANGED <<used, heap>>

\* delete[], without the flag.
Collect ==
  /\ cleaner = "delete"
  /\ heap' = heap \ gc
  /\ gc' = {}
  /\ cleaner' = "wait"
  /\ UNCHANGED <<stack, minSize, maxSize, used>>

Next ==
  \/ Pop
  \/ \E b \in Buffers : New(b) \/ Push(b) \/ Delete(b)
  \/ Manage \/ Collect

Spec == Init /\ [][Next]_vars

\* The thread of the pool wakes up every ten seconds.
FairSpec == Spec /\ WF_vars(Manage) /\ WF_vars(Collect)

-----------------------------------------------------------------------------
(* Correctness *)

\* Every variable has its type; no NULL is ever in the stack.
TypeOK ==
  /\ stack \in Seq(Buffers)
  /\ minSize \in Nat /\ maxSize \in Nat
  /\ used \subseteq Buffers /\ heap \subseteq Buffers /\ gc \subseteq Buffers
  /\ cleaner \in {"wait", "delete"}

\* The marks frame the stack, so that the two resize() of manage() neither cut
\* live buffers off nor pad the stack with NULL (BufferPool.cpp:43-49).
MarksFrameStack ==
  /\ minSize <= Len(stack)
  /\ Len(stack) <= maxSize \/ Len(stack) <= minSize

\* A buffer has one owner: the program, the stack or the cleaner, never two, and
\* it is never twice on the stack; no buffer is given which has been deleted.
OneOwner ==
  /\ \A i, j \in 1 .. Len(stack) : stack[i] = stack[j] => i = j
  /\ used \cap Members(stack) = {}
  /\ used \cap gc = {}
  /\ gc \cap Members(stack) = {}

\* No memory is lost, or used after its deletion: what the heap has given is
\* with one of the owners.
NothingLeaks == heap = used \cup Members(stack) \cup gc

\* Both: all the memory of the heap is somewhere, once.
MemoryIsOwned == OneOwner /\ NothingLeaks

\* Once the program is at rest the pool gives all its memory back, for good:
\* each cleaning lowers the marks to what the next one takes.
IdlePoolEmpties ==
  <>[][UNCHANGED used]_vars => <>[](stack = <<>> /\ heap = used)
=============================================================================
