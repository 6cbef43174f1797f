---------------------------- MODULE MemoryProofs ----------------------------
(***************************************************************************)
(* Theorems about the memory: BufferPool, for any set of buffers, and      *)
(* Buffer, Packet and Parameters, which MCParts runs, for any sizes,       *)
(* packets, keys and values.                                               *)
(*                                                                         *)
(* The four invariants of BufferPool need each other: manage() only keeps  *)
(* the memory in order because the two marks frame the stack, which makes  *)
(* its two resize() a truncation.  Those of the other three say where the  *)
(* memory is (a chunk and its offset, an area and its box) besides what is *)
(* in it.  A least element, of the capacities which fit, comes from the    *)
(* well-founded order of Nat.                                              *)
(***************************************************************************)
EXTENDS BufferPool, Buffer, Packet, Parameters, SequenceTheorems, WellFoundedInduction, TLAPS

-----------------------------------------------------------------------------
(* BufferPool: the stack, its two marks and who has each buffer.           *)

IInv ==
  /\ TypeOK /\ MarksFrameStack /\ OneOwner /\ NothingLeaks
  /\ cleaner = "wait" => gc = {}

\* What the two resize() of manage() leave: the bottom of the stack.
LEMMA ResizeDown ==
  ASSUME NEW S, NEW s \in Seq(S), NEW m \in Nat, NEW n \in 0 .. Len(s),
         n <= m
  PROVE  /\ Resize(Resize(s, m), n) \in Seq(S)
         /\ Len(Resize(Resize(s, m), n)) = n
         /\ \A i \in 1 .. n : Resize(Resize(s, m), n)[i] = s[i]
<1> DEFINE t == Resize(s, m)
           u == Resize(t, n)
<1>1. Len(s) \in Nat /\ \A i \in 1 .. Len(s) : s[i] \in S
  OBVIOUS
<1>2. Len(t) = m /\ \A i \in 1 .. n : t[i] = s[i]
  BY <1>1 DEF Resize
<1>3. \A i \in 1 .. n : u[i] = s[i]
  BY <1>1, <1>2 DEF Resize
<1>4. u = [i \in 1 .. n |-> s[i]]
  BY <1>1, <1>2 DEF Resize
<1>5. u \in [1 .. n -> S]
  BY <1>1, <1>4
<1> QED
  BY <1>1, <1>3, <1>4, <1>5

\* The stack that manage() leaves, and the buffers it takes off.
LEMMA ManageSplits ==
  ASSUME IInv, Manage
  PROVE  /\ Len(stack) - minSize \in 0 .. Len(stack)
         /\ stack' \in Seq(Buffers)
         /\ Len(stack') = Len(stack) - minSize
         /\ \A i \in 1 .. Len(stack') : stack'[i] = stack[i]
<1> DEFINE n == Len(stack) - minSize
<1>1. n \in 0 .. Len(stack) /\ maxSize \in Nat /\ n <= maxSize
  BY DEF IInv, TypeOK, MarksFrameStack
<1>2. stack \in Seq(Buffers) /\ stack' = Resize(Resize(stack, maxSize), n)
  BY DEF IInv, TypeOK, Manage
<1> HIDE DEF n
<1>3. stack' \in Seq(Buffers) /\ Len(stack') = n /\ \A i \in 1 .. n : stack'[i] = stack[i]
  BY <1>1, <1>2, ResizeDown
<1> QED
  BY <1>1, <1>3 DEF n

\* The pool begins without a buffer.
LEMMA IInvInit == Init => IInv
BY DEF Init, IInv, TypeOK, MarksFrameStack, OneOwner, NothingLeaks, Members

\* What a pop leaves of the stack.
LEMMA Front ==
  ASSUME NEW S, NEW s \in Seq(S), s # <<>>
  PROVE  /\ SubSeq(s, 1, Len(s) - 1) \in Seq(S)
         /\ Len(SubSeq(s, 1, Len(s) - 1)) = Len(s) - 1
         /\ \A i \in 1 .. Len(s) - 1 : SubSeq(s, 1, Len(s) - 1)[i] = s[i]
<1> DEFINE m == Len(s) - 1
<1>1. m \in Int /\ \A i \in 1 .. m : s[i] \in S
  OBVIOUS
<1>2. m >= 0
  OBVIOUS
<1> HIDE DEF m
<1>3. /\ SubSeq(s, 1, m) \in Seq(S)
      /\ Len(SubSeq(s, 1, m)) = IF 1 <= m THEN m - 1 + 1 ELSE 0
      /\ \A i \in 1 .. m - 1 + 1 : SubSeq(s, 1, m)[i] = s[1 + i - 1]
  BY <1>1, SubSeqProperties
<1>4. \A i \in 1 .. m : SubSeq(s, 1, m)[i] = s[i]
  BY <1>1, <1>3
<1>5. SubSeq(s, 1, m) \in Seq(S) /\ Len(SubSeq(s, 1, m)) = m
  BY <1>1, <1>2, <1>3
<1> QED
  BY <1>4, <1>5 DEF m

\* alloc() from the stack (BufferPool.cpp:25-33).
LEMMA IInvPop == ASSUME IInv, Pop PROVE IInv'
<1> DEFINE n == Len(stack)
<1>1. stack \in Seq(Buffers) /\ stack # <<>> /\ stack' = SubSeq(stack, 1, n - 1)
  BY DEF IInv, TypeOK, Pop
<1>2. /\ n \in Nat \ {0} /\ stack[n] \in Buffers
      /\ stack' \in Seq(Buffers) /\ Len(stack') = n - 1
      /\ \A i \in 1 .. n - 1 : stack'[i] = stack[i]
  BY <1>1, Front
<1>3. DOMAIN stack = 1 .. n /\ DOMAIN stack' = 1 .. n - 1
  BY <1>1, <1>2
<1>4. Members(stack) = Members(stack)' \cup {stack[n]} /\ stack[n] \notin Members(stack)'
  BY <1>2, <1>3 DEF Members, IInv, OneOwner
<1>5. TypeOK'
  BY <1>2 DEF IInv, TypeOK, Pop
<1>6. MarksFrameStack'
  BY <1>2 DEF IInv, TypeOK, MarksFrameStack, Pop
<1>7. OneOwner'
  BY <1>2, <1>4 DEF IInv, OneOwner, NothingLeaks, Pop
<1>8. NothingLeaks'
  BY <1>4 DEF IInv, NothingLeaks, Pop
<1> QED
  BY <1>5, <1>6, <1>7, <1>8 DEF IInv, Pop

\* free() to the stack (BufferPool.cpp:34-38).
LEMMA IInvPush == ASSUME IInv, NEW b \in Buffers, Push(b) PROVE IInv'
<1> USE DEF IInv, Push
<1> DEFINE n == Len(stack)
<1>1. /\ n \in Nat
      /\ stack' \in Seq(Buffers) /\ Len(stack') = n + 1
      /\ \A i \in 1 .. n : stack'[i] = stack[i]
      /\ stack'[n + 1] = b
  BY DEF TypeOK
<1>2. /\ DOMAIN stack = 1 .. n /\ DOMAIN stack' = 1 .. n + 1
  BY <1>1 DEF TypeOK
<1>3. Members(stack)' = Members(stack) \cup {b} /\ b \notin Members(stack)
  BY <1>1, <1>2 DEF Members, OneOwner
<1>4. TypeOK'
  BY <1>1 DEF TypeOK
<1>5. MarksFrameStack'
  BY <1>1 DEF TypeOK, MarksFrameStack
<1>6. OneOwner'
  <2>1. \A i \in 1 .. n : stack[i] # b
    BY <1>2, <1>3 DEF Members
  <2> QED
    BY <1>1, <1>3, <2>1 DEF OneOwner
<1>7. NothingLeaks'
  BY <1>3 DEF NothingLeaks
<1> QED
  BY <1>4, <1>5, <1>6, <1>7

\* alloc() and free() which go to the heap (Buffer.cpp:46-47 and 58-59).
LEMMA IInvHeap ==
  ASSUME IInv, NEW b \in Buffers, New(b) \/ Delete(b)
  PROVE  IInv'
<1>1. Members(stack)' = Members(stack)
  BY DEF New, Delete, Members
<1>2. Members(stack) \subseteq heap
  BY DEF IInv, NothingLeaks
<1> QED
  BY <1>1, <1>2 DEF IInv, TypeOK, MarksFrameStack, OneOwner, NothingLeaks, New, Delete

\* The cleaning, under the flag (BufferPool.cpp:39-50).
LEMMA IInvManage == ASSUME IInv, Manage PROVE IInv'
<1> DEFINE n == Len(stack)
           k == Len(stack) - minSize
<1>1. /\ n \in Nat /\ minSize \in Nat /\ k \in 0 .. n
      /\ stack' \in Seq(Buffers) /\ Len(stack') = k
      /\ \A i \in 1 .. k : stack'[i] = stack[i]
      /\ \A i \in 1 .. n : stack[i] \in Buffers
  BY ManageSplits DEF IInv, TypeOK
<1>2. DOMAIN stack = 1 .. n /\ DOMAIN stack' = 1 .. k
  BY <1>1 DEF IInv, TypeOK
<1>3. gc' = {stack[i] : i \in k + 1 .. n}
  BY DEF Manage
<1>4. TypeOK'
  BY <1>1, <1>3 DEF IInv, TypeOK, Manage
<1>5. MarksFrameStack'
  BY <1>1 DEF MarksFrameStack, Manage
<1>6. Members(stack)' = {stack[i] : i \in 1 .. k}
  BY <1>1, <1>2 DEF Members
<1>7. Members(stack) = {stack[i] : i \in 1 .. n}
  BY <1>2 DEF Members
<1>8. Members(stack) = Members(stack)' \cup gc'
  <2>1. 1 .. n = (1 .. k) \cup (k + 1 .. n)
    BY <1>1
  <2> QED
    BY <1>3, <1>6, <1>7, <2>1
<1>9. gc' \cap Members(stack)' = {}
  BY <1>1, <1>3, <1>6 DEF IInv, OneOwner
<1>10. OneOwner'
  <2>1. \A i, j \in 1 .. k : stack'[i] = stack'[j] => i = j
    BY <1>1 DEF IInv, OneOwner
  <2>2. used' = used /\ used \cap Members(stack) = {}
    BY DEF IInv, OneOwner, Manage
  <2> QED
    BY <1>1, <1>8, <1>9, <2>1, <2>2 DEF OneOwner
<1>11. NothingLeaks'
  BY <1>8 DEF IInv, NothingLeaks, Manage
<1> QED
  BY <1>4, <1>5, <1>10, <1>11 DEF IInv, Manage

\* The deletion of what the cleaning has taken (BufferPool.cpp:63-64).
LEMMA IInvCollect == ASSUME IInv, Collect PROVE IInv'
<1>1. Members(stack)' = Members(stack)
  BY DEF Collect, Members
<1> QED
  BY <1>1 DEF IInv, TypeOK, MarksFrameStack, OneOwner, NothingLeaks, Collect

\* IInv holds in every state, whatever alloc(), free() and the cleaner do, in any order.
THEOREM Inductive == Spec => []IInv
<1>1. IInv /\ [Next]_vars => IInv'
  <2> SUFFICES ASSUME IInv, [Next]_vars PROVE IInv'
    OBVIOUS
  <2>1. CASE UNCHANGED vars
    BY <2>1 DEF vars, IInv, TypeOK, MarksFrameStack, OneOwner, NothingLeaks, Members
  <2> QED
    BY <2>1, IInvPop, IInvPush, IInvHeap, IInvManage, IInvCollect DEF Next
<1> QED
  BY IInvInit, <1>1, PTL DEF Spec

\* Every variable keeps its type: the stack never holds the NULL with which
\* std::vector::resize would pad it.
THEOREM TypeCorrect == Spec => []TypeOK
<1>1. IInv => TypeOK
  BY DEF IInv
<1> QED
  BY Inductive, <1>1, PTL

\* The marks of the bucket frame its stack.
THEOREM MarksFrame == Spec => []MarksFrameStack
<1>1. IInv => MarksFrameStack
  BY DEF IInv
<1> QED
  BY Inductive, <1>1, PTL

\* A buffer has one owner at a time, and what the heap has given is with the program, in
\* the stack or about to be deleted.
THEOREM Ownership == Spec => []MemoryIsOwned
<1>1. IInv => MemoryIsOwned
  BY DEF IInv, MemoryIsOwned
<1> QED
  BY Inductive, <1>1, PTL

-----------------------------------------------------------------------------
(* Buffer: a chunk of memory and the bytes that the program expects in it. *)

\* The content from the offset of a chunk is the one expected.
Holds(chunk, offset, exp, n) ==
  \A i \in 1 .. n : exp[i] # Unwritten => chunk[offset + i] = exp[i]

\* The lengths of a chunk: none, or one that Alloc may give.
Allocated(n) == n = 0 \/ n >= MinCapacity

\* What resize() leaves is a chunk which it knows the size of.
IsChunk(chunk, offset, cap) ==
  /\ chunk \in Seq(Nat) /\ offset \in Nat /\ cap \in Nat /\ cap + offset = Len(chunk)
  /\ Allocated(Len(chunk))

\* The pool is told of no more than there is, and of all of it if that is not a capacity.
Known(given) == \A f \in given : f[1] <= f[2] /\ (f[1] < MinCapacity => Clipped(f))

BufferInv ==
  /\ IsChunk(memory, skipped, capacity)
  /\ size \in Nat /\ size <= capacity
  /\ expected \in Seq(Nat) /\ Len(expected) = size
  /\ Holds(memory, skipped, expected, size)
  /\ writes \in Nat /\ Known(freed)

\* A set of numbers has a least one.
LEMMA Least ==
  ASSUME NEW T \in SUBSET Nat, T # {}
  PROVE  \E x \in T : \A y \in T : x <= y
<1> DEFINE R == OpToRel(<, Nat)
<1>1. IsWellFoundedOn(R, Nat)
  BY NatLessThanWellFounded
<1>2. \A x, y \in Nat : <<y, x>> \in R <=> y < x
  BY DEF OpToRel
<1> HIDE DEF R
<1>3. PICK x \in T : \A y \in T : ~ (<<y, x>> \in R)
  BY <1>1, WFMin
<1>4. \A y \in T : x \in Nat /\ y \in Nat
  OBVIOUS
<1>5. \A y \in T : ~ (y < x)
  BY <1>2, <1>3, <1>4
<1> QED BY <1>4, <1>5

\* Alloc gives enough.
LEMMA CapacityIs ==
  ASSUME NEW n \in 0 .. MaxSize
  PROVE  Capacity(n) \in Nat /\ n <= Capacity(n) /\ Allocated(Capacity(n))
<1> DEFINE T == {c \in Powers : c >= n /\ c >= MinCapacity}
<1>1. T \in SUBSET Nat /\ T # {}
  BY BufferAssumption
<1>2. \A c \in T : c >= n /\ c >= MinCapacity
  OBVIOUS
<1>3. Capacity(n) = IF n = 0 THEN 0 ELSE Min(T)
  BY DEF Capacity
<1> HIDE DEF T
<1>4. \E x \in T : \A y \in T : x <= y
  BY <1>1, Least
<1>5. Min(T) \in T
  BY <1>4 DEF Min
<1>6. n \in Nat
  BY BufferAssumption
<1>7. Min(T) \in Nat /\ Min(T) >= n /\ Min(T) >= MinCapacity
  BY <1>1, <1>2, <1>5
<1>8. CASE n = 0
  BY <1>3, <1>6, <1>8 DEF Allocated
<1>9. CASE n # 0
  BY <1>3, <1>6, <1>7, <1>9 DEF Allocated
<1> QED BY <1>8, <1>9

\* A chunk which has lost nothing, or a part of it, may be given back.
LEMMA GivenIsKnown ==
  ASSUME NEW c \in Nat, NEW n \in Nat, c <= n, Allocated(n)
  PROVE  Known(Given(c, n))
<1> SUFFICES ASSUME NEW f \in Given(c, n)
             PROVE  f[1] <= f[2] /\ (f[1] < MinCapacity => f[1] < f[2])
  BY DEF Known, Clipped
<1>1. f = <<c, n>> /\ c \in Powers
  BY DEF Given
<1>2. c # 0
  BY <1>1, BufferAssumption
<1>3. MinCapacity \in Nat
  BY BufferAssumption
<1>4. c < MinCapacity => c < n
  BY <1>2, <1>3 DEF Allocated
<1> QED BY <1>1, <1>4

LEMMA GarbageIs ==
  ASSUME NEW n \in Nat
  PROVE  Garbage(n) \in Seq(Nat) /\ Len(Garbage(n)) = n
         /\ \A i \in 1 .. n : Garbage(n)[i] = Unwritten
BY DEF Garbage, Unwritten

LEMMA OverwriteIs ==
  ASSUME NEW chunk \in Seq(Nat), NEW start \in Nat, NEW data \in Seq(Nat),
         start + Len(data) <= Len(chunk)
  PROVE  LET o == Overwritten(chunk, start, data) IN
           /\ o \in Seq(Nat) /\ Len(o) = Len(chunk)
           /\ \A i \in 1 .. Len(data) : o[start + i] = data[i]
           /\ \A i \in 1 .. start : o[i] = chunk[i]
<1> DEFINE o == Overwritten(chunk, start, data)
           val(i) == IF i > start /\ i <= start + Len(data) THEN data[i - start] ELSE chunk[i]
<1>1. o = [i \in 1 .. Len(chunk) |-> val(i)]
  BY DEF Overwritten
<1>2. Len(chunk) \in Nat /\ Len(data) \in Nat
  OBVIOUS
<1>3. \A i \in 1 .. Len(chunk) : val(i) \in Nat
  <2> SUFFICES ASSUME NEW i \in 1 .. Len(chunk) PROVE val(i) \in Nat
    OBVIOUS
  <2>1. chunk[i] \in Nat
    OBVIOUS
  <2>2. i > start /\ i <= start + Len(data) => data[i - start] \in Nat
    BY <1>2
  <2> QED BY <2>1, <2>2
<1>4. \A i \in 1 .. Len(data) : start + i \in 1 .. Len(chunk) /\ val(start + i) = data[i]
  BY <1>2
<1>5. \A i \in 1 .. start : i \in 1 .. Len(chunk) /\ val(i) = chunk[i]
  BY <1>2
<1> HIDE DEF val, o
<1>6. o \in Seq(Nat) /\ Len(o) = Len(chunk)
  BY <1>1, <1>2, <1>3
<1> QED BY <1>1, <1>4, <1>5, <1>6 DEF o

LEMMA ContentIs ==
  ASSUME BufferInv
  PROVE  /\ Content \in Seq(Nat) /\ Len(Content) = size
         /\ \A i \in 1 .. size : Content[i] = memory[skipped + i]
<1>1. /\ memory \in Seq(Nat) /\ skipped \in Nat /\ size \in Nat /\ Len(memory) \in Nat
      /\ skipped + size <= Len(memory)
  BY DEF BufferInv, IsChunk
<1> DEFINE a == skipped + 1
           b == skipped + size
<1>2. a \in Int /\ b \in Int /\ \A i \in a .. b : memory[i] \in Nat
  BY <1>1
<1>3. /\ b - a + 1 = size /\ (IF a <= b THEN b - a + 1 ELSE 0) = size
      /\ \A i \in 1 .. size : a + i - 1 = skipped + i
  BY <1>1
<1> HIDE DEF a, b
<1>4. /\ SubSeq(memory, a, b) \in Seq(Nat)
      /\ Len(SubSeq(memory, a, b)) = IF a <= b THEN b - a + 1 ELSE 0
      /\ \A i \in 1 .. b - a + 1 : SubSeq(memory, a, b)[i] = memory[a + i - 1]
  BY <1>2, SubSeqProperties
<1>5. Content = SubSeq(memory, a, b)
  BY DEF Content, a, b
<1> QED BY <1>3, <1>4, <1>5

\* resize() leaves a chunk which is large enough, with its content if it is to be kept.
LEMMA ResizedIs ==
  ASSUME BufferInv, NEW n \in 0 .. MaxSize, NEW preserve \in BOOLEAN
  PROVE  LET r == Resized(n, preserve) IN
           /\ IsChunk(r.memory, r.skipped, r.capacity) /\ n <= r.capacity /\ Known(r.freed)
           /\ preserve => \A i \in 1 .. size : i <= n => r.memory[r.skipped + i] = memory[skipped + i]
<1> DEFINE whole == capacity + skipped
           r == Resized(n, preserve)
<1>1. /\ memory \in Seq(Nat) /\ skipped \in Nat /\ capacity \in Nat /\ size \in Nat
      /\ size <= capacity /\ whole = Len(memory) /\ n \in Nat /\ Allocated(Len(memory))
  BY DEF BufferInv, IsChunk
<1>2. /\ Content \in Seq(Nat) /\ Len(Content) = size
      /\ \A i \in 1 .. size : Content[i] = memory[skipped + i]
  BY ContentIs
<1>3. CASE n <= capacity
  <2>1. r = [memory |-> memory, skipped |-> IF preserve THEN skipped ELSE 0,
             capacity |-> IF preserve THEN capacity ELSE whole, freed |-> {}]
    BY <1>1, <1>3 DEF Resized
  <2> HIDE DEF r
  <2> QED BY <1>1, <1>3, <2>1 DEF IsChunk, Known, r
<1>4. CASE n > capacity /\ n <= whole
  <2> DEFINE moved == Overwritten(memory, 0, Content)
  <2>1. r = [memory |-> IF preserve THEN moved ELSE memory,
             skipped |-> 0, capacity |-> whole, freed |-> {}]
    BY <1>1, <1>4 DEF Resized
  <2>2. /\ moved \in Seq(Nat) /\ Len(moved) = Len(memory)
        /\ \A i \in 1 .. size : moved[0 + i] = Content[i]
    <3>1. 0 \in Nat /\ 0 + Len(Content) <= Len(memory)
      BY <1>1, <1>2, <1>4
    <3>2. memory \in Seq(Nat) /\ Content \in Seq(Nat) /\ Len(Content) = size
      BY <1>1, <1>2
    <3> QED BY ONLY <3>1, <3>2, OverwriteIs
  <2> HIDE DEF r, moved
  <2>3. r.skipped = 0 /\ r.capacity = whole /\ r.freed = {}
        /\ r.memory = IF preserve THEN moved ELSE memory
    BY <2>1
  <2>4. IsChunk(r.memory, 0, whole)
    <3>1. r.memory \in Seq(Nat) /\ Len(r.memory) = Len(memory)
      BY <1>1, <2>2, <2>3
    <3>2. whole \in Nat /\ whole + 0 = Len(memory)
      BY <1>1
    <3>3. Allocated(Len(r.memory))
      BY <1>1, <3>1
    <3> QED BY ONLY <3>1, <3>2, <3>3 DEF IsChunk
  <2>5. preserve => \A i \in 1 .. size : r.memory[0 + i] = memory[skipped + i]
    BY <1>2, <2>2, <2>3
  <2> QED BY <1>4, <2>3, <2>4, <2>5 DEF Known, r
<1>5. CASE n > whole
  <2> DEFINE c == Capacity(n)
             moved == Overwritten(Garbage(c), 0, Content)
  <2>1. r = [memory |-> IF preserve THEN moved ELSE Garbage(c),
             skipped |-> 0, capacity |-> c, freed |-> Given(whole, Len(memory))]
    BY <1>1, <1>5 DEF Resized
  <2>2. c \in Nat /\ n <= c /\ Allocated(c)
    BY CapacityIs
  <2> HIDE DEF c
  <2>3. Garbage(c) \in Seq(Nat) /\ Len(Garbage(c)) = c
    BY <2>2, GarbageIs
  <2>4. /\ moved \in Seq(Nat) /\ Len(moved) = c
        /\ \A i \in 1 .. size : moved[0 + i] = Content[i]
    <3>1. 0 + size <= c
      BY <1>1, <1>5, <2>2
    <3> DEFINE g == Garbage(c)
    <3>2. g \in Seq(Nat) /\ Len(g) = c /\ 0 \in Nat
      BY <2>3
    <3>3. Content \in Seq(Nat) /\ Len(Content) = size
      BY <1>2
    <3> HIDE DEF g
    <3> DEFINE o == Overwritten(g, 0, Content)
    <3>4. /\ o \in Seq(Nat) /\ Len(o) = Len(g)
          /\ \A i \in 1 .. Len(Content) : o[0 + i] = Content[i]
      BY ONLY <3>1, <3>2, <3>3, OverwriteIs
    <3> QED BY <3>2, <3>3, <3>4 DEF g
  <2> HIDE DEF r, moved
  <2>5. r.skipped = 0 /\ r.capacity = c /\ r.freed = Given(whole, Len(memory))
        /\ r.memory = IF preserve THEN moved ELSE Garbage(c)
    BY <2>1
  <2>6. IsChunk(r.memory, 0, c)
    BY <2>2, <2>3, <2>4, <2>5 DEF IsChunk
  <2>7. preserve => \A i \in 1 .. size : r.memory[0 + i] = memory[skipped + i]
    BY <1>2, <2>4, <2>5
  <2>8. Known(r.freed)
    <3>1. whole \in Nat /\ Len(memory) \in Nat /\ whole <= Len(memory) /\ Allocated(Len(memory))
      BY <1>1
    <3>2. Known(Given(whole, Len(memory)))
      BY ONLY <3>1, GivenIsKnown
    <3> QED BY <2>5, <3>2
  <2> QED BY <2>2, <2>5, <2>6, <2>7, <2>8 DEF r
<1> QED BY <1>1, <1>3, <1>4, <1>5

LEMMA BufferStarts == ASSUME BufferInit PROVE BufferInv
<1>1. PICK n \in {0, 1} : Fresh(n)
  BY DEF BufferInit
<1>2. n \in 0 .. MaxSize
  BY BufferAssumption
<1>3. Capacity(n) \in Nat /\ n <= Capacity(n) /\ Allocated(Capacity(n))
  BY <1>2, CapacityIs
<1>4. /\ capacity = Capacity(n) /\ memory = Garbage(Capacity(n))
      /\ skipped = 0 /\ size = n /\ expected = Garbage(n) /\ freed = {} /\ writes = 0
  BY <1>1 DEF Fresh, BufferInit
<1>5. IsChunk(memory, skipped, capacity)
  BY <1>3, <1>4, GarbageIs DEF IsChunk
<1>6. expected \in Seq(Nat) /\ Len(expected) = size /\ Holds(memory, skipped, expected, size)
  BY <1>4, GarbageIs DEF Holds
<1>7. Known(freed) /\ size <= capacity /\ size \in Nat /\ writes \in Nat
  BY <1>3, <1>4 DEF Known
<1> QED BY <1>5, <1>6, <1>7 DEF BufferInv

LEMMA BufferResizes ==
  ASSUME BufferInv, NEW n \in 0 .. MaxSize, NEW preserve \in BOOLEAN,
         ResizeTo(n, preserve)
  PROVE  BufferInv'
<1> DEFINE r == Resized(n, preserve)
<1>1. /\ memory' = r.memory /\ skipped' = r.skipped /\ capacity' = r.capacity
      /\ freed' = r.freed /\ size' = n /\ writes' = writes
      /\ expected' = IF preserve THEN Kept(n) ELSE Garbage(n)
  BY DEF ResizeTo, Adopts
<1>2. /\ IsChunk(r.memory, r.skipped, r.capacity) /\ n <= r.capacity /\ Known(r.freed)
      /\ preserve => \A i \in 1 .. size : i <= n => r.memory[r.skipped + i] = memory[skipped + i]
  BY ResizedIs
<1> HIDE DEF r
<1>3. n \in Nat /\ size \in Nat
  BY DEF BufferInv
<1>4. CASE preserve
  <2> DEFINE kept == [i \in 1 .. n |-> IF i <= size THEN expected[i] ELSE Unwritten]
  <2>1. expected' = kept
    BY <1>1, <1>4 DEF Kept
  <2>2. \A i \in 1 .. n : kept[i] = IF i <= size THEN expected[i] ELSE Unwritten
    OBVIOUS
  <2>3. \A i \in 1 .. n : i <= size => i \in 1 .. size /\ expected[i] \in Nat
    BY <1>3 DEF BufferInv
  <2>4. kept \in Seq(Nat) /\ Len(kept) = n
    BY <1>3, <2>3 DEF Unwritten
  <2> HIDE DEF kept
  <2>5. \A i \in 1 .. n : kept[i] # Unwritten => r.memory[r.skipped + i] = kept[i]
    BY <1>2, <1>4, <2>2, <2>3 DEF BufferInv, Holds
  <2>6. Holds(memory, skipped, expected, size)'
    BY <1>1, <2>1, <2>5 DEF Holds
  <2> QED BY <1>1, <1>2, <1>3, <2>1, <2>4, <2>6 DEF BufferInv
<1>5. CASE ~preserve
  <2>1. expected' = Garbage(n)
    BY <1>1, <1>5
  <2>2. /\ Garbage(n) \in Seq(Nat) /\ Len(Garbage(n)) = n
        /\ \A i \in 1 .. n : Garbage(n)[i] = Unwritten
    BY <1>3, GarbageIs
  <2>3. Holds(memory, skipped, expected, size)'
    BY <1>1, <2>1, <2>2 DEF Holds
  <2> QED BY <1>1, <1>2, <1>3, <2>1, <2>2, <2>3 DEF BufferInv
<1> QED BY <1>4, <1>5

LEMMA BufferAppends ==
  ASSUME BufferInv, NEW n \in 1 .. 2, AppendBytes(n)
  PROVE  BufferInv'
<1> DEFINE data == [i \in 1 .. n |-> writes + 1]
           r == Resized(size + n, TRUE)
<1>1. /\ size + n <= MaxSize /\ writes' = writes + 1 /\ data # <<>>
      /\ memory' = Overwritten(r.memory, r.skipped + size, data)
      /\ skipped' = r.skipped /\ capacity' = r.capacity /\ freed' = r.freed
      /\ size' = size + n /\ expected' = expected \o data
  <2>1. data # <<>>
    OBVIOUS
  <2> QED BY <2>1 DEF AppendBytes, Adopts
<1>2. size \in Nat /\ n \in Nat /\ writes \in Nat /\ size + n \in 0 .. MaxSize
  BY <1>1, BufferAssumption DEF BufferInv
<1>3. /\ IsChunk(r.memory, r.skipped, r.capacity) /\ size + n <= r.capacity /\ Known(r.freed)
      /\ \A i \in 1 .. size : i <= size + n => r.memory[r.skipped + i] = memory[skipped + i]
  BY <1>2, ResizedIs
<1>4. data \in Seq(Nat) /\ Len(data) = n /\ \A i \in 1 .. n : data[i] = writes + 1
  BY <1>2
<1> HIDE DEF r, data
<1> DEFINE all == Overwritten(r.memory, r.skipped + size, data)
<1>5. /\ all \in Seq(Nat) /\ Len(all) = Len(r.memory)
      /\ \A i \in 1 .. n : all[r.skipped + size + i] = data[i]
      /\ \A i \in 1 .. r.skipped + size : all[i] = r.memory[i]
  <2> DEFINE m == r.memory
             s == r.skipped + size
             o == Overwritten(m, s, data)
  <2>1. m \in Seq(Nat) /\ s \in Nat /\ s + Len(data) <= Len(m)
    <3>1. /\ r.memory \in Seq(Nat) /\ r.skipped \in Nat /\ r.capacity \in Nat
          /\ r.capacity + r.skipped = Len(r.memory)
      BY <1>3 DEF IsChunk
    <3>2. size + Len(data) <= r.capacity
      BY <1>3, <1>4
    <3>3. r.skipped + size + Len(data) <= Len(r.memory)
      BY <1>2, <1>4, <3>1, <3>2
    <3> QED BY <1>2, <3>1, <3>3
  <2>2. data \in Seq(Nat) /\ Len(data) = n
    BY <1>4
  <2> HIDE DEF m, s
  <2>3. /\ o \in Seq(Nat) /\ Len(o) = Len(m)
        /\ \A i \in 1 .. n : o[s + i] = data[i]
        /\ \A i \in 1 .. s : o[i] = m[i]
    BY ONLY <2>1, <2>2, OverwriteIs
  <2> QED BY <2>3 DEF m, s
<1> HIDE DEF all
<1>6. IsChunk(memory', skipped', capacity')
  BY <1>1, <1>3, <1>5 DEF IsChunk, all
<1>7. /\ expected \in Seq(Nat) /\ Len(expected) = size
      /\ \A i \in 1 .. size : expected[i] # Unwritten => memory[skipped + i] = expected[i]
  BY DEF BufferInv, Holds
<1>8. /\ expected' \in Seq(Nat) /\ Len(expected') = size + n
      /\ \A i \in 1 .. size + n : expected'[i] = IF i <= size THEN expected[i] ELSE data[i - size]
  BY <1>1, <1>2, <1>4, <1>7
<1>9. ASSUME NEW i \in 1 .. size + n, expected'[i] # Unwritten
      PROVE  all[r.skipped + i] = expected'[i]
  <2>0. r.skipped \in Nat /\ i \in Nat
    BY <1>2, <1>3 DEF IsChunk
  <2>1. CASE i <= size
    <3>1. i \in 1 .. size /\ i <= size + n /\ r.skipped + i \in 1 .. r.skipped + size
      BY <1>2, <2>0, <2>1
    <3>2. all[r.skipped + i] = memory[skipped + i]
      BY <1>3, <1>5, <3>1
    <3> QED BY <1>7, <1>8, <1>9, <2>1, <3>1, <3>2
  <2>2. CASE i > size
    <3>1. i - size \in 1 .. n /\ r.skipped + size + (i - size) = r.skipped + i /\ ~(i <= size)
      BY <1>2, <2>0, <2>2
    <3>2. all[r.skipped + size + (i - size)] = data[i - size]
      BY <1>5, <3>1
    <3> QED BY <1>8, <3>1, <3>2
  <2> QED BY <1>2, <2>0, <2>1, <2>2
<1>10. Holds(memory, skipped, expected, size)'
  BY <1>1, <1>9 DEF Holds, all
<1> QED BY <1>1, <1>2, <1>3, <1>6, <1>8, <1>10 DEF BufferInv

LEMMA BufferClips ==
  ASSUME BufferInv, NEW n \in 1 .. MaxSize, Clip(n)
  PROVE  BufferInv'
<1>1. CASE n >= size
  <2> DEFINE r == Resized(0, FALSE)
  <2>1. /\ memory' = r.memory /\ skipped' = r.skipped /\ capacity' = r.capacity
        /\ freed' = r.freed /\ size' = 0 /\ writes' = writes /\ expected' = <<>>
    BY <1>1 DEF Clip, Adopts
  <2>2. IsChunk(r.memory, r.skipped, r.capacity) /\ Known(r.freed) /\ 0 <= r.capacity
    <3>1. 0 \in 0 .. MaxSize
      BY BufferAssumption
    <3> QED BY <3>1, ResizedIs
  <2> HIDE DEF r
  <2>3. Holds(memory, skipped, expected, size)'
    BY <2>1 DEF Holds
  <2> QED BY <2>1, <2>2, <2>3 DEF BufferInv
<1>2. CASE n < size
  <2>1. /\ skipped' = skipped + n /\ size' = size - n /\ capacity' = capacity - n
        /\ expected' = SubSeq(expected, n + 1, size) /\ UNCHANGED <<memory, freed, writes>>
    <3>1. ~ (n >= size)
      BY <1>2 DEF BufferInv
    <3> QED BY <3>1 DEF Clip
  <2>2. n \in Nat /\ size \in Nat /\ expected \in Seq(Nat) /\ Len(expected) = size
        /\ skipped \in Nat /\ capacity \in Nat /\ size <= capacity
    BY DEF BufferInv, IsChunk
  <2>3. /\ expected' \in Seq(Nat) /\ Len(expected') = size - n
        /\ \A i \in 1 .. size - n : expected'[i] = expected[n + i]
    <3> DEFINE a == n + 1
    <3>1. /\ a \in Int /\ size \in Int /\ \A i \in a .. size : expected[i] \in Nat
          /\ size - a + 1 = size - n /\ (IF a <= size THEN size - a + 1 ELSE 0) = size - n
          /\ \A i \in 1 .. size - n : a + i - 1 = n + i
      BY <1>2, <2>2
    <3> HIDE DEF a
    <3>2. /\ SubSeq(expected, a, size) \in Seq(Nat)
          /\ Len(SubSeq(expected, a, size)) = IF a <= size THEN size - a + 1 ELSE 0
          /\ \A i \in 1 .. size - a + 1 : SubSeq(expected, a, size)[i] = expected[a + i - 1]
      BY <3>1, SubSeqProperties
    <3>3. expected' = SubSeq(expected, a, size)
      BY <2>1 DEF a
    <3> QED BY <3>1, <3>2, <3>3
  <2>4. Holds(memory, skipped, expected, size)'
    <3> SUFFICES ASSUME NEW i \in 1 .. size - n, expected'[i] # Unwritten
                 PROVE  memory[skipped + n + i] = expected'[i]
      BY <2>1 DEF Holds
    <3>1. n + i \in 1 .. size /\ skipped + (n + i) = skipped + n + i
      BY <1>2, <2>2
    <3>2. expected'[i] = expected[n + i]
      BY <2>3
    <3> QED BY <3>1, <3>2 DEF BufferInv, Holds
  <2>5. IsChunk(memory, skipped, capacity)'
    <3>1. /\ skipped + n \in Nat /\ capacity - n \in Nat
          /\ capacity - n + (skipped + n) = capacity + skipped
      BY <1>2, <2>2
    <3>2. memory \in Seq(Nat) /\ capacity + skipped = Len(memory) /\ Allocated(Len(memory))
      BY DEF BufferInv, IsChunk
    <3> QED BY <2>1, <3>1, <3>2 DEF IsChunk
  <2>6. size' \in Nat /\ size' <= capacity' /\ writes' \in Nat /\ Known(freed')
    BY <1>2, <2>1, <2>2 DEF BufferInv
  <2> QED BY <2>1, <2>3, <2>4, <2>5, <2>6 DEF BufferInv
<1>3. n >= size \/ n < size
  BY DEF BufferInv
<1> QED BY <1>1, <1>2, <1>3

LEMMA BufferRenews ==
  ASSUME BufferInv, NEW n \in {0, 3}, Renew(n)
  PROVE  BufferInv'
<1>1. n \in 0 .. MaxSize /\ n \in Nat
  BY BufferAssumption
<1>2. Capacity(n) \in Nat /\ n <= Capacity(n) /\ Allocated(Capacity(n))
  BY <1>1, CapacityIs
<1>3. /\ freed' = Given(capacity, Len(memory)) /\ capacity' = Capacity(n)
      /\ memory' = Garbage(Capacity(n)) /\ skipped' = 0 /\ size' = n
      /\ expected' = Garbage(n) /\ writes' = writes
  BY DEF Renew
<1>4. capacity \in Nat /\ Len(memory) \in Nat /\ capacity <= Len(memory) /\ Allocated(Len(memory))
  BY DEF BufferInv, IsChunk
<1>5. Known(freed')
  BY <1>3, <1>4, GivenIsKnown
<1>6. IsChunk(memory', skipped', capacity')
  BY <1>2, <1>3, GarbageIs DEF IsChunk
<1>7. expected' \in Seq(Nat) /\ Len(expected') = size' /\ Holds(memory, skipped, expected, size)'
  BY <1>1, <1>3, GarbageIs DEF Holds
<1> QED BY <1>1, <1>2, <1>3, <1>5, <1>6, <1>7 DEF BufferInv

\* A buffer always holds the bytes that the program has put in it, inside its chunk, and
\* never tells the pool of a chunk larger than it is, nor of one under the smallest capacity
\* unless it was clipped, whatever its size and its calls.
THEOREM BufferAlwaysSequence ==
  BufferInit /\ [][BufferNext]_bufferVars => []BufferIsSequence
<1>1. BufferInit => BufferInv
  BY BufferStarts
<1>2. BufferInv /\ [BufferNext]_bufferVars => BufferInv'
  <2> SUFFICES ASSUME BufferInv, [BufferNext]_bufferVars PROVE BufferInv'
    OBVIOUS
  <2>1. CASE UNCHANGED bufferVars
    BY <2>1 DEF bufferVars, BufferInv, IsChunk, Holds, Known
  <2>2. CASE BufferNext
    BY <2>2, BufferResizes, BufferAppends, BufferClips, BufferRenews DEF BufferNext
  <2> QED BY <2>1, <2>2
<1>3. BufferInv => BufferIsSequence
  <2> SUFFICES ASSUME BufferInv PROVE BufferIsSequence
    OBVIOUS
  <2>1. \A i \in 1 .. size : expected[i] # Unwritten => Content[i] = expected[i]
    BY ContentIs DEF BufferInv, Holds
  <2> QED BY <2>1 DEF BufferInv, IsChunk, Known, BufferIsSequence
<1> QED BY <1>1, <1>2, <1>3, PTL

-----------------------------------------------------------------------------
(* Packet: areas of memory, the boxes of buffers and those who point to    *)
(* them.                                                                   *)

Areas == [mem : {NoMemory, User, Static} \cup Nat, from : Nat, size : Nat]

\* The memory of which an area is a part.
Memory(a, buffers) ==
  IF a.mem \in {User, Static} THEN UserBytes ELSE IF a.mem = NoMemory THEN <<>> ELSE buffers[a.mem]

\* An area is inside memory which exists.
Fits(a, buffers) ==
  /\ a \in Areas /\ (a.mem \in Nat => a.mem \in DOMAIN buffers)
  /\ a.from + a.size <= Len(Memory(a, buffers))

PacketTypes ==
  /\ host \in [Packets -> Packets \cup {NoMemory, Static}] /\ ref \in [Packets -> BOOLEAN]
  /\ box \in [Packets -> Nat \cup {NoMemory}] /\ area \in [Packets -> Areas]
  /\ bytes \in Seq(Seq(Nat)) /\ lost \subseteq Packets
  /\ meant = [p \in Packets |-> meant[p]]

\* An owner has a box and is not lost; a reference has none.
Owned(p) ==
  /\ host[p] = p <=> box[p] # NoMemory
  /\ box[p] # NoMemory => box[p] \in DOMAIN bytes
  /\ ~ref[p] => host[p] \in {p, Static} /\ p \notin lost
  /\ ref[p] => host[p] # p

\* A packet which is not lost has its memory from where it points to.
Lives(p) ==
  p \notin lost =>
    /\ host[p] \in Packets => box[host[p]] # NoMemory /\ area[p].mem = box[host[p]]
    /\ host[p] = NoMemory => area[p].mem \in {User, NoMemory}
    /\ host[p] = Static => area[p].mem = Static
    /\ meant[p] = Part(area[p], bytes)

Sound(p) == Owned(p) /\ Lives(p) /\ Fits(area[p], bytes)

PacketInv == PacketTypes /\ \A p \in Packets : Sound(p)

\* The shared buffers are never changed: there are more of them.
Extends(buffers) ==
  /\ buffers \in Seq(Seq(Nat)) /\ \A i \in DOMAIN bytes : i \in DOMAIN buffers /\ buffers[i] = bytes[i]

LEMMA UserIs == UserBytes \in Seq(Nat) /\ Len(UserBytes) = 3
BY DEF UserBytes

LEMMA MemoryIs ==
  ASSUME NEW buffers \in Seq(Seq(Nat)), NEW a, Fits(a, buffers)
  PROVE  /\ a.from \in Nat /\ a.size \in Nat /\ a = [mem |-> a.mem, from |-> a.from, size |-> a.size]
         /\ Memory(a, buffers) \in Seq(Nat) /\ a.from + a.size <= Len(Memory(a, buffers))
<1>1. a \in Areas /\ (a.mem \in Nat => a.mem \in DOMAIN buffers)
      /\ a.from + a.size <= Len(Memory(a, buffers))
  BY DEF Fits
<1>2. a.mem \in {NoMemory, User, Static} \cup Nat /\ a.from \in Nat /\ a.size \in Nat
      /\ a = [mem |-> a.mem, from |-> a.from, size |-> a.size]
  BY <1>1 DEF Areas
<1>3. a.mem \in Nat => buffers[a.mem] \in Seq(Nat)
  BY <1>1
<1>4. <<>> \in Seq(Nat)
  OBVIOUS
<1>5. Memory(a, buffers) \in Seq(Nat)
  BY <1>2, <1>3, <1>4, UserIs DEF Memory
<1> QED BY <1>1, <1>2, <1>5

LEMMA MemoryKept ==
  ASSUME NEW buffers, Extends(buffers), NEW a, Fits(a, bytes)
  PROVE  Fits(a, buffers) /\ Part(a, buffers) = Part(a, bytes)
<1>1. a.mem \in {NoMemory, User, Static} \cup Nat
  BY DEF Fits, Areas
<1>2. a.mem \in Nat => a.mem \in DOMAIN buffers /\ buffers[a.mem] = bytes[a.mem]
  BY DEF Fits, Extends
<1>3. Memory(a, buffers) = Memory(a, bytes)
  BY <1>1, <1>2 DEF Memory
<1>4. Part(a, buffers) = SubSeq(Memory(a, buffers), a.from + 1, a.from + a.size)
  BY DEF Part, Memory
<1>5. Part(a, bytes) = SubSeq(Memory(a, bytes), a.from + 1, a.from + a.size)
  BY DEF Part, Memory
<1> QED BY <1>2, <1>3, <1>4, <1>5 DEF Fits

\* What a step leaves alone: a packet which does not change, and neither does what it
\* points to, or it is lost.
LEMMA Untouched ==
  ASSUME NEW p \in Packets, Sound(p), Extends(bytes'),
         host'[p] = host[p], ref'[p] = ref[p], box'[p] = box[p], area'[p] = area[p],
         meant'[p] = meant[p],
         p \in lost' => p \in lost \/ host[p] \in Packets \ {p},
         p \notin lost' => p \notin lost /\ (host[p] \in Packets => box'[host[p]] = box[host[p]])
  PROVE  Sound(p)'
<1>1. Fits(area[p], bytes') /\ Part(area[p], bytes') = Part(area[p], bytes)
  BY MemoryKept DEF Sound
<1>2. \A i \in DOMAIN bytes : i \in DOMAIN bytes'
  BY DEF Extends
<1>3. Owned(p)'
  <2>1. Owned(p)
    BY DEF Sound
  <2>2. box[p] # NoMemory => box[p] \in DOMAIN bytes'
    BY <1>2, <2>1 DEF Owned
  <2>3. ~ref[p] => p \notin lost'
    BY <2>1, PacketAssumption DEF Owned
  <2> QED BY <2>1, <2>2, <2>3 DEF Owned
<1>4. Lives(p)'
  BY <1>1 DEF Sound, Lives
<1> QED BY <1>1, <1>3, <1>4 DEF Sound

\* What a packet becomes is sound if the box and the area go together.
Matches(p, h, r, b, a, buffers) ==
  /\ h \in Packets \cup {NoMemory, Static} /\ r \in BOOLEAN /\ b \in DOMAIN buffers \cup {NoMemory}
  /\ Fits(a, buffers)
  /\ h = p <=> b # NoMemory
  /\ ~r => h \in {p, Static}
  /\ r => h # p
  /\ h = p => a.mem = b
  /\ h \in Packets \ {p} => box[h] # NoMemory /\ a.mem = box[h]
  /\ h = NoMemory => a.mem \in {User, NoMemory}
  /\ h = Static => a.mem = Static

LEMMA BecomesSound ==
  ASSUME PacketInv, NEW p \in Packets, NEW h, NEW r, NEW b, NEW a,
         Extends(bytes'), Becomes(p, h, r, b, a), Matches(p, h, r, b, a, bytes')
  PROVE  PacketInv'
<1>1. /\ host' = [host EXCEPT ![p] = h] /\ ref' = [ref EXCEPT ![p] = r]
      /\ box' = [box EXCEPT ![p] = b] /\ area' = [area EXCEPT ![p] = a]
      /\ lost' = (lost \ {p}) \cup (IF box[p] # NoMemory THEN Borrowers(p) ELSE {})
      /\ meant' = [meant EXCEPT ![p] = Part(a, bytes')]
  BY DEF Becomes
<1>2. Borrowers(p) = {x \in Packets \ {p} : host[x] = p}
  BY DEF Borrowers
<1>3. PacketTypes'
  <2>1. /\ host \in [Packets -> Packets \cup {NoMemory, Static}] /\ ref \in [Packets -> BOOLEAN]
        /\ box \in [Packets -> Nat \cup {NoMemory}] /\ area \in [Packets -> Areas]
        /\ lost \subseteq Packets /\ meant = [x \in Packets |-> meant[x]]
    BY DEF PacketInv, PacketTypes
  <2>2. bytes' \in Seq(Seq(Nat))
    BY DEF Extends
  <2>3. b \in Nat \cup {NoMemory}
    BY <2>2 DEF Matches
  <2>4. h \in Packets \cup {NoMemory, Static} /\ r \in BOOLEAN /\ a \in Areas
    BY DEF Matches, Fits
  <2>5. host' \in [Packets -> Packets \cup {NoMemory, Static}] /\ ref' \in [Packets -> BOOLEAN]
    BY <1>1, <2>1, <2>4
  <2>6. box' \in [Packets -> Nat \cup {NoMemory}] /\ area' \in [Packets -> Areas]
    BY <1>1, <2>1, <2>3, <2>4
  <2>7. lost' \subseteq Packets /\ meant' = [x \in Packets |-> meant'[x]]
    BY <1>1, <1>2, <2>1
  <2> QED BY <2>2, <2>5, <2>6, <2>7 DEF PacketTypes
<1>4. /\ host'[p] = h /\ ref'[p] = r /\ box'[p] = b /\ area'[p] = a
      /\ meant'[p] = Part(a, bytes') /\ p \notin lost'
      /\ \A x \in Packets \ {p} : /\ host'[x] = host[x] /\ ref'[x] = ref[x] /\ box'[x] = box[x]
                                  /\ area'[x] = area[x] /\ meant'[x] = meant[x]
  BY <1>1, <1>2 DEF PacketInv, PacketTypes
<1>5. Sound(p)'
  <2>1. Owned(p)'
    BY <1>4 DEF Owned, Matches
  <2>2. Lives(p)'
    <3>1. h \in Packets \ {p} => box'[h] = box[h]
      BY <1>4
    <3> QED BY <1>4, <3>1, PacketAssumption DEF Lives, Matches
  <2> QED BY <1>4, <2>1, <2>2 DEF Sound, Matches
<1>6. ASSUME NEW x \in Packets \ {p} PROVE Sound(x)'
  <2>1. Sound(x)
    BY DEF PacketInv
  <2>2. x \in lost' => x \in lost \/ host[x] \in Packets \ {x}
    BY <1>1, <1>2
  <2>3. ASSUME x \notin lost'
        PROVE  x \notin lost /\ (host[x] \in Packets => box'[host[x]] = box[host[x]])
    <3>1. x \notin lost /\ (box[p] # NoMemory => host[x] # p)
      BY <1>1, <1>2, <2>3
    <3>2. host[x] \in Packets => box[host[x]] # NoMemory
      BY <2>1, <3>1 DEF Sound, Lives
    <3>3. host[x] # p
      BY <3>1, <3>2
    <3> QED BY <1>4, <3>1, <3>3
  <2> QED BY <1>4, <2>1, <2>2, <2>3, Untouched
<1> QED BY <1>3, <1>5, <1>6 DEF PacketInv

LEMMA PacketStarts == PacketInit => PacketInv
<1> SUFFICES ASSUME PacketInit PROVE PacketInv
  OBVIOUS
<1>1. /\ host = [p \in Packets |-> NoMemory] /\ ref = [p \in Packets |-> TRUE]
      /\ box = [p \in Packets |-> NoMemory] /\ area = [p \in Packets |-> NoArea]
      /\ bytes = <<>> /\ lost = {} /\ meant = [p \in Packets |-> <<>>]
  BY DEF PacketInit
<1>2. <<>> \in Seq(Seq(Nat)) /\ Len(<<>>) = 0 /\ SubSeq(<<>>, 0 + 1, 0 + 0) = <<>>
  OBVIOUS
<1>3. /\ NoArea \in Areas /\ NoArea.mem = NoMemory /\ NoArea.from = 0 /\ NoArea.size = 0
  BY DEF NoArea, Areas
<1>4. NoMemory \notin Nat /\ NoMemory \notin Packets /\ NoMemory # User /\ NoMemory # Static
  BY PacketAssumption
<1>5. Memory(NoArea, bytes) = <<>>
  BY <1>3, <1>4 DEF Memory
<1>6. Fits(NoArea, bytes)
  BY <1>2, <1>3, <1>4, <1>5 DEF Fits
<1>7. Part(NoArea, bytes) = <<>>
  BY <1>2, <1>3, <1>4 DEF Part
<1>8. PacketTypes
  BY <1>1, <1>2, <1>3 DEF PacketTypes
<1>9. \A p \in Packets : Sound(p)
  BY <1>1, <1>3, <1>4, <1>6, <1>7 DEF Sound, Owned, Lives
<1> QED BY <1>8, <1>9 DEF PacketInv

LEMMA Unchanging ==
  ASSUME PacketInv, UNCHANGED bytes
  PROVE  Extends(bytes')
BY DEF PacketInv, PacketTypes, Extends

\* One more buffer.
LEMMA OneMore ==
  ASSUME PacketInv, NEW buffer \in Seq(Nat), bytes' = Append(bytes, buffer)
  PROVE  /\ Extends(bytes') /\ Len(bytes') \in DOMAIN bytes' /\ Len(bytes') \in Nat
         /\ bytes'[Len(bytes')] = buffer
<1>1. bytes \in Seq(Seq(Nat))
  BY DEF PacketInv, PacketTypes
<1> QED BY <1>1 DEF Extends

\* A part of a sequence, by its start and its length.
LEMMA Slice ==
  ASSUME NEW m \in Seq(Nat), NEW f \in Nat, NEW s \in Nat, f + s <= Len(m)
  PROVE  /\ SubSeq(m, f + 1, f + s) \in Seq(Nat) /\ Len(SubSeq(m, f + 1, f + s)) = s
         /\ \A i \in 1 .. s : SubSeq(m, f + 1, f + s)[i] = m[f + i]
<1> DEFINE x == f + 1
           y == f + s
<1>1. x \in Int /\ y \in Int
  OBVIOUS
<1>2. \A i \in x .. y : i \in 1 .. Len(m)
  OBVIOUS
<1>3. \A i \in x .. y : m[i] \in Nat
  BY <1>2
<1>4. y - x + 1 = s
  OBVIOUS
<1>5. (IF x <= y THEN y - x + 1 ELSE 0) = s
  OBVIOUS
<1>6. \A i \in 1 .. s : x + i - 1 = f + i
  OBVIOUS
<1> HIDE DEF x, y
<1>7. /\ SubSeq(m, x, y) \in Seq(Nat)
      /\ Len(SubSeq(m, x, y)) = IF x <= y THEN y - x + 1 ELSE 0
      /\ \A i \in 1 .. y - x + 1 : SubSeq(m, x, y)[i] = m[x + i - 1]
  BY <1>1, <1>3, SubSeqProperties
<1>8. /\ SubSeq(m, x, y) \in Seq(Nat) /\ Len(SubSeq(m, x, y)) = s
      /\ \A i \in 1 .. s : SubSeq(m, x, y)[i] = m[f + i]
  BY <1>4, <1>5, <1>6, <1>7
<1> QED BY <1>8 DEF x, y

\* The part of the memory that an area is.
LEMMA PartIs ==
  ASSUME NEW buffers \in Seq(Seq(Nat)), NEW a, Fits(a, buffers)
  PROVE  /\ a.size \in Nat /\ Part(a, buffers) \in Seq(Nat) /\ Len(Part(a, buffers)) = a.size
         /\ \A i \in 1 .. a.size : Part(a, buffers)[i] = Memory(a, buffers)[a.from + i]
<1>1. a.from \in Nat /\ a.size \in Nat /\ Memory(a, buffers) \in Seq(Nat)
      /\ a.from + a.size <= Len(Memory(a, buffers))
  BY MemoryIs
<1>2. Part(a, buffers) = SubSeq(Memory(a, buffers), a.from + 1, a.from + a.size)
  BY DEF Part, Memory
<1> DEFINE m == Memory(a, buffers)
           f == a.from
           s == a.size
<1>3. m \in Seq(Nat) /\ f \in Nat /\ s \in Nat /\ f + s <= Len(m)
  BY <1>1
<1> HIDE DEF m, f, s
<1>4. /\ SubSeq(m, f + 1, f + s) \in Seq(Nat) /\ Len(SubSeq(m, f + 1, f + s)) = s
      /\ \A i \in 1 .. s : SubSeq(m, f + 1, f + s)[i] = m[f + i]
  BY ONLY <1>3, Slice
<1> QED BY <1>1, <1>2, <1>4 DEF m, f, s

\* A shorter area, and the bytes that it leaves out.
LEMMA PartShrinks ==
  ASSUME NEW h \in Nat, NEW t \in Nat, NEW buffers \in Seq(Seq(Nat)), NEW b, Fits(b, buffers),
         h + t <= b.size, NEW a,
         a = [mem |-> b.mem, from |-> b.from + h, size |-> b.size - h - t]
  PROVE  LET whole == Part(b, buffers)
         IN  /\ Fits(a, buffers) /\ a.mem = b.mem
             /\ SubSeq(whole, h + 1, Len(whole) - t) = Part(a, buffers)
<1> DEFINE whole == Part(b, buffers)
           m == Memory(b, buffers)
<1>1. b.from \in Nat /\ b.size \in Nat /\ m \in Seq(Nat) /\ b.from + b.size <= Len(m)
  BY MemoryIs
<1>2. h \in Nat /\ t \in Nat /\ h + t <= b.size
  OBVIOUS
<1>3. a.mem = b.mem /\ a.from = b.from + h /\ a.size = b.size - h - t
  OBVIOUS
<1>4. /\ b.mem \in {NoMemory, User, Static} \cup Nat /\ (b.mem \in Nat => b.mem \in DOMAIN buffers)
      /\ a.from \in Nat /\ a.size \in Nat
  BY <1>1, <1>2, <1>3 DEF Fits, Areas
<1>5. a \in Areas
  BY <1>3, <1>4 DEF Areas
<1>6. Memory(a, buffers) = m
  BY <1>3 DEF Memory
<1>7. Fits(a, buffers)
  <2>1. a.from + a.size <= Len(m)
    <3> DEFINE n == Len(m)
               e == b.from + b.size
    <3>1. n \in Nat /\ e \in Nat /\ e <= n
      BY <1>1
    <3>2. a.from + a.size = e - t
      BY <1>1, <1>2, <1>3
    <3> HIDE DEF n, e
    <3>3. e - t <= n
      BY <1>2, <3>1
    <3> QED BY <3>2, <3>3 DEF n
  <2> QED BY <1>3, <1>4, <1>5, <1>6, <2>1 DEF Fits
<1>8. /\ whole \in Seq(Nat) /\ Len(whole) = b.size
      /\ \A i \in 1 .. b.size : whole[i] = m[b.from + i]
  BY PartIs
<1> HIDE DEF m
<1>9. /\ Part(a, buffers) \in Seq(Nat) /\ Len(Part(a, buffers)) = a.size
      /\ \A i \in 1 .. a.size : Part(a, buffers)[i] = m[a.from + i]
  BY <1>6, <1>7, PartIs
<1> HIDE DEF whole
<1> DEFINE s == a.size
           bs == b.size
           cut == SubSeq(whole, h + 1, h + s)
<1>10. s \in Nat /\ bs \in Nat /\ h + s = bs - t /\ h + s <= bs
  BY <1>1, <1>2, <1>3, <1>4
<1>11. SubSeq(whole, h + 1, Len(whole) - t) = cut
  BY <1>8, <1>10
<1>12. h + s <= Len(whole)
  BY <1>8, <1>10
<1> HIDE DEF s, bs
<1>13. /\ cut \in Seq(Nat) /\ Len(cut) = s /\ \A i \in 1 .. s : cut[i] = whole[h + i]
  BY ONLY <1>2, <1>8, <1>10, <1>12, Slice
<1> HIDE DEF cut
<1>14. ASSUME NEW i \in 1 .. s PROVE cut[i] = Part(a, buffers)[i]
  <2>1. h + i \in 1 .. bs
    BY <1>2, <1>10
  <2>2. whole[h + i] = m[b.from + (h + i)]
    BY <1>8, <2>1 DEF bs
  <2>3. b.from + (h + i) = a.from + i
    BY <1>1, <1>2, <1>3
  <2>4. Part(a, buffers)[i] = m[a.from + i]
    BY <1>9 DEF s
  <2> QED BY <1>13, <2>2, <2>3, <2>4
<1>15. Len(Part(a, buffers)) = s
  BY <1>9 DEF s
<1> DEFINE part == Part(a, buffers)
<1>16. part \in Seq(Nat) /\ Len(part) = s /\ \A i \in 1 .. s : cut[i] = part[i]
  BY <1>9, <1>14, <1>15
<1> HIDE DEF part
<1>17. cut = part
  BY ONLY <1>13, <1>16, SeqEqual
<1> QED BY <1>3, <1>7, <1>11, <1>17 DEF whole, cut, part

\* The memory of the program, its constants, or none.
LEMMA PacketSet ==
  ASSUME PacketInv, NEW p \in Packets,
         SetData(p) \/ Reset(p) \/ SetStatic(p)
  PROVE  PacketInv'
<1>1. bytes' = bytes
  BY DEF SetData, Reset, SetStatic
<1>2. Extends(bytes')
  BY <1>1, Unchanging
<1>3. /\ NoMemory \notin Nat /\ User \notin Nat /\ Static \notin Nat /\ NoMemory # User /\ NoMemory # Static
      /\ NoMemory \notin Packets /\ Static \notin Packets /\ User # Static
  BY PacketAssumption
<1>4. ASSUME NEW mem \in {User, Static}
      PROVE  Fits([mem |-> mem, from |-> 0, size |-> 3], bytes')
  <2> DEFINE a == [mem |-> mem, from |-> 0, size |-> 3]
  <2>1. a \in Areas /\ a.mem = mem /\ a.from = 0 /\ a.size = 3
    BY DEF Areas
  <2> HIDE DEF a
  <2>2. Memory(a, bytes') = UserBytes /\ a.mem \notin Nat
    BY <1>3, <2>1 DEF Memory
  <2>3. Fits(a, bytes')
    BY <2>1, <2>2, UserIs DEF Fits
  <2> QED BY <2>3 DEF a
<1>5. CASE SetData(p)
  <2> DEFINE a == [mem |-> User, from |-> 0, size |-> 3]
  <2>1. Becomes(p, NoMemory, TRUE, NoMemory, a)
    BY <1>5 DEF SetData
  <2>2. a.mem = User /\ Fits(a, bytes')
    BY <1>4
  <2> HIDE DEF a
  <2>3. Matches(p, NoMemory, TRUE, NoMemory, a, bytes')
    BY <1>3, <2>2 DEF Matches
  <2> QED BY <1>2, <2>1, <2>3, BecomesSound
<1>6. CASE SetStatic(p)
  <2> DEFINE a == [mem |-> Static, from |-> 0, size |-> 3]
  <2>1. Becomes(p, Static, TRUE, NoMemory, a)
    BY <1>6 DEF SetStatic
  <2>2. a.mem = Static /\ Fits(a, bytes')
    BY <1>4
  <2> HIDE DEF a
  <2>3. Matches(p, Static, TRUE, NoMemory, a, bytes')
    BY <1>3, <2>2 DEF Matches
  <2> QED BY <1>2, <2>1, <2>3, BecomesSound
<1>7. CASE Reset(p)
  <2>1. Becomes(p, NoMemory, TRUE, NoMemory, NoArea)
    BY <1>7 DEF Reset
  <2>2. NoArea.mem = NoMemory /\ Fits(NoArea, bytes')
    BY <1>3 DEF NoArea, Fits, Areas, Memory
  <2>3. Matches(p, NoMemory, TRUE, NoMemory, NoArea, bytes')
    BY <1>3, <2>2 DEF Matches
  <2> QED BY <1>2, <2>1, <2>3, BecomesSound
<1> QED BY <1>5, <1>6, <1>7

LEMMA PacketCaptures ==
  ASSUME PacketInv, NEW p \in Packets, Capture(p)
  PROVE  PacketInv'
<1> DEFINE n == Len(bytes')
           a == [mem |-> n, from |-> 0, size |-> 2]
<1>1. bytes' = Append(bytes, <<4, 5>>) /\ Becomes(p, p, FALSE, n, a)
  BY DEF Capture
<1>2. <<4, 5>> \in Seq(Nat) /\ Len(<<4, 5>>) = 2
  OBVIOUS
<1>3. Extends(bytes') /\ n \in DOMAIN bytes' /\ n \in Nat /\ bytes'[n] = <<4, 5>>
  BY <1>1, <1>2, OneMore
<1> HIDE DEF n
<1>4. n \notin {NoMemory, User, Static} /\ p \notin {NoMemory, Static}
  BY <1>3, PacketAssumption
<1>5. a \in Areas /\ a.mem = n /\ a.from = 0 /\ a.size = 2
  BY <1>3 DEF Areas
<1> HIDE DEF a
<1>6. Fits(a, bytes')
  <2>1. Memory(a, bytes') = <<4, 5>>
    BY <1>3, <1>4, <1>5 DEF Memory
  <2> QED BY <1>2, <1>3, <1>5, <2>1 DEF Fits
<1>7. Matches(p, p, FALSE, n, a, bytes')
  BY <1>3, <1>4, <1>5, <1>6 DEF Matches
<1> QED BY <1>1, <1>3, <1>7, BecomesSound

\* A packet which may be used has its area in its memory.
LEMMA UsableIs ==
  ASSUME PacketInv, NEW q \in Packets, Usable(q)
  PROVE  /\ Fits(area[q], bytes) /\ host[q] \in Packets \cup {NoMemory, Static}
         /\ host[q] \in Packets =>
              /\ BufferOf(q) \in DOMAIN bytes /\ BufferOf(q) # NoMemory
              /\ area[q].mem = BufferOf(q) /\ BufferOf(q) = box[host[q]]
         /\ host[q] = NoMemory => area[q].mem \in {User, NoMemory}
         /\ host[q] = Static => area[q].mem = Static
         /\ meant[q] = Part(area[q], bytes)
<1>1. q \notin lost /\ Sound(q) /\ host[q] \in Packets \cup {NoMemory, Static}
  BY DEF Usable, PacketInv, PacketTypes
<1>2. host[q] \in Packets => Owned(host[q])
  BY DEF PacketInv, Sound
<1> QED BY <1>1, <1>2 DEF Sound, Lives, Owned, BufferOf

LEMMA PacketShares ==
  ASSUME PacketInv, NEW p \in Packets, NEW q \in Packets, Share(p, q)
  PROVE  PacketInv'
<1> DEFINE n == BufferOf(q)
           a == [mem |-> n, from |-> 0, size |-> Len(bytes[n])]
<1>1. Usable(q) /\ host[q] \in Packets /\ bytes' = bytes /\ Becomes(p, p, FALSE, n, a)
  BY DEF Share, Buffered
<1>2. n \in DOMAIN bytes /\ bytes \in Seq(Seq(Nat)) /\ Extends(bytes')
  BY <1>1, UsableIs, Unchanging DEF PacketInv, PacketTypes
<1> HIDE DEF n
<1>3. n \in Nat /\ Len(bytes[n]) \in Nat
  BY <1>2
<1>4. n \notin {NoMemory, User, Static} /\ p \notin {NoMemory, Static}
  BY <1>3, PacketAssumption
<1>5. a \in Areas /\ a.mem = n /\ a.from = 0 /\ a.size = Len(bytes[n])
  BY <1>3 DEF Areas
<1> HIDE DEF a
<1>6. Fits(a, bytes')
  BY <1>1, <1>2, <1>3, <1>4, <1>5 DEF Fits, Memory
<1>7. Matches(p, p, FALSE, n, a, bytes')
  BY <1>1, <1>2, <1>4, <1>5, <1>6 DEF Matches
<1> QED BY <1>1, <1>2, <1>7, BecomesSound

\* The area of a packet takes another part of the same memory.
LEMMA PacketNarrows ==
  ASSUME PacketInv, NEW p \in Packets, NEW a, NEW m,
         UNCHANGED <<host, ref, box, bytes, lost>>,
         area' = [area EXCEPT ![p] = a], meant' = [meant EXCEPT ![p] = m],
         Fits(a, bytes), p \notin lost => a.mem = area[p].mem /\ m = Part(a, bytes)
  PROVE  PacketInv'
<1>1. Extends(bytes') /\ bytes' = bytes
  BY Unchanging
<1>2. a \in Areas
  BY DEF Fits
<1>3. PacketTypes'
  BY <1>2 DEF PacketInv, PacketTypes
<1>4. area'[p] = a /\ meant'[p] = m
  BY DEF PacketInv, PacketTypes
<1>5. \A x \in Packets \ {p} : area'[x] = area[x] /\ meant'[x] = meant[x]
  BY DEF PacketInv, PacketTypes
<1>6. Sound(p)'
  <2>1. Sound(p)
    BY DEF PacketInv
  <2> QED BY <1>4, <2>1 DEF Sound, Owned, Lives
<1>7. ASSUME NEW x \in Packets \ {p} PROVE Sound(x)'
  <2>1. Sound(x)
    BY DEF PacketInv
  <2> QED BY <1>1, <1>5, <2>1, Untouched
<1> QED BY <1>3, <1>6, <1>7 DEF PacketInv

\* A reference; the owner of the box that the other packet references keeps it.
LEMMA PacketRefers ==
  ASSUME PacketInv, NEW p \in Packets, NEW q \in Packets, Refer(p, q)
  PROVE  PacketInv'
<1>1. Usable(q) /\ bytes' = bytes
  BY DEF Refer
<1>2. Extends(bytes')
  BY <1>1, Unchanging
<1>3. /\ Fits(area[q], bytes) /\ host[q] \in Packets \cup {NoMemory, Static}
      /\ host[q] \in Packets => box[host[q]] # NoMemory /\ area[q].mem = box[host[q]]
      /\ host[q] = NoMemory => area[q].mem \in {User, NoMemory}
      /\ host[q] = Static => area[q].mem = Static
      /\ meant[q] = Part(area[q], bytes)
  BY <1>1, UsableIs
<1>4. Sound(p)
  BY DEF PacketInv
<1>5. CASE ~ref[p] /\ host[q] = host[p]
  <2>1. /\ area' = [area EXCEPT ![p] = area[q]] /\ meant' = [meant EXCEPT ![p] = meant[q]]
        /\ UNCHANGED <<host, ref, box, bytes, lost>>
    BY <1>1, <1>5 DEF Refer
  <2>2. host[p] \in {p, Static} /\ p \notin lost
    BY <1>4, <1>5 DEF Sound, Owned
  <2>3. area[q].mem = area[p].mem
    BY <1>3, <1>4, <1>5, <2>2 DEF Sound, Lives
  <2> QED BY <1>3, <2>1, <2>3, PacketNarrows
<1>6. CASE ~(~ref[p] /\ host[q] = host[p])
  <2>1. Becomes(p, host[q], TRUE, NoMemory, area[q])
    BY <1>6 DEF Refer
  <2>2. host[q] # p
    <3>1. ASSUME host[q] = p PROVE FALSE
      <4>1. box[p] # NoMemory
        BY <1>3, <3>1
      <4>2. host[p] = p /\ ~ref[p]
        BY <1>4, <4>1 DEF Sound, Owned, PacketInv, PacketTypes
      <4> QED BY <1>6, <3>1, <4>2
    <3> QED BY <3>1
  <2>3. Matches(p, host[q], TRUE, NoMemory, area[q], bytes')
    BY <1>1, <1>3, <2>2 DEF Matches
  <2> QED BY <1>2, <2>1, <2>3, BecomesSound
<1> QED BY <1>5, <1>6

\* The memory of the program is copied for both packets.
LEMMA PacketTakesCopy ==
  ASSUME PacketInv, NEW p \in Packets, NEW q \in Packets, NEW n, NEW a,
         p # q, Usable(q), host[q] = NoMemory, Extends(bytes'),
         n \in DOMAIN bytes', n \in Nat, Fits(a, bytes'), a.mem = n,
         Part(a, bytes') = Part(area[q], bytes),
         host' = [host EXCEPT ![p] = p, ![q] = q],
         ref' = [ref EXCEPT ![p] = FALSE, ![q] = FALSE],
         box' = [box EXCEPT ![p] = n, ![q] = n],
         area' = [area EXCEPT ![p] = a, ![q] = a],
         lost' = (lost \ {p}) \cup (IF box[p] # NoMemory THEN Borrowers(p) ELSE {}),
         meant' = [meant EXCEPT ![p] = meant[q]]
  PROVE  PacketInv'
<1>1. q \notin lost /\ meant[q] = Part(area[q], bytes) /\ Sound(q)
  BY UsableIs DEF Usable, PacketInv
<1>2. n # NoMemory /\ NoMemory \notin Packets /\ Static \notin Packets /\ a \in Areas
  BY PacketAssumption DEF Fits
<1>3. Borrowers(p) = {x \in Packets \ {p} : host[x] = p}
  BY DEF Borrowers
<1>4. PacketTypes'
  <2>1. /\ host \in [Packets -> Packets \cup {NoMemory, Static}] /\ ref \in [Packets -> BOOLEAN]
        /\ box \in [Packets -> Nat \cup {NoMemory}] /\ area \in [Packets -> Areas]
        /\ lost \subseteq Packets /\ meant = [x \in Packets |-> meant[x]]
    BY DEF PacketInv, PacketTypes
  <2>2. bytes' \in Seq(Seq(Nat))
    BY DEF Extends
  <2>3. host' \in [Packets -> Packets \cup {NoMemory, Static}] /\ ref' \in [Packets -> BOOLEAN]
    BY <2>1
  <2>4. box' \in [Packets -> Nat \cup {NoMemory}] /\ area' \in [Packets -> Areas]
    BY <1>2, <2>1
  <2>5. lost' \subseteq Packets /\ meant' = [x \in Packets |-> meant'[x]]
    BY <1>3, <2>1
  <2> QED BY <2>2, <2>3, <2>4, <2>5 DEF PacketTypes
<1>5. \A x \in {p, q} : /\ host'[x] = x /\ ref'[x] = FALSE /\ box'[x] = n /\ area'[x] = a
                        /\ meant'[x] = meant[q]
  BY DEF PacketInv, PacketTypes
<1>6. \A x \in Packets \ {p, q} :
        /\ host'[x] = host[x] /\ ref'[x] = ref[x] /\ box'[x] = box[x]
        /\ area'[x] = area[x] /\ meant'[x] = meant[x]
  BY DEF PacketInv, PacketTypes
<1>7. p \notin lost' /\ q \notin lost'
  BY <1>1, <1>2, <1>3
<1>8. ASSUME NEW x \in {p, q} PROVE Sound(x)'
  <2>1. Owned(x)'
    BY <1>2, <1>5, <1>7 DEF Owned
  <2>2. Lives(x)'
    BY <1>1, <1>2, <1>5 DEF Lives
  <2> QED BY <1>5, <2>1, <2>2 DEF Sound
<1>9. ASSUME NEW x \in Packets \ {p, q} PROVE Sound(x)'
  <2>1. Sound(x)
    BY DEF PacketInv
  <2>2. x \in lost' => x \in lost \/ host[x] \in Packets \ {x}
    BY <1>3
  <2>3. ASSUME x \notin lost'
        PROVE  x \notin lost /\ (host[x] \in Packets => box'[host[x]] = box[host[x]])
    <3>1. x \notin lost /\ (box[p] # NoMemory => host[x] # p)
      BY <1>3, <2>3
    <3>2. host[x] \in Packets => box[host[x]] # NoMemory
      BY <2>1, <3>1 DEF Sound, Lives
    <3>3. box[q] = NoMemory
      BY <1>1, <1>2 DEF Sound, Owned
    <3>4. host[x] # p /\ host[x] # q
      BY <3>1, <3>2, <3>3
    <3> QED BY <1>6, <3>1, <3>4
  <2> QED BY <1>6, <2>1, <2>2, <2>3, Untouched
<1> QED BY <1>4, <1>8, <1>9 DEF PacketInv

\* set(const Packet&&).
LEMMA PacketTakes ==
  ASSUME PacketInv, NEW p \in Packets, NEW q \in Packets, Take(p, q)
  PROVE  PacketInv'
<1>1. p # q /\ Usable(q) /\ host[q] # p
  BY DEF Take
<1>2. /\ Fits(area[q], bytes) /\ host[q] \in Packets \cup {NoMemory, Static}
      /\ host[q] \in Packets =>
           /\ BufferOf(q) \in DOMAIN bytes /\ BufferOf(q) # NoMemory
           /\ area[q].mem = BufferOf(q)
      /\ host[q] = NoMemory => area[q].mem \in {User, NoMemory}
      /\ host[q] = Static => area[q].mem = Static
  BY <1>1, UsableIs
<1>3. /\ NoMemory \notin Nat /\ User \notin Nat /\ Static \notin Nat /\ NoMemory # User /\ NoMemory # Static
      /\ NoMemory \notin Packets /\ Static \notin Packets /\ User # Static
  BY PacketAssumption
<1>4. CASE /\ bytes' = bytes /\ Becomes(p, NoMemory, TRUE, NoMemory, NoArea)
  <2>1. NoArea.mem = NoMemory /\ Fits(NoArea, bytes')
    BY <1>3 DEF NoArea, Fits, Areas, Memory
  <2>2. Matches(p, NoMemory, TRUE, NoMemory, NoArea, bytes')
    BY <1>3, <2>1 DEF Matches
  <2> QED BY <1>4, <2>2, Unchanging, BecomesSound
<1>5. CASE /\ host[q] # NoMemory /\ bytes' = bytes
           /\ Becomes(p, IF host[q] = Static THEN Static ELSE p, FALSE,
                        IF host[q] = Static THEN NoMemory ELSE BufferOf(q), area[q])
  <2>1. CASE host[q] = Static
    <3>1. Becomes(p, Static, FALSE, NoMemory, area[q])
      BY <1>5, <2>1
    <3>2. Matches(p, Static, FALSE, NoMemory, area[q], bytes')
      BY <1>2, <1>3, <1>5, <2>1 DEF Matches
    <3> QED BY <1>5, <3>1, <3>2, Unchanging, BecomesSound
  <2>2. CASE host[q] # Static
    <3>1. Becomes(p, p, FALSE, BufferOf(q), area[q])
      BY <1>5, <2>2
    <3>2. Matches(p, p, FALSE, BufferOf(q), area[q], bytes')
      BY <1>2, <1>3, <1>5, <2>2 DEF Matches
    <3> QED BY <1>5, <3>1, <3>2, Unchanging, BecomesSound
  <2> QED BY <2>1, <2>2
<1> DEFINE n == Len(bytes')
           part == Part(area[q], bytes)
           a == [mem |-> n, from |-> 0, size |-> area[q].size]
<1>6. CASE /\ host[q] = NoMemory /\ bytes' = Append(bytes, part)
           /\ host' = [host EXCEPT ![p] = p, ![q] = q]
           /\ ref' = [ref EXCEPT ![p] = FALSE, ![q] = FALSE]
           /\ box' = [box EXCEPT ![p] = n, ![q] = n]
           /\ area' = [area EXCEPT ![p] = a, ![q] = a]
           /\ lost' = (lost \ {p}) \cup (IF box[p] # NoMemory THEN Borrowers(p) ELSE {})
           /\ meant' = [meant EXCEPT ![p] = meant[q]]
  <2>1. part \in Seq(Nat) /\ Len(part) = area[q].size /\ area[q].size \in Nat
    BY <1>2, PartIs DEF PacketInv, PacketTypes
  <2> HIDE DEF part
  <2>2. Extends(bytes') /\ n \in DOMAIN bytes' /\ n \in Nat /\ bytes'[n] = part
    BY <1>6, <2>1, OneMore
  <2> HIDE DEF n
  <2>3. n \notin {NoMemory, User, Static}
    BY <1>3, <2>2
  <2>4. a \in Areas /\ a.mem = n /\ a.from = 0 /\ a.size = Len(part)
    BY <2>1, <2>2 DEF Areas
  <2> HIDE DEF a
  <2>5. Fits(a, bytes') /\ Memory(a, bytes') = part
    BY <2>1, <2>2, <2>3, <2>4 DEF Fits, Memory
  <2>6. Part(a, bytes') = SubSeq(part, 1, Len(part))
    BY <2>1, <2>2, <2>3, <2>4 DEF Part
  <2>7. SubSeq(part, 1, Len(part)) = part
    BY <2>1
  <2>8. Part(a, bytes') = Part(area[q], bytes)
    BY <2>6, <2>7 DEF part
  <2> QED BY <1>1, <1>6, <2>2, <2>4, <2>5, <2>8, PacketTakesCopy
<1> QED BY <1>4, <1>5, <1>6 DEF Take

\* operator+= and operator-=.
LEMMA PacketShrinks ==
  ASSUME PacketInv, NEW p \in Packets, NEW head \in Nat, NEW tail \in Nat,
         Shrink(p, head, tail)
  PROVE  PacketInv'
<1> DEFINE b == area[p]
           h == IF head > b.size THEN b.size ELSE head
           t == IF tail > b.size - h THEN b.size - h ELSE tail
           a == [mem |-> b.mem, from |-> b.from + h, size |-> b.size - h - t]
           m == SubSeq(meant[p], h + 1, Len(meant[p]) - t)
           whole == Part(b, bytes)
<1>1. /\ Usable(p) /\ UNCHANGED <<host, ref, box, lost, bytes>>
      /\ area' = [area EXCEPT ![p] = a] /\ meant' = [meant EXCEPT ![p] = m]
  BY DEF Shrink
<1>2. Fits(b, bytes) /\ meant[p] = whole /\ bytes \in Seq(Seq(Nat))
  BY <1>1, UsableIs DEF PacketInv, PacketTypes
<1> HIDE DEF b
<1>6. h \in Nat /\ t \in Nat /\ h + t <= b.size
  BY <1>2, MemoryIs
<1>7. a = [mem |-> b.mem, from |-> b.from + h, size |-> b.size - h - t]
  OBVIOUS
<1> HIDE DEF h, t, a
<1>3. Fits(a, bytes) /\ a.mem = b.mem /\ SubSeq(whole, h + 1, Len(whole) - t) = Part(a, bytes)
  BY ONLY <1>2, <1>6, <1>7, PartShrinks
<1>4. m = Part(a, bytes)
  BY <1>2, <1>3
<1> HIDE DEF m
<1>5. a.mem = area[p].mem
  BY <1>3 DEF b
<1> QED BY <1>1, <1>3, <1>4, <1>5, PacketNarrows

\* A packet which is not lost holds its bytes, and an owner is never lost, for any
\* packets, whatever the other packets and the program have done since.
THEOREM PacketsAlwaysHold ==
  PacketInit /\ [][PacketNext]_packetVars => []PacketsHold
<1>1. PacketInit => PacketInv
  BY PacketStarts
<1>2. PacketInv /\ [PacketNext]_packetVars => PacketInv'
  <2> SUFFICES ASSUME PacketInv, [PacketNext]_packetVars PROVE PacketInv'
    OBVIOUS
  <2>1. CASE UNCHANGED packetVars
    BY <2>1 DEF packetVars, PacketInv, PacketTypes, Sound, Owned, Lives
  <2>2. ASSUME NEW p \in Packets,
               \/ SetData(p) \/ Reset(p) \/ SetStatic(p) \/ Capture(p)
               \/ \E q \in Packets : Share(p, q) \/ Refer(p, q) \/ Take(p, q)
               \/ Shrink(p, 1, 0) \/ Shrink(p, 0, 1)
        PROVE  PacketInv'
    <3>1. 0 \in Nat /\ 1 \in Nat
      OBVIOUS
    <3> QED BY <2>2, <3>1, PacketSet, PacketCaptures, PacketShares, PacketRefers, PacketTakes,
               PacketShrinks
  <2> QED BY <2>1, <2>2 DEF PacketNext
<1>3. PacketInv => PacketsHold
  <2> SUFFICES ASSUME PacketInv PROVE PacketsHold
    OBVIOUS
  <2>1. ASSUME NEW p \in Packets, ~ref[p] PROVE p \notin lost /\ host[p] \in {p, Static}
    BY <2>1 DEF PacketInv, Sound, Owned
  <2>2. ASSUME NEW p \in Packets \ lost
        PROVE  /\ Buffered(p) => BufferOf(p) # NoMemory /\ area[p].mem = BufferOf(p)
               /\ ~Buffered(p) => area[p].mem \in {User, Static, NoMemory}
               /\ ~ref[p] => area[p].mem # User
               /\ meant[p] = Part(area[p], bytes)
    <3>1. Usable(p) /\ p \in Packets
      BY DEF Usable
    <3>2. /\ host[p] \in Packets \cup {NoMemory, Static}
          /\ host[p] \in Packets =>
               /\ BufferOf(p) \in DOMAIN bytes /\ BufferOf(p) # NoMemory
               /\ area[p].mem = BufferOf(p)
          /\ host[p] = NoMemory => area[p].mem \in {User, NoMemory}
          /\ host[p] = Static => area[p].mem = Static
          /\ meant[p] = Part(area[p], bytes)
      BY <3>1, UsableIs
    <3>3. BufferOf(p) \in DOMAIN bytes => BufferOf(p) \in Nat
      BY DEF PacketInv, PacketTypes
    <3>4. ~ref[p] => host[p] \in {p, Static}
      BY <2>1, <3>1
    <3> QED BY <3>1, <3>2, <3>3, <3>4, PacketAssumption DEF Buffered
  <2> QED BY <2>1, <2>2 DEF PacketsHold
<1> QED BY <1>1, <1>2, <1>3, PTL

-----------------------------------------------------------------------------
(* Parameters: whoever follows their events, as the persistence of a       *)
(* server does, has what they have.                                        *)

\* The observer has the map, but for the keys erased without an event.
Agrees(map, copy, erased) ==
  /\ DOMAIN copy = DOMAIN map \cup erased
  /\ \A k \in DOMAIN map : copy[k] = map[k]
  /\ erased \cap DOMAIN map = {}

OfObjects(f) == f = [o \in Objects |-> f[o]]

\* The inductive invariant: the keys are keys, and the observers follow.
ParamInv ==
  /\ OfObjects(params) /\ OfObjects(mirror) /\ OfObjects(untold)
  /\ \A o \in Objects : /\ DOMAIN params[o] \subseteq Keys /\ untold[o] \subseteq Keys
                        /\ Agrees(params[o], mirror[o], untold[o])

LEMMA OverIs ==
  ASSUME NEW new, NEW old
  PROVE  /\ DOMAIN Over(new, old) = DOMAIN new \cup DOMAIN old
         /\ \A k \in DOMAIN new : Over(new, old)[k] = new[k]
         /\ \A k \in DOMAIN old \ DOMAIN new : Over(new, old)[k] = old[k]
BY DEF Over

LEMMA PutIs ==
  ASSUME NEW map, NEW k, NEW v
  PROVE  Put(map, k, v) = [l \in DOMAIN map \cup {k} |-> IF l = k THEN v ELSE map[l]]
<1> DEFINE one == [l \in {k} |-> v]
<1>1. one[k] = v /\ DOMAIN one = {k} /\ Put(map, k, v) = Over(one, map)
  BY DEF Put
<1> HIDE DEF one
<1>2. Over(one, map)
        = [l \in DOMAIN map \cup {k} |-> IF l \in {k} THEN one[l] ELSE map[l]]
  BY <1>1 DEF Over
<1> QED BY <1>1, <1>2

LEMMA WithoutIs ==
  ASSUME NEW map, NEW keys
  PROVE  /\ DOMAIN Without(map, keys) = DOMAIN map \ keys
         /\ \A k \in DOMAIN map \ keys : Without(map, keys)[k] = map[k]
BY DEF Without, Restrict

LEMMA ParamsInit == ParametersInit => ParamInv
<1> SUFFICES ASSUME ParametersInit PROVE ParamInv
  OBVIOUS
<1>1. /\ params = [o \in Objects |-> <<>>] /\ mirror = [o \in Objects |-> <<>>]
      /\ untold = [o \in Objects |-> {}]
  BY DEF ParametersInit
<1>2. OfObjects(params) /\ OfObjects(mirror) /\ OfObjects(untold)
  BY <1>1 DEF OfObjects
<1>3. \A o \in Objects : params[o] = <<>> /\ mirror[o] = <<>> /\ untold[o] = {}
  BY <1>1
<1>4. DOMAIN <<>> = {}
  OBVIOUS
<1> QED BY <1>2, <1>3, <1>4 DEF ParamInv, Agrees

\* An object changes, and its observer is told.
LEMMA OneChanges ==
  ASSUME ParamInv, NEW o \in Objects, NEW map, NEW copy, NEW erased \in SUBSET Keys,
         params' = [params EXCEPT ![o] = map], mirror' = [mirror EXCEPT ![o] = copy],
         untold' = [untold EXCEPT ![o] = erased],
         DOMAIN map \subseteq Keys, Agrees(map, copy, erased)
  PROVE  ParamInv'
<1>1. OfObjects(params') /\ OfObjects(mirror') /\ OfObjects(untold')
  BY DEF ParamInv, OfObjects
<1>2. params'[o] = map /\ mirror'[o] = copy /\ untold'[o] = erased
  BY DEF ParamInv, OfObjects
<1>3. \A x \in Objects \ {o} :
        params'[x] = params[x] /\ mirror'[x] = mirror[x] /\ untold'[x] = untold[x]
  BY DEF ParamInv, OfObjects
<1> QED BY <1>1, <1>2, <1>3 DEF ParamInv

\* emplace(): with no event, the key has this value already.
LEMMA ParamsEmplace ==
  ASSUME ParamInv, NEW o \in Objects, NEW k \in Keys, NEW v, Emplace(o, k, v)
  PROVE  ParamInv'
<1> DEFINE map == Put(params[o], k, v)
<1>1. params' = [params EXCEPT ![o] = map]
  BY DEF Emplace
<1>2. /\ DOMAIN map = DOMAIN params[o] \cup {k} /\ map[k] = v
      /\ \A l \in DOMAIN params[o] \ {k} : map[l] = params[o][l]
  <2>1. map = [l \in DOMAIN params[o] \cup {k} |-> IF l = k THEN v ELSE params[o][l]]
    BY PutIs
  <2> HIDE DEF map
  <2> QED BY <2>1
<1> HIDE DEF map
<1>3. /\ DOMAIN params[o] \subseteq Keys /\ untold[o] \subseteq Keys
      /\ Agrees(params[o], mirror[o], untold[o])
  BY DEF ParamInv
<1>4. CASE k \in DOMAIN params[o] /\ params[o][k] = v
  <2>1. mirror' = [mirror EXCEPT ![o] = mirror[o]] /\ untold' = [untold EXCEPT ![o] = untold[o]]
    <3>1. mirror' = mirror /\ untold' = untold
      BY <1>4 DEF Emplace, NoEvent
    <3>2. mirror = [x \in Objects |-> mirror[x]] /\ untold = [x \in Objects |-> untold[x]]
      BY DEF ParamInv, OfObjects
    <3>3. mirror = [mirror EXCEPT ![o] = mirror[o]]
      BY <3>2
    <3>4. untold = [untold EXCEPT ![o] = untold[o]]
      BY <3>2
    <3> QED BY <3>1, <3>3, <3>4
  <2>2. Agrees(map, mirror[o], untold[o])
    <3>1. DOMAIN map = DOMAIN params[o]
      BY <1>2, <1>4
    <3>2. ASSUME NEW l \in DOMAIN map PROVE map[l] = params[o][l]
      BY <1>2, <1>4, <3>1
    <3> QED BY <1>3, <3>1, <3>2 DEF Agrees
  <2> QED BY <1>1, <1>2, <1>3, <2>1, <2>2, OneChanges
<1>5. CASE ~(k \in DOMAIN params[o] /\ params[o][k] = v)
  <2> DEFINE copy == Put(mirror[o], k, v)
             erased == untold[o] \cap (Keys \ {k})
  <2>1. mirror' = [mirror EXCEPT ![o] = copy] /\ untold' = [untold EXCEPT ![o] = erased]
    BY <1>5 DEF Emplace, OnChange, Told
  <2>2. /\ DOMAIN copy = DOMAIN mirror[o] \cup {k} /\ copy[k] = v
        /\ \A l \in DOMAIN mirror[o] \ {k} : copy[l] = mirror[o][l]
    <3>1. copy = [l \in DOMAIN mirror[o] \cup {k} |-> IF l = k THEN v ELSE mirror[o][l]]
      BY PutIs
    <3> HIDE DEF copy
    <3> QED BY <3>1
  <2> HIDE DEF copy
  <2>3. Agrees(map, copy, erased)
    BY <1>2, <1>3, <2>2 DEF Agrees
  <2> QED BY <1>1, <1>2, <1>3, <2>1, <2>3, OneChanges
<1> QED BY <1>4, <1>5

\* erase(key): the erasure of the last key has no event.
LEMMA ParamsErase ==
  ASSUME ParamInv, NEW o \in Objects, NEW k \in Keys, Erase(o, k)
  PROVE  ParamInv'
<1> DEFINE map == Without(params[o], {k})
<1>1. params' = [params EXCEPT ![o] = map] /\ k \in DOMAIN params[o]
  BY DEF Erase
<1>2. /\ DOMAIN map = DOMAIN params[o] \ {k}
      /\ \A l \in DOMAIN params[o] \ {k} : map[l] = params[o][l]
  BY WithoutIs
<1> HIDE DEF map
<1>3. /\ DOMAIN params[o] \subseteq Keys /\ untold[o] \subseteq Keys
      /\ Agrees(params[o], mirror[o], untold[o])
  BY DEF ParamInv
<1>4. CASE DOMAIN params[o] = {k}
  <2>1. /\ mirror' = [mirror EXCEPT ![o] = mirror[o]]
        /\ untold' = [untold EXCEPT ![o] = untold[o] \cup {k}]
    BY <1>4 DEF Erase, ParamInv, OfObjects
  <2>2. Agrees(map, mirror[o], untold[o] \cup {k}) /\ untold[o] \cup {k} \in SUBSET Keys
    BY <1>2, <1>3, <1>4 DEF Agrees
  <2> QED BY <1>1, <1>2, <1>3, <2>1, <2>2, OneChanges
<1>5. CASE DOMAIN params[o] # {k}
  <2> DEFINE copy == Without(mirror[o], {k})
             erased == untold[o] \cap (Keys \ {k})
  <2>1. mirror' = [mirror EXCEPT ![o] = copy] /\ untold' = [untold EXCEPT ![o] = erased]
    BY <1>5 DEF Erase, OnErase, Told
  <2>2. /\ DOMAIN copy = DOMAIN mirror[o] \ {k}
        /\ \A l \in DOMAIN mirror[o] \ {k} : copy[l] = mirror[o][l]
    BY WithoutIs
  <2> HIDE DEF copy
  <2>3. Agrees(map, copy, erased)
    BY <1>1, <1>2, <1>3, <2>2 DEF Agrees
  <2> QED BY <1>1, <1>2, <1>3, <2>1, <2>3, OneChanges
<1> QED BY <1>4, <1>5

\* clear(prefix): onParamClear() when nothing is left.
LEMMA ParamsClear ==
  ASSUME ParamInv, NEW o \in Objects, NEW keys, Clear(o, keys)
  PROVE  ParamInv'
<1> DEFINE map == Without(params[o], keys)
<1>1. params' = [params EXCEPT ![o] = map]
  BY DEF Clear
<1>2. /\ DOMAIN map = DOMAIN params[o] \ keys
      /\ \A l \in DOMAIN params[o] \ keys : map[l] = params[o][l]
  BY WithoutIs
<1> HIDE DEF map
<1>3. /\ DOMAIN params[o] \subseteq Keys /\ untold[o] \subseteq Keys
      /\ Agrees(params[o], mirror[o], untold[o])
  BY DEF ParamInv
<1>4. CASE DOMAIN params[o] \subseteq keys
  <2>1. mirror' = [mirror EXCEPT ![o] = <<>>] /\ untold' = [untold EXCEPT ![o] = untold[o] \cap {}]
    BY <1>4 DEF Clear, OnClear, Told
  <2>2. DOMAIN <<>> = {}
    OBVIOUS
  <2>3. Agrees(map, <<>>, untold[o] \cap {})
    BY <1>2, <1>4, <2>2 DEF Agrees
  <2> QED BY <1>1, <1>2, <1>3, <2>1, <2>3, OneChanges
<1>5. CASE ~(DOMAIN params[o] \subseteq keys)
  <2> DEFINE gone == keys \cap DOMAIN params[o]
             copy == Without(mirror[o], gone)
             erased == untold[o] \cap (Keys \ gone)
  <2>1. mirror' = [mirror EXCEPT ![o] = copy] /\ untold' = [untold EXCEPT ![o] = erased]
    BY <1>5 DEF Clear, OnErase, Told
  <2>2. /\ DOMAIN copy = DOMAIN mirror[o] \ gone
        /\ \A l \in DOMAIN mirror[o] \ gone : copy[l] = mirror[o][l]
    BY WithoutIs
  <2> HIDE DEF copy
  <2>3. Agrees(map, copy, erased)
    BY <1>2, <1>3, <2>2 DEF Agrees
  <2> QED BY <1>1, <1>2, <1>3, <2>1, <2>3, OneChanges
<1> QED BY <1>4, <1>5

\* What an observer has of a map which takes the place of another one: setParams()
\* tells nothing of the clearing of an empty map.
LEMMA CopyAgrees ==
  ASSUME NEW old, NEW copy, NEW erased \in SUBSET Keys, Agrees(old, copy, erased), NEW map
  PROVE  LET kept == IF old = <<>> THEN copy ELSE <<>>
             left == IF old = <<>> THEN erased \ DOMAIN map ELSE {}
         IN  Agrees(map, Over(map, kept), left) /\ left \subseteq Keys
<1> DEFINE kept == IF old = <<>> THEN copy ELSE <<>>
           left == IF old = <<>> THEN erased \ DOMAIN map ELSE {}
<1>1. DOMAIN <<>> = {}
  OBVIOUS
<1>2. DOMAIN kept = IF old = <<>> THEN erased ELSE {}
  BY <1>1 DEF Agrees
<1> HIDE DEF kept
<1>3. /\ DOMAIN Over(map, kept) = DOMAIN map \cup DOMAIN kept
      /\ \A k \in DOMAIN map : Over(map, kept)[k] = map[k]
  BY OverIs
<1>4. DOMAIN map \cup DOMAIN kept = DOMAIN map \cup left /\ left \cap DOMAIN map = {}
  BY <1>2
<1>5. left \subseteq Keys
  OBVIOUS
<1> HIDE DEF left
<1>6. Agrees(map, Over(map, kept), left)
  BY <1>3, <1>4 DEF Agrees
<1> QED BY <1>5, <1>6 DEF kept, left

LEMMA ParamsCopy ==
  ASSUME ParamInv, NEW o \in Objects, NEW other \in Objects, Copy(o, other)
  PROVE  ParamInv'
<1> DEFINE map == params[other]
           copy == Over(map, IF params[o] = <<>> THEN mirror[o] ELSE <<>>)
           erased == IF params[o] = <<>> THEN untold[o] \ DOMAIN map ELSE {}
<1>1. /\ params' = [params EXCEPT ![o] = map] /\ mirror' = [mirror EXCEPT ![o] = copy]
      /\ untold' = [untold EXCEPT ![o] = erased]
  BY DEF Copy, Copied
<1>2. DOMAIN map \subseteq Keys /\ untold[o] \subseteq Keys /\ Agrees(params[o], mirror[o], untold[o])
  BY DEF ParamInv
<1>3. Agrees(map, copy, erased) /\ erased \subseteq Keys
  BY <1>2, CopyAgrees
<1> HIDE DEF copy, erased, map
<1> QED BY <1>1, <1>2, <1>3, OneChanges

\* The other map is empty after it, and its observer knows it unless it was so before.
LEMMA ParamsMove ==
  ASSUME ParamInv, NEW o \in Objects, NEW other \in Objects, Move(o, other)
  PROVE  ParamInv'
<1> DEFINE map == params[other]
           copy == Over(map, IF params[o] = <<>> THEN mirror[o] ELSE <<>>)
           erased == IF params[o] = <<>> THEN untold[o] \ DOMAIN map ELSE {}
<1>1. o # other /\ params' = [params EXCEPT ![o] = map, ![other] = <<>>]
  BY DEF Move
<1>2. /\ DOMAIN map \subseteq Keys /\ untold[o] \subseteq Keys /\ untold[other] \subseteq Keys
      /\ Agrees(params[o], mirror[o], untold[o]) /\ Agrees(map, mirror[other], untold[other])
  BY DEF ParamInv
<1>3. Agrees(map, copy, erased) /\ erased \subseteq Keys
  BY <1>2, CopyAgrees
<1>4. DOMAIN <<>> = {}
  OBVIOUS
<1>5. CASE map = <<>>
  <2>1. mirror' = [mirror EXCEPT ![o] = copy] /\ untold' = [untold EXCEPT ![o] = erased]
    BY <1>5 DEF Move, Copied
  <2>2. params' = [params EXCEPT ![o] = map]
    BY <1>1, <1>5 DEF ParamInv, OfObjects
  <2> HIDE DEF copy, erased, map
  <2> QED BY <1>2, <1>3, <2>1, <2>2, OneChanges
<1>6. CASE map # <<>>
  <2>1. /\ mirror' = [mirror EXCEPT ![other] = <<>>, ![o] = copy]
        /\ untold' = [untold EXCEPT ![other] = {}, ![o] = erased]
    BY <1>6 DEF Move
  <2>2. Agrees(<<>>, <<>>, {})
    BY <1>4 DEF Agrees
  <2> HIDE DEF copy, erased, map
  <2>3. OfObjects(params') /\ OfObjects(mirror') /\ OfObjects(untold')
    BY <1>1, <2>1 DEF ParamInv, OfObjects
  <2>4. /\ params'[o] = map /\ mirror'[o] = copy /\ untold'[o] = erased
        /\ params'[other] = <<>> /\ mirror'[other] = <<>> /\ untold'[other] = {}
    BY <1>1, <2>1 DEF ParamInv, OfObjects
  <2>5. \A x \in Objects \ {o, other} :
          params'[x] = params[x] /\ mirror'[x] = mirror[x] /\ untold'[x] = untold[x]
    BY <1>1, <2>1 DEF ParamInv, OfObjects
  <2>6. ASSUME NEW x \in Objects
        PROVE  /\ DOMAIN params'[x] \subseteq Keys /\ untold'[x] \subseteq Keys
               /\ Agrees(params'[x], mirror'[x], untold'[x])
    <3>1. CASE x = o
      BY <1>2, <1>3, <2>4, <3>1
    <3>2. CASE x = other
      BY <1>4, <2>2, <2>4, <3>2
    <3>3. CASE x \in Objects \ {o, other}
      BY <2>5, <3>3 DEF ParamInv
    <3> QED BY <3>1, <3>2, <3>3
  <2> QED BY <2>3, <2>6 DEF ParamInv
<1> QED BY <1>5, <1>6

\* An observer of the events has the parameters, after any sequence of calls, for any
\* objects and keys, but for the keys erased as the last ones by erase(key).
THEOREM ObserversAlwaysFollow ==
  ParametersInit /\ [][ParametersNext]_paramVars => []ObserversFollow
<1>1. ParamInv /\ [ParametersNext]_paramVars => ParamInv'
  <2> SUFFICES ASSUME ParamInv, [ParametersNext]_paramVars PROVE ParamInv'
    OBVIOUS
  <2>1. CASE UNCHANGED paramVars
    BY <2>1 DEF paramVars, ParamInv, OfObjects
  <2>2. ASSUME NEW o \in Objects,
               \/ \E k \in Keys, v \in Values : Emplace(o, k, v)
               \/ \E k \in Keys : Erase(o, k)
               \/ \E keys \in Ranges \cup {Keys} : Clear(o, keys)
               \/ \E other \in Objects : Copy(o, other) \/ Move(o, other)
        PROVE  ParamInv'
    BY <2>2, ParamsEmplace, ParamsErase, ParamsClear, ParamsCopy, ParamsMove
  <2> QED BY <2>1, <2>2 DEF ParametersNext
<1>2. ParamInv => ObserversFollow
  BY DEF ParamInv, Agrees, ObserversFollow
<1> QED BY ParamsInit, <1>1, <1>2, PTL
=============================================================================
