-------------------------------- MODULE Packet --------------------------------
(***************************************************************************)
(* Packets (Memory/Packet.h, Packet.cpp): an area of memory, which belongs *)
(* to the program, to a shared buffer of the packet, or to the one of      *)
(* another packet that it references.  A packet "owns" a box, the Shared   *)
(* of _ppBuffer, when _reference is false.                                  *)
(*                                                                          *)
(* A packet which references another one must not be used after a change   *)
(* of it: the model marks it "lost" when its box is deleted.  The memory   *)
(* of the program outlives the packets which point to it.                  *)
(***************************************************************************)
EXTENDS Naturals, Sequences

CONSTANTS
  Packets,    \* the packets
  MaxBuffers, \* bound: shared buffers
  NoMemory,       \* no memory, no box: _NullBytes
  User,       \* memory of the program
  Static      \* its constants, which need no buffer: NULL

\* An address is not a number, as a buffer is.
ASSUME PacketAssumption ==
  /\ MaxBuffers \in Nat
  /\ NoMemory \notin {User, Static} /\ User # Static
  /\ {NoMemory, User, Static} \cap (Packets \cup Nat) = {}

VARIABLES
  host,     \* the packet whose box is *_ppBuffer, NoMemory for _NullBytes, Static for NULL
  ref,      \* _reference
  box,      \* the buffer of the box that a packet owns, or NoMemory
  area,     \* [mem, from, size]: _data and _size; mem is NoMemory when _data is NULL
  bytes,    \* the contents of the shared buffers, in the order of their creation
  lost,     \* packets which reference a box deleted since
  meant     \* the bytes that the program has put in a packet

packetVars == <<host, ref, box, area, bytes, lost, meant>>

NoArea == [mem |-> NoMemory, from |-> 0, size |-> 0]
UserBytes == <<1, 2, 3>>

Part(a, buffers) ==
  LET memory == IF a.mem \in {User, Static} THEN UserBytes
                ELSE IF a.mem = NoMemory THEN <<>> ELSE buffers[a.mem]
  IN  SubSeq(memory, a.from + 1, a.from + a.size)

PacketInit ==
  /\ host = [p \in Packets |-> NoMemory] /\ ref = [p \in Packets |-> TRUE]
  /\ box = [p \in Packets |-> NoMemory] /\ area = [p \in Packets |-> NoArea]
  /\ bytes = <<>> /\ lost = {} /\ meant = [p \in Packets |-> <<>>]

\* The packets which point to the box of p.
Borrowers(p) == {r \in Packets \ {p} : host[r] = p}

\* p gets a box or a reference of its own; the box which it had is deleted.
Becomes(p, h, r, b, a) ==
  /\ host' = [host EXCEPT ![p] = h] /\ ref' = [ref EXCEPT ![p] = r]
  /\ box' = [box EXCEPT ![p] = b] /\ area' = [area EXCEPT ![p] = a]
  /\ lost' = (lost \ {p}) \cup (IF box[p] # NoMemory THEN Borrowers(p) ELSE {})
  /\ meant' = [meant EXCEPT ![p] = Part(a, bytes')]

\* set(data, size), for the memory of the program, and set(NULL, 0).
SetData(p) ==
  UNCHANGED bytes /\ Becomes(p, NoMemory, TRUE, NoMemory, [mem |-> User, from |-> 0, size |-> 3])

Reset(p) == UNCHANGED bytes /\ Becomes(p, NoMemory, TRUE, NoMemory, NoArea)

\* set(CharType(&)[size]): no need to buffer it.
SetStatic(p) ==
  UNCHANGED bytes /\ Becomes(p, Static, TRUE, NoMemory, [mem |-> Static, from |-> 0, size |-> 3])

\* set(Shared<ByteType>&): the buffer of the program is captured.
Capture(p) ==
  /\ Len(bytes) < MaxBuffers /\ bytes' = Append(bytes, <<4, 5>>)
  /\ Becomes(p, p, FALSE, Len(bytes'), [mem |-> Len(bytes'), from |-> 0, size |-> 2])

Usable(p) == p \notin lost
Buffered(p) == host[p] \in Packets
BufferOf(p) == box[host[p]]

\* set(const Shared<const ByteType>&), for the buffer() of another packet: that of p itself
\* is deleted before it is copied.
Share(p, q) ==
  /\ p # q /\ Usable(q) /\ Buffered(q) /\ host[q] # p /\ UNCHANGED bytes
  /\ Becomes(p, p, FALSE, BufferOf(q),
             [mem |-> BufferOf(q), from |-> 0, size |-> Len(bytes[BufferOf(q)])])

\* Mutant of Refer: the owner of the box that q references deletes it.
ReferBlindly(p, q) ==
  /\ p # q /\ Usable(q) /\ UNCHANGED bytes
  /\ Becomes(p, host[q], TRUE, NoMemory, area[q])

\* set(const Packet&): a reference, but to itself.
Refer(p, q) ==
  /\ p # q /\ Usable(q) /\ UNCHANGED bytes
  /\ IF ~ref[p] /\ host[q] = host[p]
     THEN /\ area' = [area EXCEPT ![p] = area[q]] /\ meant' = [meant EXCEPT ![p] = meant[q]]
          /\ UNCHANGED <<host, ref, box, lost>>
     ELSE Becomes(p, host[q], TRUE, NoMemory, area[q])

\* set(const Packet&&): q is bufferized first, when its memory is the program's, and p
\* takes a share of its buffer. A q which references p would be used after the deletion
\* of its box: "packet = packet + 1" does it.
Take(p, q) ==
  /\ p # q /\ Usable(q) /\ host[q] # p
  /\ \/ /\ area[q].mem = NoMemory /\ UNCHANGED bytes
        /\ Becomes(p, NoMemory, TRUE, NoMemory, NoArea)
     \/ /\ area[q].mem # NoMemory /\ host[q] # NoMemory /\ UNCHANGED bytes
        /\ Becomes(p, IF host[q] = Static THEN Static ELSE p, FALSE,
                   IF host[q] = Static THEN NoMemory ELSE BufferOf(q), area[q])
     \/ /\ area[q].mem # NoMemory /\ host[q] = NoMemory /\ Len(bytes) < MaxBuffers
        /\ bytes' = Append(bytes, Part(area[q], bytes))
        /\ LET a == [mem |-> Len(bytes'), from |-> 0, size |-> area[q].size] IN
           /\ host' = [host EXCEPT ![p] = p, ![q] = q]
           /\ ref' = [ref EXCEPT ![p] = FALSE, ![q] = FALSE]
           /\ box' = [box EXCEPT ![p] = Len(bytes'), ![q] = Len(bytes')]
           /\ area' = [area EXCEPT ![p] = a, ![q] = a]
        /\ lost' = (lost \ {p}) \cup (IF box[p] # NoMemory THEN Borrowers(p) ELSE {})
        /\ meant' = [meant EXCEPT ![p] = meant[q]]

\* operator+= and operator-=: the area shrinks from its start or from its end.
Shrink(p, head, tail) ==
  LET h == IF head > area[p].size THEN area[p].size ELSE head
      t == IF tail > area[p].size - h THEN area[p].size - h ELSE tail
  IN  /\ Usable(p) /\ area[p].mem # NoMemory
      /\ area' = [area EXCEPT ![p] = [mem |-> @.mem, from |-> @.from + h, size |-> @.size - h - t]]
      /\ meant' = [meant EXCEPT ![p] = SubSeq(@, h + 1, Len(@) - t)]
      /\ UNCHANGED <<host, ref, box, bytes, lost>>

PacketNext ==
  \E p \in Packets :
    \/ SetData(p) \/ Reset(p) \/ SetStatic(p) \/ Capture(p)
    \/ \E q \in Packets : Share(p, q) \/ Refer(p, q) \/ Take(p, q)
    \/ Shrink(p, 1, 0) \/ Shrink(p, 0, 1)

-----------------------------------------------------------------------------
(* Correctness *)

\* A packet which is not lost holds its bytes: those of a buffer are in the one of the
\* box to which it points, and an owner is never lost, whatever the other packets and
\* the program have done since.
PacketsHold ==
  /\ \A p \in Packets : ~ref[p] => p \notin lost /\ host[p] \in {p, Static}
  /\ \A p \in Packets \ lost :
       /\ Buffered(p) => BufferOf(p) # NoMemory /\ area[p].mem = BufferOf(p)
       /\ ~Buffered(p) => area[p].mem \in {User, Static, NoMemory}
       /\ ~ref[p] => area[p].mem # User
       /\ meant[p] = Part(area[p], bytes)
=============================================================================
