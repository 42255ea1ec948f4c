--------------------------- MODULE MonotonicBuffer ---------------------------
(***************************************************************************)
(* MonotonicBufferResource of src/utils/memory.cpp: a resource that hands  *)
(* out memory by bumping allocated_ through its current buffer, pushes a   *)
(* new buffer taken from its upstream memory_ when a request does not      *)
(* fit, grows the next buffer's size by 1.34, and frees only on Release.   *)
(* It may start on a caller-provided initial_buffer_.                      *)
(*                                                                         *)
(* size_t and pointers are Width-bit unsigned integers, so every sum the   *)
(* code checks for overflow wraps as it does in 64 bits.  Two resources    *)
(* share one upstream, and one may be moved into the other (the move       *)
(* constructor and move assignment).  A call is one atomic step: the       *)
(* resource is not thread-safe.  DoDeallocate does nothing (memory.hpp)    *)
(* and is left out.                                                        *)
(***************************************************************************)
EXTENDS Naturals, Sequences, FiniteSets, TLC

CONSTANTS
    Resources,      \* the MonotonicBufferResource objects
    Width,          \* bits of size_t and of a pointer (64)
    HeaderSize,     \* sizeof(Buffer)
    MaxAlign,       \* alignof(std::max_align_t)
    InitialSize,    \* the constructors' initial_size
    InitialRegion,  \* <<address, size>> of the caller's buffer for the
                    \* (buffer, buffer_size, memory) constructor
    Requests,       \* the <<bytes, alignment>> requests the program makes
    UseAfterMove    \* whether a moved-from resource is used again before
                    \* it is assigned to

ASSUME /\ Width \in Nat /\ Width > 0
       /\ HeaderSize \in Nat /\ MaxAlign \in Nat /\ MaxAlign > 0 /\ InitialSize \in Nat
       /\ \A req \in Requests : req[1] \in Nat /\ req[2] \in Nat /\ req[2] > 0
       /\ UseAfterMove \in BOOLEAN

VARIABLES
    alive,              \* the constructed resources
    buffers,            \* current_buffer_ and its next chain, newest first
    allocated,          \* allocated_
    next_buffer_size,   \* next_buffer_size_
    initial_buffer,     \* initial_buffer_: 0 (nullptr) or InitialRegion's address
    initial_size,       \* initial_size_
    moved_from,         \* history: the resources moved from, not assigned to since
    live,               \* history: the blocks each resource handed out
    handed_twice        \* history: a block was handed out while in use

vars == <<alive, buffers, allocated, next_buffer_size, initial_buffer, initial_size,
         moved_from, live, handed_twice>>

Word == 2^Width
MaxSize == Word - 1                   \* std::numeric_limits<size_t>::max()

Bytes(r) == r[1]
Alignment(r) == r[2]

MaxOf(a, b) == IF a >= b THEN a ELSE b

\* RoundUint64ToMultiple (utils/math.hpp): the least multiple of m not
\* below v, as a set of at most one value; empty (std::nullopt) when
\* v + m - 1 overflows.
RoundToMultiple(v, m) == IF v + m - 1 >= Word THEN {} ELSE {((v + m - 1) \div m) * m}

\* Buffer::bytes_for_buffer and Buffer::data (memory.hpp): the Buffer
\* header is rounded up to the buffer's alignment and the data follows it.
Header(b) == CHOOSE h \in RoundToMultiple(HeaderSize, b.alignment) : TRUE
Data(b) == (b.addr + Header(b)) % Word

\* The memory a buffer occupies upstream: Buffer::size() bytes from its
\* address, as integers (a buffer never wraps).
Extent(b) == [lo |-> b.addr, hi |-> b.addr + Header(b) + b.capacity]

\* std::align of libstdc++: the first address from ptr aligned to align, if
\* size bytes from there fit in space; a set of at most one address.
StdAlign(align, size, ptr, space) ==
    IF space < size THEN {}
    ELSE LET aligned == LET x == (ptr + align - 1) % Word IN x - (x % align)
             diff    == (aligned + Word - ptr) % Word
         IN  IF diff > space - size THEN {} ELSE {aligned}

\* GrowMonotonicBuffer: current_size * 1.34, rounded up, clamped at
\* max_size.  The double's rounding is exact at these sizes.
GrowMonotonicBuffer(current, max) ==
    IF current * 134 >= max * 100 THEN max ELSE (current * 134 + 99) \div 100

\* The addresses the upstream may hand out: multiples of MaxAlign, and 0
\* for an upstream that throws BadAlloc.
UpstreamAnswers == { k * MaxAlign : k \in 0..(Word \div MaxAlign) - 1 }

\* Memory in use besides the buffers in bufs: every other live resource's
\* buffers and the caller's initial region.
Occupied(r, bufs) ==
    { Extent(b) : b \in { bufs[i] : i \in 1..Len(bufs) } }
    \cup UNION { { Extent(buffers[o][i]) : i \in 1..Len(buffers[o]) } : o \in alive \ {r} }
    \cup { [lo |-> InitialRegion[1], hi |-> InitialRegion[1] + InitialRegion[2]] }

\* The upstream memory_->Allocate(n, align) may return u: u is aligned, not
\* null, below the top of the address space, and overlaps nothing in use.
Placeable(u, n, align, r, bufs) ==
    /\ u > 0 /\ u % align = 0 /\ u + n < Word
    /\ \A e \in Occupied(r, bufs) : u + n <= e.lo \/ e.hi <= u

-----------------------------------------------------------------------------
(* DoAllocate, as a function from the inputs to its outcome.               *)

\* Faulty variant, for mutation: alloc_align without the request's alignment.
AllocAlignDefault(req) == MaxAlign

\* std::max(alignment, alignof(std::max_align_t)).
AllocAlign(req) == MaxOf(Alignment(req), MaxAlign)

\* Faulty variant, for mutation: no check of bytes_for_buffer + size.
SizeOverflowsNever(alloc_size, size) == FALSE

\* if (alloc_size < size) throw BadAlloc("Allocation size overflow").
SizeOverflows(alloc_size, size) == alloc_size < size

\* push_current_buffer(next_size) of resource r over the chain bufs, with
\* the upstream answering u: the new chain, or {} when it throws.
PushBuffer(r, bufs, next_size, req, u) ==
    LET size  == MaxOf(next_size, Bytes(req))
        align == AllocAlign(req)
        hdr   == RoundToMultiple(HeaderSize, align)
    IN  IF hdr = {} THEN {}
        ELSE LET bfb   == CHOOSE h \in hdr : TRUE
                 alloc == (bfb + size) % Word
             IN  IF SizeOverflows(alloc, size) \/ ~Placeable(u, alloc, align, r, bufs)
                 THEN {}
                 ELSE { <<[addr |-> u, capacity |-> (alloc + Word - bfb) % Word,
                           alignment |-> align]>> \o bufs }

\* Faulty variant, for mutation: allocated_ not advanced past the block.
AllocatedAfterNoBytes(aligned, data, bytes) == (aligned + Word - data) % Word

\* allocated_ = aligned_ptr - data + bytes.
AllocatedAfter(aligned, data, bytes) == (aligned + Word - data + bytes) % Word

\* Faulty variant, for mutation: the whole capacity taken as available.
AvailableAll(capacity, alloc) == capacity

\* size_t available = data_capacity - allocated_.
Available(capacity, alloc) == (capacity + Word - alloc) % Word

\* The state DoAllocate leaves, from a state s of the resource, when it
\* throws: whatever it did before the throw stays done.
Threw(s) == [bufs |-> s.bufs, allocated |-> s.allocated, next |-> s.next, handed |-> {}]

\* The first part of DoAllocate(bytes, alignment) on resource r: the area
\* to bump in is the current buffer, the initial buffer, or a buffer of
\* initial_size_ pushed first, the upstream answering u1.
Area(r, req, u1) ==
    LET s0 == [bufs |-> buffers[r], allocated |-> allocated[r], next |-> next_buffer_size[r]]
        p1 == PushBuffer(r, buffers[r], initial_size[r], req, u1)
    IN  IF buffers[r] # << >>
        THEN s0 @@ [data |-> Data(Head(buffers[r])), cap |-> Head(buffers[r]).capacity, ok |-> TRUE]
        ELSE IF initial_buffer[r] # 0
        THEN s0 @@ [data |-> initial_buffer[r], cap |-> initial_size[r], ok |-> TRUE]
        ELSE IF p1 = {} THEN s0 @@ [data |-> 0, cap |-> 0, ok |-> FALSE]
        ELSE LET nb == CHOOSE x \in p1 : TRUE
             IN  [bufs |-> nb, allocated |-> 0, next |-> s0.next,
                  data |-> Data(Head(nb)), cap |-> Head(nb).capacity, ok |-> TRUE]

\* The second part: std::align in the area s1, or, when the request does
\* not fit, a buffer of next_buffer_size_ pushed (the upstream answering
\* u2) and next_buffer_size_ grown.
Bump(r, req, s1, u2) ==
    LET head == (s1.data + s1.allocated) % Word
        fits == StdAlign(Alignment(req), Bytes(req), head, Available(s1.cap, s1.allocated))
        p2   == PushBuffer(r, s1.bufs, s1.next, req, u2)
    IN  IF fits # {}
        THEN s1 @@ [head |-> head, aligned |-> CHOOSE a \in fits : TRUE, ok2 |-> TRUE]
        ELSE IF p2 = {} THEN s1 @@ [head |-> 0, aligned |-> 0, ok2 |-> FALSE]
        ELSE LET nb == CHOOSE x \in p2 : TRUE
             IN  [bufs |-> nb, allocated |-> 0,
                  next |-> GrowMonotonicBuffer(s1.next, MaxSize - HeaderSize),
                  data |-> Data(Head(nb)), head |-> Data(Head(nb)),
                  aligned |-> Data(Head(nb)), ok2 |-> TRUE]

\* The last part: "Allocation alignment overflow", then
\* CheckAllocationSizeOverflow, then allocated_ advanced past the block.
Finish(req, s2) ==
    IF s2.aligned < s2.head \/ (s2.aligned + Bytes(req)) % Word <= s2.aligned
    THEN Threw(s2)
    ELSE [bufs |-> s2.bufs, allocated |-> AllocatedAfter(s2.aligned, s2.data, Bytes(req)),
          next |-> s2.next,
          handed |-> {[ptr |-> s2.aligned, bytes |-> Bytes(req), alignment |-> Alignment(req)]}]

\* DoAllocate as a whole, from the results s1 and s2 of its parts: a throw
\* leaves what was done before it.
Outcome(req, s1, s2) ==
    IF ~s1.ok \/ ~s2.ok2 THEN Threw(s1) ELSE Finish(req, s2)

\* The blocks in use, handed out by any resource.
AllLive == UNION { live[r] : r \in alive }

-----------------------------------------------------------------------------
(* Actions.                                                                *)

\* The upstream answers that matter to a call: a first push only happens on
\* a resource with neither a current nor an initial buffer.
FirstAnswers(r) ==
    IF buffers[r] = << >> /\ initial_buffer[r] = 0 THEN UpstreamAnswers ELSE {0}

\* Allocate(bytes, alignment) on resource r.  A moved-from resource is used
\* again only when UseAfterMove holds.
Allocate(r, req) ==
    /\ r \in alive
    /\ UseAfterMove \/ r \notin moved_from
    /\ \E u1 \in FirstAnswers(r), u2 \in UpstreamAnswers :
       \E s1 \in {Area(r, req, u1)} : \E s2 \in {Bump(r, req, s1, u2)} :
         LET o == Outcome(req, s1, s2)
         IN  /\ buffers' = [buffers EXCEPT ![r] = o.bufs]
             /\ allocated' = [allocated EXCEPT ![r] = o.allocated]
             /\ next_buffer_size' = [next_buffer_size EXCEPT ![r] = o.next]
             /\ live' = [live EXCEPT ![r] = @ \cup o.handed]
             /\ handed_twice' = (handed_twice \/ o.handed \cap AllLive # {})
    /\ UNCHANGED <<alive, initial_buffer, initial_size, moved_from>>

\* Release(): every buffer goes back upstream, and the blocks handed out
\* from them or from the initial buffer are no longer in use.
Release(r) ==
    /\ r \in alive
    /\ buffers' = [buffers EXCEPT ![r] = << >>]
    /\ next_buffer_size' = [next_buffer_size EXCEPT ![r] = initial_size[r]]
    /\ allocated' = [allocated EXCEPT ![r] = 0]
    /\ live' = [live EXCEPT ![r] = {}]
    /\ UNCHANGED <<alive, initial_buffer, initial_size, moved_from, handed_twice>>

\* The fields the move constructor and the move assignment copy from other
\* to this, with the blocks other handed out, which now live in this's memory.
Copy(f, to, from) == [f EXCEPT ![to] = f[from]]

\* MonotonicBufferResource(MonotonicBufferResource &&other): only
\* other.current_buffer_ is cleared.
MoveConstruct(from, to) ==
    /\ from \in alive /\ to \notin alive
    /\ alive' = alive \cup {to}
    /\ buffers' = [Copy(buffers, to, from) EXCEPT ![from] = << >>]
    /\ allocated' = Copy(allocated, to, from)
    /\ next_buffer_size' = Copy(next_buffer_size, to, from)
    /\ initial_buffer' = Copy(initial_buffer, to, from)
    /\ initial_size' = Copy(initial_size, to, from)
    /\ live' = [Copy(live, to, from) EXCEPT ![from] = {}]
    /\ moved_from' = moved_from \cup {from}
    /\ UNCHANGED handed_twice

\* operator=(MonotonicBufferResource &&other): Release() this, copy, then
\* clear other.current_buffer_ and other.allocated_.
MoveAssign(from, to) ==
    /\ from \in alive /\ to \in alive /\ from # to
    /\ buffers' = [Copy(buffers, to, from) EXCEPT ![from] = << >>]
    /\ allocated' = [Copy(allocated, to, from) EXCEPT ![from] = 0]
    /\ next_buffer_size' = Copy(next_buffer_size, to, from)
    /\ initial_buffer' = Copy(initial_buffer, to, from)
    /\ initial_size' = Copy(initial_size, to, from)
    /\ live' = [Copy(live, to, from) EXCEPT ![from] = {}]
    /\ moved_from' = (moved_from \ {to}) \cup {from}
    /\ UNCHANGED <<alive, handed_twice>>

\* The program constructs some of the resources, at most one of them on the
\* caller's InitialRegion; the others may be move-constructed later.
Init ==
    /\ alive \in SUBSET Resources \ {{}}
    /\ initial_buffer \in { f \in [Resources -> {0, InitialRegion[1]}] :
                             \A x, y \in Resources : f[x] # 0 /\ f[y] # 0 => x = y }
    /\ \A r \in Resources : initial_buffer[r] # 0 => r \in alive
    /\ initial_size = [r \in Resources |->
                         IF initial_buffer[r] # 0 THEN InitialRegion[2] ELSE InitialSize]
    /\ next_buffer_size = initial_size
    /\ buffers = [r \in Resources |-> << >>]
    /\ allocated = [r \in Resources |-> 0]
    /\ moved_from = {}
    /\ live = [r \in Resources |-> {}]
    /\ handed_twice = FALSE

Next ==
    \/ \E r \in Resources, req \in Requests : Allocate(r, req)
    \/ \E r \in Resources : Release(r)
    \/ \E from, to \in Resources : MoveConstruct(from, to)
    \/ \E from, to \in Resources : MoveAssign(from, to)

Spec == Init /\ [][Next]_vars

-----------------------------------------------------------------------------
(* Properties.                                                             *)

Block == [ptr : 0..MaxSize, bytes : 1..MaxSize, alignment : 1..MaxSize]
BufferRec == [addr : 1..MaxSize, capacity : 0..MaxSize, alignment : 1..MaxSize]

\* A Buffer lies in the address space: the size Release() hands back to
\* memory_ is a block that memory_ can have handed out.
InAddressSpace(b) == Extent(b).hi < Word

\* The resources' variables hold values of their types, and every Buffer
\* is a block of the address space: the overflow check of alloc_size in
\* push_current_buffer keeps Buffer::size() from wrapping.
TypeOK ==
    /\ alive \subseteq Resources /\ moved_from \subseteq alive
    /\ \A r \in Resources : \A i \in 1..Len(buffers[r]) :
          buffers[r][i] \in BufferRec /\ InAddressSpace(buffers[r][i])
    /\ allocated \in [Resources -> 0..MaxSize]
    /\ next_buffer_size \in [Resources -> 0..MaxSize - HeaderSize]
    /\ initial_buffer \in [Resources -> {0, InitialRegion[1]}]
    /\ \A r \in Resources : live[r] \subseteq Block
    /\ handed_twice \in BOOLEAN

\* The memory a resource hands out from: the data of its buffers, and its
\* initial buffer, as intervals of integers.
Areas(r) ==
    { [lo |-> Data(b), hi |-> Extent(b).hi] : b \in { buffers[r][i] : i \in 1..Len(buffers[r]) } }
    \cup (IF initial_buffer[r] # 0
          THEN {[lo |-> initial_buffer[r], hi |-> initial_buffer[r] + initial_size[r]]}
          ELSE {})

\* Every block a resource has handed out, and not released, lies inside one
\* of the areas it owns, without wrapping around the address space: the
\* overflow checks of push_current_buffer and CheckAllocationSizeOverflow,
\* and the capacity left after the header, keep std::align within the buffer.
LiveBlocksInside ==
    \A r \in alive : \A l \in live[r] :
        \E a \in Areas(r) : a.lo <= l.ptr /\ l.ptr + l.bytes <= a.hi

\* No byte is in two blocks in use at once, over all resources: allocated_
\* advances past each block, push_current_buffer restarts it at zero on a
\* fresh buffer, and a move hands the memory to exactly one resource.
LiveBlocksDisjoint ==
    /\ ~handed_twice
    /\ \A r1, r2 \in alive : \A l1 \in live[r1], l2 \in live[r2] :
          (r1 # r2 \/ l1 # l2) => l1.ptr + l1.bytes <= l2.ptr \/ l2.ptr + l2.bytes <= l1.ptr

\* Every block is aligned as requested, also when it is the first block of
\* a buffer pushed for it.
LiveBlocksAligned == \A l \in AllLive : l.ptr % l.alignment = 0

=============================================================================
