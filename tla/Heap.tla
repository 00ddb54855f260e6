-------------------------------- MODULE Heap --------------------------------
(***************************************************************************)
(* What AllocatorI (Base/Memory) promises its client: a request is granted *)
(* a range that starts at a multiple of the alignment and shares no byte   *)
(* with a range that is still held, or is passed on to the backing         *)
(* allocator, or is refused.  Ranges are half open intervals lo .. hi - 1  *)
(* of offsets into the heap's own buffer, with the alignment asked for.    *)
(*                                                                         *)
(* ScratchRing is the detailed specification that implements this one.     *)
(***************************************************************************)
EXTENDS Integers

CONSTANTS Size,    \* bytes of the heap's own buffer
          Base,    \* address of the buffer
          Sizes,   \* sizes requested
          Aligns   \* alignments requested

VARIABLES held,    \* the ranges of the buffer held by clients
          outside  \* number of blocks held that the backing allocator granted

Apart(r, q) == r.hi <= q.lo \/ q.hi <= r.lo

Init == held = {} /\ outside = 0

\* AllocatorI::Allocate, from the heap's own buffer.
Grant ==
  \E size \in Sizes, align \in Aligns, lo \in 0 .. Size :
    LET r == [lo |-> lo, hi |-> lo + size, align |-> align]
    IN  /\ (Base + lo) % align = 0
        /\ r.hi <= Size
        /\ \A q \in held : Apart(r, q) /\ r.lo # q.lo
        /\ held' = held \cup {r}
        /\ UNCHANGED outside

\* AllocatorI::Deallocate of a range of the buffer.
Release ==
  \E r \in held : held' = held \ {r} /\ UNCHANGED outside

\* The same two calls when the block comes from the backing allocator.
GrantOutside == outside' = outside + 1 /\ UNCHANGED held
ReleaseOutside == outside > 0 /\ outside' = outside - 1 /\ UNCHANGED held

Next == Grant \/ Release \/ GrantOutside \/ ReleaseOutside

HeapSpec == Init /\ [][Next]_<<held, outside>>
=============================================================================
