\* PoolResource: two pooled block sizes (1 and 2) created in either order,
\* chunks of two blocks so that a pool takes a second chunk, big blocks of 4,
\* and three upstream addresses so that upstream can run out.
\* MonotonicBufferResource: two resources over one upstream in a 5-bit
\* address space, a 5-byte Buffer header and 4-byte max_align_t; moved-from
\* resources are only assigned to or released.
CONSTANTS
    MaxBlockSize = 2
    BlocksPerChunk = 2
    Addrs = {1, 2, 3}
    UpstreamIsMonotonic = FALSE
    r1 = r1
    r2 = r2
    Width = 5
    HeaderSize = 5
    MaxAlign = 4
    InitialSize = 2
    UseAfterMove = FALSE
SPECIFICATION Spec
INVARIANTS
    TypeOK
    BlocksPartitioned
    CachesCurrent
    UnpooledMatchesLive
    UpstreamAccounted
    LiveBlocksInside
    LiveBlocksDisjoint
    LiveBlocksAligned
PROPERTY AllocatorRefined
SYMMETRY MCSymmetry
