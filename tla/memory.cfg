CONSTANTS
    Thread = {t1, t2}
    \* numbers, because addresses are computed from them
    Chunk = {1, 2, 3}
    NoChunk = 0
    MaxChunksInMemoryPool = 0
    ChunkWords = 6
    PageWords = 2
    Alignments = {2}
    Sizes = {1}
    MaxAllocations = 3
SPECIFICATION FairArenaSpec
INVARIANTS ExclusiveOwnership FreeListBounded CounterTracksFreeList ArenaIsSound
PROPERTY AllocatorSpec ResetTerminates
