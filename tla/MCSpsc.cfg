SPECIFICATION FairSpec
CONSTANTS
    Size = 2
    Value = {v1, v2}
    Zero = zero
    MaxSeq = 5
INVARIANTS
    TypeOK
    NoSlotRace
    CachedViewsSafe
    FreeSlotsZeroed
    LenWithinCap
PROPERTIES
    ImplementsFifo
    EveryPushPopped
