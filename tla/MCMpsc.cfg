\* Two producers on a ring scaled down to two slots, so that the third ticket
\* reuses a slot; errors of the function and of the batch.
SPECIFICATION FairSpec
CONSTANTS
    Size = 2
    Producers = {p1, p2}
    FnErrs = {e1}
    BatchErrs = {e2}
    NoErr = nil
    SpinLimit = 0
    MaxSeq = 3
INVARIANTS
    ReservationBound
    OneOwnerPerSlot
    OneSpinnerPerSlot
    SignalFits
    IndInv
PROPERTIES
    ImplementsGroupCommit
    CallsReturn
