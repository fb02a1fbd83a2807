\* Up to two values in a packet and two packets on the wire; two of the widest
\* values do not fit the buffer.
CONSTANTS
    Capacity = 12
    Opcode = 2565
    Values <- SmallValues
    MaxValues = 2
    MaxWire = 2
SPECIFICATION Spec
INVARIANTS
    ReadsWhatWasWritten
    StreamInStep
    NoStaleBytes
    ThrowsOnlyOnMisread
