\* A client enters cells whose counters hold 0 or 65535 when they are made.
CONSTANTS
    Offsets <- Row
    Entities = {p}
    Clients = {p}
    Garbage = {0, 65535}
    MaxOps = 4
    None = None
SPECIFICATION Spec
INVARIANT
    SilentOnlyIfEmpty
