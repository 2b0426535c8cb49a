SPECIFICATION Spec
CONSTANTS
    Tab = {"t1", "t2"}
    MaxLapses = 1
    Body = {"a", "b"}
    User = {"u1", "u2"}
    MaxVersions = 4
    MaxCopies = 1
    None = None
INVARIANTS
    LockIsAsTold
    RecordIsSound
    PageIsOfTheRecord
PROPERTIES
    OnlyIdleSaveRewinds
    NoLostEdit
    DeletesWhatItSaw
