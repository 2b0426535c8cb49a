SPECIFICATION RowSpec
CONSTANTS
    Hold <- MCHold
    BibOf <- MCBibOf
INVARIANTS
    QueueIntegrity
    OrderedScanCloses
PROPERTIES
    KeepsTheLine
    CommitsTheWholeShift
