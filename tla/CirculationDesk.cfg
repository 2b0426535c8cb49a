SPECIFICATION Spec
CONSTANTS
    None = None
    Item <- Item1
    Patron = {"ann", "bob", "cal"}
    Branch = {"east", "west"}
    Hold <- Hold1
    Group = {}
    Desk = {"d1"}
    BibOfItem <- Bib1
    Home <- Home1
    Request <- Request1
    DeskStatuses = {}
    Archivable = {}
    SendTo = {}
    Suspensions = {}
    Priorities = {0}
    NoExpiry = {}
INVARIANTS
    CollectableIffArrived
    ReturnNeverRefused
PROPERTIES
    LentToItsReader
    KeepsTheLine
    OnlyStaleReadsStrand
