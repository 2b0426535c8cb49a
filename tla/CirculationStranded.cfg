SPECIFICATION Spec
CONSTANTS
    None = None
    Item <- Item1
    Patron = {"ann", "bob"}
    Branch = {"east", "west"}
    Hold <- Hold2
    Group = {}
    Desk = {"d1"}
    BibOfItem <- Bib1
    Home <- Home1
    Request <- Request2
    DeskStatuses = {}
    Archivable = {}
    SendTo = {}
    Suspensions = {}
    Priorities = {0}
    NoExpiry = {}
INVARIANTS
    SetAsideHasReader
