SPECIFICATION FairSpec
CONSTANTS
    None = None
    Item <- Item1
    Patron = {"ann", "bob"}
    Branch = {"east", "west"}
    Hold <- Hold2
    Group = {"g"}
    Desk = {"d1", "d2"}
    BibOfItem <- Bib3
    Home <- Home3
    Request <- Request3
    DeskStatuses = {}
    Archivable = {}
    SendTo = {}
    Suspensions = {}
    Priorities = {0}
    NoExpiry = {"h1"}
INVARIANTS
    GroupOnce
PROPERTIES
    AssignmentEnds
