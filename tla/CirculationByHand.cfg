SPECIFICATION Spec
CONSTANTS
    None = None
    Item <- Item4
    Patron = {"ann", "bob"}
    Branch = {"east", "west"}
    Hold <- Hold2
    Group = {}
    Desk = {"d1"}
    BibOfItem <- Bib4
    Home <- Home4
    Request <- Request5
    DeskStatuses = {"available", "missing", "in_process"}
    Archivable <- Item4
    SendTo = {"east", "west"}
    Suspensions = {"dated"}
    Priorities = {0, 1}
    NoExpiry = {}
INVARIANTS
    TablesAreSound
    OnLoanHasLoan
    AssignedIsComing
PROPERTIES
    SuspendedIsSkipped
