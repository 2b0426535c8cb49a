------------------------------- MODULE Catalogue -------------------------------
(***************************************************************************)
(* One catalogue record: its editor (bib-write.service.ts), its deletion   *)
(* (bib-delete.service.ts), its page in the public catalogue               *)
(* (bib-projection.service.ts and the repair of catalog-verify.ts), the    *)
(* copies hung on it (items.service.ts) and the record lock, which gates   *)
(* nothing.                                                                *)
(*                                                                         *)
(* A save takes the record's advisory lock, reads, and writes in one       *)
(* transaction; what it writes starts with the compare-and-set of the      *)
(* record's row, whose row lock keeps every other writer of the row out to *)
(* the commit.  So a save is two steps, its read and its writes.  Deleting *)
(* and undeleting are two steps too, and take no advisory lock at all.     *)
(*                                                                         *)
(* A content is what content_hash covers: the fields without 005, and the  *)
(* record status of the leader ("n" new, "c" corrected).                   *)
(***************************************************************************)
EXTENDS RecordLock

CONSTANTS
    Body,        \* what the fields of the record may say
    User,        \* people with a request in progress
    MaxVersions, \* bound: rows of the history
    MaxCopies    \* bound: live copies

ASSUME CatalogueAssumption ==
    Body # {} /\ MaxVersions \in Nat \ {0} /\ MaxCopies \in Nat

Version == 1 .. MaxVersions
Content == [body : Body, status : {"n", "c"}]
HistoryRow == [content : Content, deletion : BOOLEAN]
Request ==
    [op : {"edit", "restore", "delete", "undelete", "drift", "repair"},
     base : Content, version : Version, next : Content]

\* None stands for a row, a page, a document or a request that is not there.
ASSUME RowAssumption == None \notin Content /\ None \notin HistoryRow /\ None \notin Request

VARIABLES
    record,   \* marc_records and its document: content, current version, deleted_at
    versions, \* marc_record_versions: the content of each row, and its deletions
    page,     \* bib_records, the projection: what it was made from, or None
    source,   \* source_blob: what the imported bytes say, or None
    copies,   \* live copies of the record
    held,     \* the content each user has open in the editor
    req       \* the request each user has in progress

recordVars == <<record, versions, page, source, copies, held, req>>
vars == <<record, versions, page, source, copies, held, req, lock, holders, displaced,
          lapses, reported>>

\* create: the record, its first version and its page in one transaction; the
\* bytes are kept when it came from a file.
Init ==
    /\ LockInit
    /\ \E b \in Body, imported \in BOOLEAN :
          LET c == [body |-> b, status |-> "n"]
          IN  /\ record = [content |-> c, version |-> 1, deleted |-> FALSE]
              /\ versions = [v \in Version |-> IF v = 1 THEN [content |-> c, deletion |-> FALSE]
                                                        ELSE None]
              /\ page = c
              /\ source = IF imported THEN c ELSE None
    /\ copies = 0
    /\ held = [u \in User |-> None]
    /\ req = [u \in User |-> None]

-----------------------------------------------------------------------------
\* The record's advisory lock, which saves, repairs and new copies take.
BibLockFree == \A u \in User : req[u] # None => req[u].op \notin {"edit", "restore", "repair"}

\* A document is read with its hash, which the editor sends back.
Open(u) ==
    /\ req[u] = None
    /\ ~record.deleted
    /\ held' = [held EXCEPT ![u] = record.content]
    /\ UNCHANGED <<record, versions, page, source, copies, req>>

\* The record status is set to "c" only when something else changed; otherwise a
\* save that changes nothing would change the record.
Stamped(base, produced) ==
    IF produced = base THEN base ELSE [produced EXCEPT !.status = "c"]

Begin(u, op, produced) ==
    /\ req[u] = None
    /\ BibLockFree
    /\ ~record.deleted
    /\ record.version < MaxVersions
    /\ req' = [req EXCEPT ![u] = [op |-> op, base |-> record.content,
                                  version |-> record.version,
                                  next |-> Stamped(record.content, produced)]]
    /\ UNCHANGED <<record, versions, page, source, copies, held>>

\* An edit must quote the hash it was made from; 409 otherwise.
BeginEditUnchecked(u, b) ==
    /\ held[u] # None
    /\ Begin(u, "edit", [record.content EXCEPT !.body = b])
BeginEdit(u, b) ==
    /\ held[u] # None
    /\ held[u] = record.content
    /\ Begin(u, "edit", [record.content EXCEPT !.body = b])

\* A restore need not: its next state is a row of the history.
BeginRestore(u, v) ==
    /\ versions[v] # None
    /\ Begin(u, "restore", versions[v].content)

\* The document, the page, and a version if anything changed, whose number
\* marc_record_versions_key refuses if it is taken.
Write(u, matches, bytes) ==
    LET changed == req[u].next # req[u].base
        n == IF changed THEN req[u].version + 1 ELSE req[u].version
    IN  /\ req[u] # None
        /\ req[u].op \in {"edit", "restore"}
        /\ matches
        /\ changed => versions[n] = None
        /\ record' = [record EXCEPT !.content = req[u].next, !.version = n]
        /\ versions' = IF changed
                       THEN [versions EXCEPT ![n] = [content |-> req[u].next, deletion |-> FALSE]]
                       ELSE versions
        /\ page' = req[u].next
        /\ source' = bytes
        /\ held' = [held EXCEPT ![u] = req[u].next]
        /\ req' = [req EXCEPT ![u] = None]
        /\ UNCHANGED copies

\* The compare-and-set decides; the imported bytes are forgotten.
Save(u) == Write(u, record.content = req[u].base /\ ~record.deleted, None)

\* The transaction ends without a write: the compare-and-set matched nothing, the
\* edit would introduce errors, an index refused a row, or the connection was lost.
GiveUp(u) ==
    /\ req[u] # None
    /\ req' = [req EXCEPT ![u] = None]
    /\ UNCHANGED <<record, versions, page, source, copies, held>>

-----------------------------------------------------------------------------
\* delete reads the row and counts its copies ...
BeginDelete(u) ==
    /\ req[u] = None
    /\ ~record.deleted
    /\ copies = 0
    /\ record.version < MaxVersions
    /\ req' = [req EXCEPT ![u] = [op |-> "delete", base |-> record.content,
                                  version |-> record.version, next |-> record.content]]
    /\ UNCHANGED <<record, versions, page, source, copies, held>>

\* ... then stamps the row whatever it says now, adds the version after the one
\* it read, which marc_record_versions_key refuses if there is one, and removes
\* the page.
Bury(u, n, current) ==
    /\ req[u] # None
    /\ req[u].op = "delete"
    /\ n \in Version
    /\ versions[n] = None
    /\ record' = [record EXCEPT !.deleted = TRUE, !.version = current]
    /\ versions' = [versions EXCEPT ![n] = [content |-> record.content, deletion |-> TRUE]]
    /\ page' = None
    /\ req' = [req EXCEPT ![u] = None]
    /\ UNCHANGED <<source, copies, held>>
TombstoneAtCurrent(u) == Bury(u, record.version + 1, record.version + 1)
TombstoneStaleCount(u) == Bury(u, record.version + 1, req[u].version + 1)
Tombstone(u) == Bury(u, req[u].version + 1, req[u].version + 1)

\* Undoing a deletion probes and then updates, in two statements. It adds no
\* version and makes no page.
BeginUndelete(u) ==
    /\ req[u] = None
    /\ record.deleted
    /\ req' = [req EXCEPT ![u] = [op |-> "undelete", base |-> record.content,
                                  version |-> record.version, next |-> record.content]]
    /\ UNCHANGED <<record, versions, page, source, copies, held>>

Undelete(u) ==
    /\ req[u] # None
    /\ req[u].op = "undelete"
    /\ record' = [record EXCEPT !.deleted = FALSE]
    /\ req' = [req EXCEPT ![u] = None]
    /\ UNCHANGED <<versions, page, source, copies, held>>

-----------------------------------------------------------------------------
\* catalog:verify finds a live record whose page is missing or differs, which a
\* newer projector makes of any page ...
ScanDrift(u) ==
    /\ req[u] = None
    /\ ~record.deleted
    /\ req' = [req EXCEPT ![u] = [op |-> "drift", base |-> record.content,
                                  version |-> record.version, next |-> record.content]]
    /\ UNCHANGED <<record, versions, page, source, copies, held>>

\* ... takes the record's lock and reads it again, and makes the page of what it
\* read.
BeginRepairUnlocked(u) ==
    /\ req[u] # None
    /\ req[u].op = "drift"
    /\ ~record.deleted
    /\ req' = [req EXCEPT ![u] = [@ EXCEPT !.op = "repair", !.next = record.content]]
    /\ UNCHANGED <<record, versions, page, source, copies, held>>
BeginRepair(u) ==
    /\ req[u] # None
    /\ req[u].op = "drift"
    /\ BibLockFree
    /\ ~record.deleted
    /\ req' = [req EXCEPT ![u] = [@ EXCEPT !.op = "repair", !.next = record.content]]
    /\ UNCHANGED <<record, versions, page, source, copies, held>>

Repair(u) ==
    /\ req[u] # None
    /\ req[u].op = "repair"
    /\ page' = req[u].next
    /\ req' = [req EXCEPT ![u] = None]
    /\ UNCHANGED <<record, versions, source, copies, held>>

\* A copy is added under the record's lock; nothing asks whether the record is
\* deleted. One is archived under the copy's own.
AddCopy ==
    /\ BibLockFree
    /\ copies < MaxCopies
    /\ copies' = copies + 1
    /\ UNCHANGED <<record, versions, page, source, held, req>>

ArchiveCopy ==
    /\ copies > 0
    /\ copies' = copies - 1
    /\ UNCHANGED <<record, versions, page, source, held, req>>

-----------------------------------------------------------------------------
Edits ==
    \E u \in User :
        \/ Open(u)
        \/ \E b \in Body : BeginEdit(u, b)
        \/ \E v \in Version : BeginRestore(u, v)
        \/ Save(u)
        \/ GiveUp(u)
Deletions ==
    \E u \in User : BeginDelete(u) \/ Tombstone(u) \/ BeginUndelete(u) \/ Undelete(u)
Repairs ==
    \E u \in User : ScanDrift(u) \/ BeginRepair(u) \/ Repair(u)

\* A record that is deleted cannot be opened for editing; a lock on it stays.
LockSteps ==
    \/ ~record.deleted /\ \E t \in Tab, seen \in Tab \cup {None} : Acquire(t, seen)
    \/ \E t \in Tab : Heartbeat(t) \/ LockLost(t) \/ Release(t) \/ TimeUp(t)
    \/ Sweep

Next ==
    \/ (Edits \/ Deletions \/ Repairs \/ AddCopy \/ ArchiveCopy) /\ UNCHANGED lockVars
    \/ LockSteps /\ UNCHANGED recordVars

Spec == Init /\ [][Next]_vars

-----------------------------------------------------------------------------
TypeOK ==
    /\ LockTypeOK
    /\ record \in [content : Content, version : Version, deleted : BOOLEAN]
    /\ versions \in [Version -> HistoryRow \cup {None}]
    /\ page \in Content \cup {None}
    /\ source \in Content \cup {None}
    /\ copies \in 0 .. MaxCopies
    /\ held \in [User -> Content \cup {None}]
    /\ req \in [User -> Request \cup {None}]

\* The history has every version up to the current one, and the current one is
\* what the record says, although deleting takes no lock and a restore may bring
\* back a row whose status byte it then changes (bib-write.service.ts, writeCore;
\* bib-delete.service.ts, delete).
HistoryHasTheRecord ==
    /\ \A v \in Version : v <= record.version => versions[v] # None
    /\ versions[record.version].content = record.content

\* The bytes a record was imported from are served only while they are what it
\* says (bib-write.service.ts: `?fidelity=source`).
SourceIsTheRecord == source # None => source = record.content

\* The record, its history and its source never part, whoever saves, restores,
\* deletes or undeletes at the same time.
RecordIsSound == TypeOK /\ HistoryHasTheRecord /\ SourceIsTheRecord

\* The current version never moves back, with one exception: a save that changed
\* nothing, while the record was deleted and undeleted, writes the number it
\* read. The next edit would then add a version that exists.
OnlyIdleSaveRewinds ==
    [][record'.version < record.version =>
          \E u \in User : /\ req[u] # None /\ req'[u] = None
                          /\ req[u].op \in {"edit", "restore"}
                          /\ req[u].next = req[u].base]_vars

\* An edit never replaces a content its author did not have open
\* (bib-write.service.ts: "losing one edit silently").
NoLostEdit ==
    [][\A u \in User :
          req[u] # None /\ req[u].op = "edit" /\ req'[u] = None /\ record' # record
              => record.content = held[u]]_vars

\* A deletion never removes a content it did not look at: an edit saved since
\* has taken the version it would write (bib-delete.service.ts, delete).
DeletesWhatItSaw ==
    [][\A u \in User :
          req[u] # None /\ req[u].op = "delete" /\ req'[u] = None /\ record' # record
              => record.content = req[u].base]_vars

\* A page is never of another content than the record's, and a live record is
\* without one only since a deletion was undone (bib-projection.service.ts).
PageIsOfTheRecord ==
    /\ page # None => page = record.content
    /\ page = None /\ ~record.deleted => versions[record.version].deletion

\* "The projection row must go" (bib-delete.service.ts): a deleted record is not
\* in the catalogue list.
TombstoneHasNoPage == record.deleted => page = None

\* A record with copies is not deleted, for they would be left with no title
\* (bib-delete.service.ts).
DeletedHasNoCopies == record.deleted => copies = 0
=============================================================================
