--------------------------- MODULE CatalogueProofs ---------------------------
(***************************************************************************)
(* Proofs about Catalogue and the record lock it extends, for any number   *)
(* of users, tabs, versions and copies.                                    *)
(***************************************************************************)
EXTENDS Catalogue, TLAPS

-----------------------------------------------------------------------------
(* The record lock.                                                        *)

LockInv == LockTypeOK /\ LockIsAsTold

LEMMA InitLockInv == LockInit => LockInv
BY DEF LockInit, LockInv, LockTypeOK, LockIsAsTold, HolderUnlessDisplaced, ReportedOnce

\* The row of a tab, and the same row run out.
LEMMA LockRows ==
    ASSUME NEW t \in Tab
    PROVE  /\ Row(t) \in LockRow /\ Row(t) # None
           /\ Row(t).tab = t /\ Row(t).live = TRUE
<1>1. Row(t) \in LockRow /\ Row(t).tab = t /\ Row(t).live = TRUE
  BY Zenon DEF Row, LockRow
<1>. QED  BY <1>1, LockRowAssumption

LEMMA LapsedRow ==
    ASSUME NEW r \in LockRow
    PROVE  /\ [r EXCEPT !.live = FALSE] \in LockRow
           /\ [r EXCEPT !.live = FALSE].tab = r.tab
           /\ [r EXCEPT !.live = FALSE].live = FALSE
BY Zenon DEF LockRow

LEMMA LockStepsKeep ==
    ASSUME LockInv, LockSteps
    PROVE  LockInv'
<1> USE DEF LockInv, LockTypeOK, LockIsAsTold, HolderUnlessDisplaced, ReportedOnce
<1>0. lock # None => lock \in LockRow /\ lock.tab \in Tab /\ lock.live \in BOOLEAN
  BY DEF LockRow
<1>1. ASSUME NEW t \in Tab, NEW seen \in Tab \cup {None}, Acquire(t, seen)
      PROVE  LockInv'
  <2>1. /\ lock # None => Grants(t, seen)
        /\ lock' = Row(t)
        /\ holders' = holders \cup {t}
        /\ lapses' = lapses
        /\ reported' = IF lock # None /\ lock.tab # t /\ ~lock.live
                       THEN reported + 1 ELSE reported
    BY <1>1 DEF Acquire
  <2>2. displaced' = (displaced \cup (IF lock # None /\ lock.live THEN {lock.tab} \cap {seen}
                                                                ELSE {})) \ {t}
    BY <1>1 DEF Acquire
  <2>3. LockTypeOK'
    <3>1. lock' \in LockRow /\ holders' \subseteq Tab /\ lapses' \in Nat
      BY <2>1, LockRows
    <3>2. displaced' \subseteq holders'
      BY <1>0, <2>1, <2>2
    <3>3. reported' \in Nat
      BY <2>1
    <3>. QED  BY <3>1, <3>2, <3>3
  <2>4. HolderUnlessDisplaced'
    <3>1. \A s \in holders \ displaced : s = t \/ s \in displaced'
      BY <1>0, <2>1, <2>2 DEF Grants
    <3>. QED  BY <2>1, <2>2, <3>1, LockRows
  <2>5. ReportedOnce'
    <3>1. lock'.live
      BY <2>1, LockRows
    <3>. QED  BY <1>0, <2>1, <3>1
  <2>. QED  BY <2>3, <2>4, <2>5
<1>2. ASSUME NEW t \in Tab, Heartbeat(t) PROVE LockInv'
  BY <1>0, <1>2 DEF Heartbeat
<1>3. ASSUME NEW t \in Tab, LockLost(t) PROVE LockInv'
  BY <1>0, <1>3 DEF LockLost
<1>4. ASSUME NEW t \in Tab, Release(t) PROVE LockInv'
  BY <1>0, <1>4 DEF Release
<1>5. ASSUME NEW t \in Tab, TimeUp(t) PROVE LockInv'
  <2>1. CASE lock # None /\ lock.tab = t
    <3>1. /\ lock' = [lock EXCEPT !.live = FALSE] /\ lapses' = lapses + 1
          /\ holders' = holders \ {t} /\ displaced' = displaced \ {t} /\ reported' = reported
      BY <1>5, <2>1 DEF TimeUp
    <3>2. lock' \in LockRow /\ lock'.tab = lock.tab /\ lock'.live = FALSE
      BY <1>0, <2>1, <3>1, LapsedRow
    <3>3. HolderUnlessDisplaced'
      BY <2>1, <3>1
    <3>. QED  BY <1>0, <3>1, <3>2, <3>3
  <2>2. CASE ~(lock # None /\ lock.tab = t)
    BY <1>0, <1>5, <2>2 DEF TimeUp
  <2>. QED  BY <2>1, <2>2
<1>6. CASE Sweep
  <2>1. /\ lock # None /\ ~lock.live /\ lock' = None
        /\ reported' \in {reported, reported + 1}
        /\ holders' = holders /\ displaced' = displaced /\ lapses' = lapses
    BY <1>6 DEF Sweep
  <2>2. LockTypeOK'
    BY <2>1
  <2>3. HolderUnlessDisplaced'
    BY <2>1
  <2>4. ReportedOnce'
    <3>1. reported + 1 <= lapses
      BY <2>1
    <3>2. reported' <= lapses'
      BY <2>1, <3>1
    <3>3. reported' \in Nat /\ ~(lock' # None)
      BY <2>1
    <3>. QED  BY <3>2, <3>3
  <2>. QED  BY <2>2, <2>3, <2>4
<1>. QED
  BY <1>1, <1>2, <1>3, <1>4, <1>5, <1>6 DEF LockSteps

-----------------------------------------------------------------------------
(* The inductive invariant of the record.                                  *)

Holding == {"edit", "restore", "repair"}

\* A version is added only right behind the last one.
HistoryHasNoGap ==
    \A v, w \in Version : v <= w /\ versions[w] # None => versions[v] # None

DeletionIsAVersion == record.deleted => versions[record.version].deletion

\* What a request read is still true of the history, which only grows. What it
\* read of the record is still true as long as the record's lock, or the free
\* version number behind the one it read, vouches for it.
ReadIsKept(u) ==
    /\ versions[req[u].version] # None
    /\ req[u].op \in {"edit", "restore"} => versions[req[u].version].content = req[u].base
    /\ req[u].op \in {"edit", "restore", "delete"} => req[u].version < MaxVersions
    /\ req[u].op = "edit" => held[u] = req[u].base
    /\ req[u].op = "repair" => req[u].next = record.content
    /\ req[u].op = "delete" /\ versions[req[u].version + 1] = None
          => record.content = req[u].base

ReadsAreKept == \A u \in User : req[u] # None => ReadIsKept(u)

\* The advisory lock of the record.
OneHolder ==
    \A u, v \in User :
        /\ req[u] # None /\ req[u].op \in Holding
        /\ req[v] # None /\ req[v].op \in Holding
        => u = v

RecordTypeOK ==
    /\ record \in [content : Content, version : Version, deleted : BOOLEAN]
    /\ versions \in [Version -> HistoryRow \cup {None}]
    /\ page \in Content \cup {None}
    /\ source \in Content \cup {None}
    /\ copies \in 0 .. MaxCopies
    /\ held \in [User -> Content \cup {None}]
    /\ req \in [User -> Request \cup {None}]

CatalogueInv ==
    /\ RecordTypeOK
    /\ HistoryHasTheRecord
    /\ SourceIsTheRecord
    /\ PageIsOfTheRecord
    /\ HistoryHasNoGap
    /\ DeletionIsAVersion
    /\ ReadsAreKept
    /\ OneHolder

-----------------------------------------------------------------------------
(* Rows and their fields.                                                  *)

LEMMA RecordFields ==
    ASSUME NEW r \in [content : Content, version : Version, deleted : BOOLEAN]
    PROVE  r.content \in Content /\ r.version \in Version /\ r.deleted \in BOOLEAN
BY Zenon

LEMMA RecordWritten ==
    ASSUME NEW r \in [content : Content, version : Version, deleted : BOOLEAN],
           NEW c \in Content, NEW n \in Version
    PROVE  LET s == [r EXCEPT !.content = c, !.version = n]
           IN  /\ s \in [content : Content, version : Version, deleted : BOOLEAN]
               /\ s.content = c /\ s.version = n /\ s.deleted = r.deleted
BY Zenon

LEMMA RecordBuried ==
    ASSUME NEW r \in [content : Content, version : Version, deleted : BOOLEAN],
           NEW n \in Version
    PROVE  LET s == [r EXCEPT !.deleted = TRUE, !.version = n]
           IN  /\ s \in [content : Content, version : Version, deleted : BOOLEAN]
               /\ s.content = r.content /\ s.version = n /\ s.deleted = TRUE
BY Zenon

LEMMA RecordRaised ==
    ASSUME NEW r \in [content : Content, version : Version, deleted : BOOLEAN]
    PROVE  LET s == [r EXCEPT !.deleted = FALSE]
           IN  /\ s \in [content : Content, version : Version, deleted : BOOLEAN]
               /\ s.content = r.content /\ s.version = r.version /\ s.deleted = FALSE
BY Zenon

LEMMA HistoryRowIs ==
    ASSUME NEW c \in Content, NEW d \in BOOLEAN
    PROVE  LET h == [content |-> c, deletion |-> d]
           IN  h \in HistoryRow /\ h # None /\ h.content = c /\ h.deletion = d
<1> DEFINE h == [content |-> c, deletion |-> d]
<1>1. h \in HistoryRow /\ h.content = c /\ h.deletion = d
  BY Zenon DEF HistoryRow
<1>. QED  BY <1>1, RowAssumption

LEMMA RequestFields ==
    ASSUME NEW q \in Request
    PROVE  /\ q # None
           /\ q.op \in {"edit", "restore", "delete", "undelete", "drift", "repair"}
           /\ q.base \in Content /\ q.version \in Version /\ q.next \in Content
<1>1. /\ q.op \in {"edit", "restore", "delete", "undelete", "drift", "repair"}
      /\ q.base \in Content /\ q.version \in Version /\ q.next \in Content
  BY Zenon DEF Request
<1>. QED  BY <1>1, RowAssumption

LEMMA RequestIs ==
    ASSUME NEW o \in {"edit", "restore", "delete", "undelete", "drift", "repair"},
           NEW b \in Content, NEW v \in Version, NEW x \in Content
    PROVE  LET q == [op |-> o, base |-> b, version |-> v, next |-> x]
           IN  /\ q \in Request /\ q # None
               /\ q.op = o /\ q.base = b /\ q.version = v /\ q.next = x
<1> DEFINE q == [op |-> o, base |-> b, version |-> v, next |-> x]
<1>1. q \in Request /\ q.op = o /\ q.base = b /\ q.version = v /\ q.next = x
  BY Zenon DEF Request
<1>. QED  BY <1>1, RowAssumption

LEMMA RequestRepairs ==
    ASSUME NEW q \in Request, NEW x \in Content
    PROVE  LET p == [q EXCEPT !.op = "repair", !.next = x]
           IN  /\ p \in Request /\ p.op = "repair" /\ p.base = q.base
               /\ p.version = q.version /\ p.next = x
BY Zenon DEF Request

LEMMA ContentsMade ==
    ASSUME NEW c \in Content, NEW b \in Body, NEW p \in Content
    PROVE  [c EXCEPT !.body = b] \in Content /\ Stamped(c, p) \in Content
<1>1. [c EXCEPT !.body = b] \in Content
  BY Zenon DEF Content
<1>2. [p EXCEPT !.status = "c"] \in Content
  BY Zenon DEF Content
<1>. QED  BY <1>1, <1>2 DEF Stamped

\* A free version number lies behind every one the history has.
LEMMA FreeIsBehind ==
    ASSUME CatalogueInv, NEW n \in Version, versions[n] = None,
           NEW v \in Version, versions[v] # None
    PROVE  v < n
<1>1. ~(n <= v)
  BY DEF CatalogueInv, HistoryHasNoGap
<1>. QED  BY <1>1, CatalogueAssumption DEF Version

\* A version added right behind one the history has leaves no gap, and no row of
\* the history is ever changed.
LEMMA HistoryGrows ==
    ASSUME CatalogueInv, NEW n \in Version, versions[n] = None,
           NEW p \in Version, n = p + 1, versions[p] # None,
           NEW h \in HistoryRow, versions' = [versions EXCEPT ![n] = h]
    PROVE  /\ versions' \in [Version -> HistoryRow \cup {None}]
           /\ versions'[n] = h /\ h # None
           /\ \A v \in Version : versions[v] # None => versions'[v] = versions[v]
           /\ \A v \in Version : versions'[v] = IF v = n THEN h ELSE versions[v]
           /\ \A v \in Version : versions'[v] # None <=> v <= n
           /\ HistoryHasNoGap'
<1>1. versions \in [Version -> HistoryRow \cup {None}]
  BY DEF CatalogueInv, RecordTypeOK
<1>2. h # None
  BY RowAssumption
<1>3. \A v \in Version : versions'[v] = IF v = n THEN h ELSE versions[v]
  BY <1>1
<1>4. \A v \in Version : v <= p => versions[v] # None
  BY DEF CatalogueInv, HistoryHasNoGap
<1>5. \A v \in Version : versions[v] # None => v < n
  BY FreeIsBehind
<1>6. \A v \in Version : versions'[v] # None <=> v <= n
  BY <1>2, <1>3, <1>4, <1>5, CatalogueAssumption DEF Version
<1>7. HistoryHasNoGap'
  BY <1>6, CatalogueAssumption DEF HistoryHasNoGap, Version
<1>8. versions' \in [Version -> HistoryRow \cup {None}]
  BY <1>1
<1>. QED  BY <1>1, <1>2, <1>3, <1>6, <1>7, <1>8

-----------------------------------------------------------------------------
(* What the steps that write do, as plain facts.                           *)

\* A save that changed something adds the next version; one that did not writes
\* back the number of the version it read.
LEMMA SaveFacts ==
    ASSUME CatalogueInv, NEW u \in User, Save(u)
    PROVE  /\ req[u] # None /\ req[u] \in Request /\ req[u].op \in {"edit", "restore"}
           /\ record.content = req[u].base /\ record.deleted = FALSE
           /\ record' \in [content : Content, version : Version, deleted : BOOLEAN]
           /\ record'.content = req[u].next /\ record'.deleted = FALSE
           /\ page' = req[u].next /\ source' = None /\ copies' = copies
           /\ held' = [held EXCEPT ![u] = req[u].next]
           /\ req' = [req EXCEPT ![u] = None]
           /\ \/ /\ req[u].next = req[u].base
                 /\ record'.version = req[u].version /\ versions' = versions
              \/ /\ req[u].next # req[u].base
                 /\ req[u].version + 1 \in Version
                 /\ versions[req[u].version + 1] = None
                 /\ record'.version = req[u].version + 1
                 /\ versions' = [versions EXCEPT ![req[u].version + 1] =
                                    [content |-> req[u].next, deletion |-> FALSE]]
<1> DEFINE n == IF req[u].next # req[u].base THEN req[u].version + 1 ELSE req[u].version
<1>1. /\ req[u] # None /\ req[u].op \in {"edit", "restore"}
      /\ record.content = req[u].base /\ ~record.deleted
      /\ req[u].next # req[u].base => versions[n] = None
      /\ record' = [record EXCEPT !.content = req[u].next, !.version = n]
      /\ versions' = IF req[u].next # req[u].base
                     THEN [versions EXCEPT ![n] = [content |-> req[u].next, deletion |-> FALSE]]
                     ELSE versions
      /\ page' = req[u].next /\ source' = None /\ copies' = copies
      /\ held' = [held EXCEPT ![u] = req[u].next]
      /\ req' = [req EXCEPT ![u] = None]
  BY DEF Save, Write
<1>2. req[u] \in Request /\ record \in [content : Content, version : Version, deleted : BOOLEAN]
  BY <1>1 DEF CatalogueInv, RecordTypeOK
<1>3. req[u].next \in Content /\ req[u].version \in Version
  BY <1>2, RequestFields
<1>4. req[u].version < MaxVersions
  BY <1>1 DEF CatalogueInv, ReadsAreKept, ReadIsKept
<1>5. req[u].version + 1 \in Version
  BY <1>3, <1>4, CatalogueAssumption DEF Version
<1>6. n \in Version
  BY <1>3, <1>5
<1>7. /\ record' \in [content : Content, version : Version, deleted : BOOLEAN]
      /\ record'.content = req[u].next /\ record'.version = n /\ record'.deleted = record.deleted
  <2> HIDE DEF n
  <2>. QED  BY <1>1, <1>2, <1>3, <1>6, RecordWritten
<1>8. record.deleted = FALSE
  BY <1>1, <1>2, RecordFields
<1>9. CASE req[u].next = req[u].base
  BY <1>1, <1>2, <1>7, <1>8, <1>9
<1>10. CASE req[u].next # req[u].base
  BY <1>1, <1>2, <1>5, <1>7, <1>8, <1>10
<1>. QED  BY <1>9, <1>10

LEMMA TombstoneFacts ==
    ASSUME CatalogueInv, NEW u \in User, Tombstone(u)
    PROVE  /\ req[u] # None /\ req[u] \in Request /\ req[u].op = "delete"
           /\ req[u].version + 1 \in Version /\ versions[req[u].version + 1] = None
           /\ record' \in [content : Content, version : Version, deleted : BOOLEAN]
           /\ record'.content = record.content /\ record'.deleted = TRUE
           /\ record'.version = req[u].version + 1
           /\ versions' = [versions EXCEPT ![req[u].version + 1] =
                              [content |-> record.content, deletion |-> TRUE]]
           /\ page' = None /\ req' = [req EXCEPT ![u] = None]
           /\ source' = source /\ copies' = copies /\ held' = held
<1>1. /\ req[u] # None /\ req[u].op = "delete"
      /\ req[u].version + 1 \in Version /\ versions[req[u].version + 1] = None
      /\ record' = [record EXCEPT !.deleted = TRUE, !.version = req[u].version + 1]
      /\ versions' = [versions EXCEPT ![req[u].version + 1] =
                         [content |-> record.content, deletion |-> TRUE]]
      /\ page' = None /\ req' = [req EXCEPT ![u] = None]
      /\ source' = source /\ copies' = copies /\ held' = held
  BY DEF Tombstone, Bury
<1>2. req[u] \in Request /\ record \in [content : Content, version : Version, deleted : BOOLEAN]
  BY <1>1 DEF CatalogueInv, RecordTypeOK
<1>3. /\ record' \in [content : Content, version : Version, deleted : BOOLEAN]
      /\ record'.content = record.content /\ record'.deleted = TRUE
      /\ record'.version = req[u].version + 1
  <2> DEFINE m == req[u].version + 1
  <2>1. m \in Version /\ record' = [record EXCEPT !.deleted = TRUE, !.version = m]
    BY <1>1
  <2> HIDE DEF m
  <2>2. /\ record' \in [content : Content, version : Version, deleted : BOOLEAN]
        /\ record'.content = record.content /\ record'.deleted = TRUE
        /\ record'.version = m
    BY <1>2, <2>1, RecordBuried
  <2>. QED  BY <2>2 DEF m
<1>. QED  BY <1>1, <1>2, <1>3

LEMMA UndeleteFacts ==
    ASSUME CatalogueInv, NEW u \in User, Undelete(u)
    PROVE  /\ req[u] # None /\ req[u].op = "undelete"
           /\ record' \in [content : Content, version : Version, deleted : BOOLEAN]
           /\ record'.content = record.content /\ record'.deleted = FALSE
           /\ record'.version = record.version
           /\ req' = [req EXCEPT ![u] = None]
           /\ UNCHANGED <<versions, page, source, copies, held>>
BY RecordRaised DEF Undelete, CatalogueInv, RecordTypeOK

-----------------------------------------------------------------------------
(* Requests come and go.                                                   *)

\* Ending a request leaves the others as they were.
LEMMA RequestEnds ==
    ASSUME CatalogueInv, NEW u \in User, req' = [req EXCEPT ![u] = None]
    PROVE  /\ req' \in [User -> Request \cup {None}]
           /\ req'[u] = None
           /\ \A v \in User : req'[v] # None => v # u /\ req'[v] = req[v]
           /\ OneHolder'
<1>1. req \in [User -> Request \cup {None}] /\ OneHolder
  BY DEF CatalogueInv, RecordTypeOK
<1>2. \A v \in User : req'[v] = IF v = u THEN None ELSE req[v]
  BY <1>1
<1>3. req' \in [User -> Request \cup {None}]
  BY <1>1
<1>4. \A v \in User : req'[v] # None => v # u /\ req'[v] = req[v]
  BY <1>2
<1>5. OneHolder'
  BY <1>1, <1>4 DEF OneHolder
<1>. QED  BY <1>2, <1>3, <1>4, <1>5

\* A request begins with what it reads, and takes the record's lock if its kind
\* does; no step that begins one writes.
LEMMA RequestBegins ==
    ASSUME CatalogueInv, NEW u \in User, NEW q \in Request,
           req' = [req EXCEPT ![u] = q],
           UNCHANGED <<record, versions, page, source, copies, held>>,
           q.op \in Holding => BibLockFree,
           versions[q.version] # None,
           q.op \in {"edit", "restore"} => versions[q.version].content = q.base,
           q.op \in {"edit", "restore", "delete"} => q.version < MaxVersions,
           q.op = "edit" => held[u] = q.base,
           q.op = "repair" => q.next = record.content,
           q.op = "delete" => record.content = q.base
    PROVE  CatalogueInv'
<1>1. req \in [User -> Request \cup {None}] /\ OneHolder /\ ReadsAreKept
  BY DEF CatalogueInv, RecordTypeOK
<1>2. \A v \in User : req'[v] = IF v = u THEN q ELSE req[v]
  BY <1>1
<1>3. req' \in [User -> Request \cup {None}]
  BY <1>1
<1>4. ReadsAreKept'
  <2> SUFFICES ASSUME NEW v \in User, req'[v] # None
               PROVE  ReadIsKept(v)'
    BY DEF ReadsAreKept
  <2>1. CASE v = u
    BY <1>2, <2>1 DEF ReadIsKept
  <2>2. CASE v # u
    BY <1>1, <1>2, <2>2 DEF ReadsAreKept, ReadIsKept
  <2>. QED  BY <2>1, <2>2
<1>5. OneHolder'
  <2>1. \A v \in User : req[v] # None /\ req[v].op \in Holding => ~BibLockFree
    BY DEF BibLockFree, Holding
  <2>. QED  BY <1>1, <1>2, <2>1 DEF OneHolder
<1>6. RecordTypeOK'
  BY <1>3 DEF CatalogueInv, RecordTypeOK
<1>. QED
  BY <1>4, <1>5, <1>6 DEF CatalogueInv, HistoryHasTheRecord, SourceIsTheRecord,
     PageIsOfTheRecord, HistoryHasNoGap, DeletionIsAVersion

\* What other requests read stays true when the history grows, if the record's
\* content stays.
LEMMA ReadsStay ==
    ASSUME CatalogueInv, NEW u \in User, req' = [req EXCEPT ![u] = None],
           \A v \in User \ {u} : held'[v] = held[v],
           \A v \in Version : versions[v] # None => versions'[v] = versions[v],
           record'.content = record.content
    PROVE  ReadsAreKept'
<1> SUFFICES ASSUME NEW v \in User, req'[v] # None
             PROVE  ReadIsKept(v)'
  BY DEF ReadsAreKept
<1>1. v # u /\ req'[v] = req[v] /\ req[v] # None
  BY RequestEnds
<1>2. ReadIsKept(v)
  BY <1>1 DEF CatalogueInv, ReadsAreKept
<1>3. req[v] \in Request
  BY <1>1 DEF CatalogueInv, RecordTypeOK
<1>4. req[v].version \in Version
  BY <1>3, RequestFields
<1>5. req[v].op = "delete" => req[v].version + 1 \in Version
  BY <1>2, <1>4, CatalogueAssumption DEF ReadIsKept, Version
<1>. QED  BY <1>1, <1>2, <1>4, <1>5 DEF ReadIsKept

-----------------------------------------------------------------------------
(* The invariant is kept.                                                  *)

LEMMA InitCatalogueInv == Init => CatalogueInv
<1> SUFFICES ASSUME Init PROVE CatalogueInv
  OBVIOUS
<1>1. PICK b \in Body, imported \in BOOLEAN :
         LET c == [body |-> b, status |-> "n"]
         IN  /\ record = [content |-> c, version |-> 1, deleted |-> FALSE]
             /\ versions = [v \in Version |-> IF v = 1 THEN [content |-> c, deletion |-> FALSE]
                                                       ELSE None]
             /\ page = c
             /\ source = IF imported THEN c ELSE None
  BY DEF Init
<1> DEFINE c == [body |-> b, status |-> "n"]
           h == [content |-> c, deletion |-> FALSE]
<1>2. c \in Content
  BY Zenon DEF Content
<1>3. h \in HistoryRow /\ h # None /\ h.content = c
  BY <1>2, HistoryRowIs
<1>4. /\ record = [content |-> c, version |-> 1, deleted |-> FALSE]
      /\ versions = [v \in Version |-> IF v = 1 THEN h ELSE None]
      /\ page = c
      /\ source \in {c, None}
  BY <1>1
<1> HIDE DEF c, h
<1>5. 1 \in Version
  BY CatalogueAssumption DEF Version
<1>6. /\ record \in [content : Content, version : Version, deleted : BOOLEAN]
      /\ record.content = c /\ record.version = 1 /\ record.deleted = FALSE
  BY <1>2, <1>4, <1>5, Zenon
<1>7. copies = 0 /\ held = [u \in User |-> None] /\ req = [u \in User |-> None]
  BY DEF Init
<1>8. /\ versions \in [Version -> HistoryRow \cup {None}] /\ versions[1] = h
      /\ \A v \in Version : versions[v] # None => v = 1
  BY <1>3, <1>4, <1>5
<1>9. RecordTypeOK
  BY <1>2, <1>4, <1>6, <1>7, <1>8, CatalogueAssumption DEF RecordTypeOK
<1>10. HistoryHasTheRecord
  BY <1>3, <1>6, <1>8 DEF HistoryHasTheRecord, Version
<1>11. HistoryHasNoGap
  BY <1>3, <1>8 DEF HistoryHasNoGap, Version
<1>12. SourceIsTheRecord /\ PageIsOfTheRecord /\ DeletionIsAVersion
  BY <1>2, <1>4, <1>6, RowAssumption DEF SourceIsTheRecord, PageIsOfTheRecord, DeletionIsAVersion
<1>13. ReadsAreKept /\ OneHolder
  BY <1>7 DEF ReadsAreKept, OneHolder
<1>. QED  BY <1>9, <1>10, <1>11, <1>12, <1>13 DEF CatalogueInv

\* What a request that reads the record now may rely on.
LEMMA WhatIsRead ==
    ASSUME CatalogueInv
    PROVE  /\ record.content \in Content /\ record.version \in Version
           /\ versions[record.version] # None
           /\ versions[record.version].content = record.content
<1>1. record.content \in Content /\ record.version \in Version
  BY RecordFields DEF CatalogueInv, RecordTypeOK
<1>. QED  BY <1>1 DEF CatalogueInv, HistoryHasTheRecord, Version

LEMMA BeginKeeps ==
    ASSUME CatalogueInv, NEW u \in User, NEW op \in {"edit", "restore"}, NEW p \in Content,
           Begin(u, op, p), op = "edit" => held[u] = record.content
    PROVE  CatalogueInv'
<1> DEFINE x == Stamped(record.content, p)
           q == [op |-> op, base |-> record.content, version |-> record.version, next |-> x]
<1>1. x \in Content
  BY WhatIsRead, ContentsMade, CatalogueAssumption
<1>2. /\ req' = [req EXCEPT ![u] = q] /\ BibLockFree /\ record.version < MaxVersions
      /\ UNCHANGED <<record, versions, page, source, copies, held>>
  BY DEF Begin
<1> HIDE DEF x
<1>3. /\ q \in Request /\ q.op = op /\ q.base = record.content
      /\ q.version = record.version /\ q.next = x
  BY <1>1, WhatIsRead, RequestIs
<1> HIDE DEF q
<1>. QED  BY <1>2, <1>3, WhatIsRead, RequestBegins

\* delete, undelete and the scan begin alike: they read and take no lock.
LEMMA ReadKeeps ==
    ASSUME CatalogueInv, NEW u \in User, NEW op \in {"delete", "undelete", "drift"},
           op = "delete" => record.version < MaxVersions,
           req' = [req EXCEPT ![u] = [op |-> op, base |-> record.content,
                                      version |-> record.version, next |-> record.content]],
           UNCHANGED <<record, versions, page, source, copies, held>>
    PROVE  CatalogueInv'
<1> DEFINE q == [op |-> op, base |-> record.content,
                 version |-> record.version, next |-> record.content]
<1>1. /\ q \in Request /\ q.op = op /\ q.base = record.content
      /\ q.version = record.version /\ q.next = record.content
  BY WhatIsRead, RequestIs
<1>2. req' = [req EXCEPT ![u] = q]
  OBVIOUS
<1> HIDE DEF q
<1>3. q.op \notin Holding /\ q.op \notin {"edit", "restore"} /\ q.op # "repair"
  BY <1>1 DEF Holding
<1>4. versions[q.version] # None /\ record.content = q.base
  BY <1>1, WhatIsRead
<1>5. q.op \in {"edit", "restore", "delete"} => q.version < MaxVersions
  BY <1>1
<1>. QED  BY <1>1, <1>2, <1>3, <1>4, <1>5, RequestBegins

LEMMA SaveKeeps ==
    ASSUME CatalogueInv, NEW u \in User, Save(u)
    PROVE  CatalogueInv'
<1> DEFINE q == req[u]
           n == q.version + 1
           h == [content |-> q.next, deletion |-> FALSE]
<1>1. /\ q.base \in Content /\ q.version \in Version /\ q.next \in Content
      /\ q.next # None
  BY SaveFacts, RequestFields, RowAssumption
<1>2. /\ versions[q.version] # None /\ versions[q.version].content = q.base
  BY SaveFacts DEF CatalogueInv, ReadsAreKept, ReadIsKept
<1>3. held' \in [User -> Content \cup {None}] /\ \A v \in User \ {u} : held'[v] = held[v]
  <2>1. held' = [held EXCEPT ![u] = req[u].next]
    BY SaveFacts
  <2>2. held \in [User -> Content \cup {None}]
    BY DEF CatalogueInv, RecordTypeOK
  <2>. QED  BY <1>1, <2>1, <2>2
<1>4. /\ req' \in [User -> Request \cup {None}] /\ OneHolder'
      /\ \A v \in User : req'[v] # None => v # u /\ req'[v] = req[v]
  BY SaveFacts, RequestEnds
<1>5. h \in HistoryRow /\ h # None /\ h.content = q.next
  BY <1>1, HistoryRowIs
<1>6. CASE q.next = q.base
  <2>1. record'.version = q.version /\ versions' = versions
    BY <1>6, SaveFacts
  <2>2. HistoryHasTheRecord'
    BY <1>1, <1>2, <1>6, <2>1, SaveFacts DEF CatalogueInv, HistoryHasNoGap, HistoryHasTheRecord
  <2>3. RecordTypeOK'
    BY <1>1, <1>3, <1>4, <2>1, SaveFacts DEF CatalogueInv, RecordTypeOK
  <2>4. SourceIsTheRecord' /\ PageIsOfTheRecord' /\ DeletionIsAVersion'
    BY <1>1, SaveFacts DEF SourceIsTheRecord, PageIsOfTheRecord, DeletionIsAVersion
  <2>5. HistoryHasNoGap'
    BY <2>1 DEF CatalogueInv, HistoryHasNoGap
  <2>6. ReadsAreKept'
    BY <1>3, <1>6, <2>1, SaveFacts, ReadsStay
  <2>. QED  BY <1>4, <2>2, <2>3, <2>4, <2>5, <2>6 DEF CatalogueInv
<1>7. CASE q.next # q.base
  <2>1. /\ n \in Version /\ versions[n] = None /\ record'.version = n
        /\ versions' = [versions EXCEPT ![n] = h]
    BY <1>7, SaveFacts
  <2> HIDE DEF h
  <2>2. /\ versions' \in [Version -> HistoryRow \cup {None}]
        /\ versions'[n] = h
        /\ \A v \in Version : versions[v] # None => versions'[v] = versions[v]
        /\ \A v \in Version : versions'[v] # None <=> v <= n
        /\ HistoryHasNoGap'
    BY <1>1, <1>2, <1>5, <2>1, HistoryGrows
  <2>3. HistoryHasTheRecord'
    <3>1. \A v \in Version : v <= record'.version => versions'[v] # None
      BY <2>1, <2>2
    <3>2. versions'[record'.version].content = record'.content
      BY <1>5, <2>1, <2>2, SaveFacts
    <3>. QED  BY <3>1, <3>2 DEF HistoryHasTheRecord
  <2>4. RecordTypeOK'
    BY <1>1, <1>3, <1>4, <2>2, SaveFacts DEF CatalogueInv, RecordTypeOK
  <2>5. SourceIsTheRecord' /\ PageIsOfTheRecord' /\ DeletionIsAVersion'
    BY <1>1, SaveFacts DEF SourceIsTheRecord, PageIsOfTheRecord, DeletionIsAVersion
  \* Another request has read a version up to the one this save was based on:
  \* the number a deletion would write is taken. No repair is under way.
  <2>6. ReadsAreKept'
    <3> SUFFICES ASSUME NEW v \in User, req'[v] # None
                 PROVE  ReadIsKept(v)'
      BY DEF ReadsAreKept
    <3>1. v # u /\ req'[v] = req[v] /\ req[v] # None
      BY <1>4
    <3>2. ReadIsKept(v)
      BY <3>1 DEF CatalogueInv, ReadsAreKept
    <3>3. req[v].version \in Version
      BY <3>1, RequestFields DEF CatalogueInv, RecordTypeOK
    <3>4. req[v].op # "repair"
      BY <3>1, SaveFacts DEF CatalogueInv, OneHolder, Holding
    <3>5. req[v].version < n
      BY <2>1, <3>2, <3>3, FreeIsBehind DEF ReadIsKept
    <3>6. ASSUME req[v].op = "delete" PROVE versions'[req[v].version + 1] # None
      <4>1. req[v].version + 1 \in Version /\ req[v].version + 1 <= n
        BY <1>1, <2>1, <3>3, <3>5, CatalogueAssumption DEF Version
      <4>. QED  BY <4>1, <2>2
    <3>. QED  BY <1>3, <2>2, <3>1, <3>2, <3>3, <3>4, <3>6 DEF ReadIsKept
  <2>. QED  BY <1>4, <2>2, <2>3, <2>4, <2>5, <2>6 DEF CatalogueInv
<1>. QED  BY <1>6, <1>7

LEMMA TombstoneKeeps ==
    ASSUME CatalogueInv, NEW u \in User, Tombstone(u)
    PROVE  CatalogueInv'
<1> DEFINE n == req[u].version + 1
           h == [content |-> record.content, deletion |-> TRUE]
<1>1. /\ n \in Version /\ versions[n] = None /\ record'.version = n
      /\ versions' = [versions EXCEPT ![n] = h]
  BY TombstoneFacts
<1>2. req[u].version \in Version /\ versions[req[u].version] # None
  BY TombstoneFacts, RequestFields DEF CatalogueInv, ReadsAreKept, ReadIsKept
<1>3. h \in HistoryRow /\ h.content = record.content /\ h.deletion = TRUE
  BY WhatIsRead, HistoryRowIs
<1> HIDE DEF h
<1>4. /\ versions' \in [Version -> HistoryRow \cup {None}]
      /\ versions'[n] = h
      /\ \A v \in Version : versions[v] # None => versions'[v] = versions[v]
      /\ \A v \in Version : versions'[v] # None <=> v <= n
      /\ HistoryHasNoGap'
  BY <1>1, <1>2, <1>3, HistoryGrows
<1>5. req' \in [User -> Request \cup {None}] /\ OneHolder'
  BY TombstoneFacts, RequestEnds
<1>6. RecordTypeOK'
  BY <1>4, <1>5, TombstoneFacts DEF CatalogueInv, RecordTypeOK
<1>7. HistoryHasTheRecord'
  <2>1. \A v \in Version : v <= record'.version => versions'[v] # None
    BY <1>1, <1>4
  <2>2. versions'[record'.version].content = record'.content
    BY <1>1, <1>3, <1>4, TombstoneFacts
  <2>. QED  BY <2>1, <2>2 DEF HistoryHasTheRecord
<1>8. SourceIsTheRecord' /\ PageIsOfTheRecord' /\ DeletionIsAVersion'
  BY <1>1, <1>3, <1>4, TombstoneFacts
     DEF CatalogueInv, SourceIsTheRecord, PageIsOfTheRecord, DeletionIsAVersion
<1>9. ReadsAreKept'
  BY <1>4, TombstoneFacts, ReadsStay
<1>. QED  BY <1>4, <1>5, <1>6, <1>7, <1>8, <1>9 DEF CatalogueInv

LEMMA UndeleteKeeps ==
    ASSUME CatalogueInv, NEW u \in User, Undelete(u)
    PROVE  CatalogueInv'
<1>1. /\ UNCHANGED <<versions, page, source, copies, held>>
      /\ record'.content = record.content /\ record'.deleted = FALSE
      /\ record'.version = record.version
  BY UndeleteFacts
<1>2. req' \in [User -> Request \cup {None}] /\ OneHolder'
  BY UndeleteFacts, RequestEnds
<1>3. RecordTypeOK'
  BY <1>1, <1>2, UndeleteFacts DEF CatalogueInv, RecordTypeOK
<1>4. HistoryHasTheRecord' /\ SourceIsTheRecord' /\ HistoryHasNoGap' /\ DeletionIsAVersion'
  BY <1>1 DEF CatalogueInv, HistoryHasTheRecord, SourceIsTheRecord, HistoryHasNoGap,
              DeletionIsAVersion
<1>5. PageIsOfTheRecord'
  BY <1>1 DEF CatalogueInv, PageIsOfTheRecord, DeletionIsAVersion
<1>6. ReadsAreKept'
  BY <1>1, UndeleteFacts, ReadsStay
<1>. QED  BY <1>2, <1>3, <1>4, <1>5, <1>6 DEF CatalogueInv

LEMMA EditsKeep ==
    ASSUME CatalogueInv, Edits
    PROVE  CatalogueInv'
<1> PICK u \in User :
        \/ Open(u)
        \/ \E b \in Body : BeginEdit(u, b)
        \/ \E v \in Version : BeginRestore(u, v)
        \/ Save(u)
        \/ GiveUp(u)
  BY DEF Edits
<1>1. CASE Open(u)
  <2>1. /\ req[u] = None /\ held' = [held EXCEPT ![u] = record.content]
        /\ UNCHANGED <<record, versions, page, source, copies, req>>
    BY <1>1 DEF Open
  <2>2. /\ held' \in [User -> Content \cup {None}]
        /\ \A v \in User : req[v] # None => held'[v] = held[v]
    BY <2>1, WhatIsRead DEF CatalogueInv, RecordTypeOK
  <2>3. RecordTypeOK'
    BY <2>1, <2>2 DEF CatalogueInv, RecordTypeOK
  <2>4. ReadsAreKept'
    BY <2>1, <2>2 DEF CatalogueInv, ReadsAreKept, ReadIsKept
  <2>. QED
    BY <2>1, <2>3, <2>4 DEF CatalogueInv, HistoryHasTheRecord, SourceIsTheRecord,
       PageIsOfTheRecord, HistoryHasNoGap, DeletionIsAVersion, OneHolder
<1>2. ASSUME NEW b \in Body, BeginEdit(u, b) PROVE CatalogueInv'
  <2>1. [record.content EXCEPT !.body = b] \in Content
    BY WhatIsRead, ContentsMade
  <2>. QED  BY <1>2, <2>1, BeginKeeps DEF BeginEdit
<1>3. ASSUME NEW v \in Version, BeginRestore(u, v) PROVE CatalogueInv'
  <2>1. versions[v] \in HistoryRow
    BY <1>3 DEF BeginRestore, CatalogueInv, RecordTypeOK
  <2>2. versions[v].content \in Content
    BY <2>1 DEF HistoryRow
  <2>. QED  BY <1>3, <2>2, BeginKeeps DEF BeginRestore
<1>4. CASE GiveUp(u)
  <2>1. /\ req' = [req EXCEPT ![u] = None]
        /\ UNCHANGED <<record, versions, page, source, copies, held>>
    BY <1>4 DEF GiveUp
  <2>2. RecordTypeOK' /\ OneHolder'
    BY <2>1, RequestEnds DEF CatalogueInv, RecordTypeOK
  <2>3. ReadsAreKept'
    BY <2>1, ReadsStay
  <2>. QED
    BY <2>1, <2>2, <2>3 DEF CatalogueInv, HistoryHasTheRecord, SourceIsTheRecord,
       PageIsOfTheRecord, HistoryHasNoGap, DeletionIsAVersion
<1>. QED  BY <1>1, <1>2, <1>3, <1>4, SaveKeeps

LEMMA DeletionsKeep ==
    ASSUME CatalogueInv, Deletions
    PROVE  CatalogueInv'
<1> PICK u \in User : BeginDelete(u) \/ Tombstone(u) \/ BeginUndelete(u) \/ Undelete(u)
  BY DEF Deletions
<1>1. CASE BeginDelete(u)
  BY <1>1, ReadKeeps DEF BeginDelete
<1>2. CASE BeginUndelete(u)
  BY <1>2, ReadKeeps DEF BeginUndelete
<1>. QED  BY <1>1, <1>2, TombstoneKeeps, UndeleteKeeps

LEMMA RepairsKeep ==
    ASSUME CatalogueInv, Repairs
    PROVE  CatalogueInv'
<1> PICK u \in User : ScanDrift(u) \/ BeginRepair(u) \/ Repair(u)
  BY DEF Repairs
<1>1. CASE ScanDrift(u)
  BY <1>1, ReadKeeps DEF ScanDrift
<1>2. CASE BeginRepair(u)
  <2> DEFINE q == [req[u] EXCEPT !.op = "repair", !.next = record.content]
  <2>1. req[u] # None /\ req[u] \in Request /\ BibLockFree
    BY <1>2 DEF BeginRepair, CatalogueInv, RecordTypeOK
  <2>2. req' = [req EXCEPT ![u] = q] /\ UNCHANGED <<record, versions, page, source, copies, held>>
    BY <1>2, Zenon DEF BeginRepair
  <2>3. /\ q \in Request /\ q.op = "repair" /\ q.version = req[u].version
        /\ q.next = record.content
    BY <2>1, WhatIsRead, RequestRepairs
  <2>4. versions[req[u].version] # None
    BY <2>1 DEF CatalogueInv, ReadsAreKept, ReadIsKept
  <2> HIDE DEF q
  <2>. QED  BY <2>1, <2>2, <2>3, <2>4, RequestBegins
<1>3. CASE Repair(u)
  <2>1. /\ req[u] # None /\ req[u].op = "repair" /\ page' = req[u].next
        /\ req' = [req EXCEPT ![u] = None]
        /\ UNCHANGED <<record, versions, source, copies, held>>
    BY <1>3 DEF Repair
  <2>2. page' = record.content
    BY <2>1 DEF CatalogueInv, ReadsAreKept, ReadIsKept
  <2>3. RecordTypeOK' /\ OneHolder'
    BY <2>1, <2>2, WhatIsRead, RequestEnds DEF CatalogueInv, RecordTypeOK
  <2>4. ReadsAreKept'
    BY <2>1, ReadsStay
  <2>5. PageIsOfTheRecord'
    BY <2>1, <2>2, WhatIsRead, RowAssumption DEF PageIsOfTheRecord
  <2>. QED
    BY <2>1, <2>3, <2>4, <2>5 DEF CatalogueInv, HistoryHasTheRecord, SourceIsTheRecord,
       HistoryHasNoGap, DeletionIsAVersion
<1>. QED  BY <1>1, <1>2, <1>3

Inv == LockInv /\ CatalogueInv

LEMMA NextKeepsInv ==
    ASSUME Inv, [Next]_vars
    PROVE  Inv'
<1>1. CASE (Edits \/ Deletions \/ Repairs \/ AddCopy \/ ArchiveCopy) /\ UNCHANGED lockVars
  <2>1. LockInv'
    BY <1>1 DEF Inv, LockInv, LockTypeOK, LockIsAsTold, HolderUnlessDisplaced, ReportedOnce,
                lockVars
  <2>2. CASE AddCopy \/ ArchiveCopy
    <3>1. copies' \in 0 .. MaxCopies /\ UNCHANGED <<record, versions, page, source, held, req>>
      BY <2>2, CatalogueAssumption DEF AddCopy, ArchiveCopy, Inv, CatalogueInv, RecordTypeOK
    <3>2. RecordTypeOK'
      BY <3>1 DEF Inv, CatalogueInv, RecordTypeOK
    <3>3. CatalogueInv'
      BY <3>1, <3>2 DEF Inv, CatalogueInv, HistoryHasTheRecord, SourceIsTheRecord,
         PageIsOfTheRecord, HistoryHasNoGap, DeletionIsAVersion, ReadsAreKept, ReadIsKept,
         OneHolder
    <3>. QED  BY <2>1, <3>3 DEF Inv
  <2>. QED
    BY <1>1, <2>1, <2>2, EditsKeep, DeletionsKeep, RepairsKeep DEF Inv
<1>2. ASSUME UNCHANGED recordVars PROVE CatalogueInv'
  BY <1>2 DEF Inv, CatalogueInv, RecordTypeOK, HistoryHasTheRecord, SourceIsTheRecord,
     PageIsOfTheRecord, HistoryHasNoGap, DeletionIsAVersion, ReadsAreKept, ReadIsKept,
     OneHolder, recordVars
<1>3. CASE LockSteps /\ UNCHANGED recordVars
  BY <1>2, <1>3, LockStepsKeep DEF Inv
<1>4. CASE UNCHANGED vars
  <2>1. UNCHANGED recordVars /\ UNCHANGED lockVars
    BY <1>4 DEF vars, recordVars, lockVars
  <2>2. LockInv'
    BY <2>1 DEF Inv, LockInv, LockTypeOK, LockIsAsTold, HolderUnlessDisplaced, ReportedOnce,
                lockVars
  <2>. QED  BY <1>2, <2>1, <2>2 DEF Inv
<1>. QED  BY <1>1, <1>3, <1>4 DEF Next

LEMMA InvAlways == Spec => []Inv
<1>1. Init => Inv
  BY InitLockInv, InitCatalogueInv DEF Init, Inv
<1>2. Inv /\ [Next]_vars => Inv'
  BY NextKeepsInv
<1>. QED  BY <1>1, <1>2, PTL DEF Spec

\* Two tabs hold the record at once only after one took it from the other by
\* name, and no lapse is reported twice, for any number of tabs (bib-lock.service.ts,
\* marc-lock-expiry.job.ts).
THEOREM LockIsAsToldAlways == Spec => []LockIsAsTold
<1>1. Inv => LockIsAsTold
  BY DEF Inv, LockInv
<1>. QED  BY <1>1, InvAlways, PTL

\* The record, its history and its source bytes agree, for any number of users,
\* whichever of them save, restore, delete and undelete at once
\* (bib-write.service.ts, bib-delete.service.ts).
THEOREM RecordIsSoundAlways == Spec => []RecordIsSound
<1>1. Inv => RecordIsSound
  BY DEF Inv, LockInv, CatalogueInv, RecordTypeOK, RecordIsSound, TypeOK
<1>. QED  BY <1>1, InvAlways, PTL

\* The public page is never of another content than the record's, although it is
\* repaired from what was read earlier (bib-projection.service.ts, catalog-verify.ts).
THEOREM PageIsOfTheRecordAlways == Spec => []PageIsOfTheRecord
<1>1. Inv => PageIsOfTheRecord
  BY DEF Inv, CatalogueInv
<1>. QED  BY <1>1, InvAlways, PTL

-----------------------------------------------------------------------------
(* What a step may never do.  Only saves, deletions and undeletions write  *)
(* the row, and each of them ends its own request.                         *)

LEMMA RowWriters ==
    ASSUME Inv, [Next]_vars, record' # record
    PROVE  \E u \in User : Save(u) \/ Tombstone(u) \/ Undelete(u)
<1>1. CASE Edits
  BY <1>1 DEF Edits, Open, BeginEdit, BeginRestore, Begin, GiveUp
<1>2. CASE Deletions
  BY <1>2 DEF Deletions, BeginDelete, BeginUndelete
<1>3. CASE Repairs
  BY <1>3 DEF Repairs, ScanDrift, BeginRepair, Repair
<1>4. CASE AddCopy \/ ArchiveCopy
  BY <1>4 DEF AddCopy, ArchiveCopy
<1>5. CASE UNCHANGED recordVars \/ UNCHANGED vars
  BY <1>5 DEF recordVars, vars
<1>. QED  BY <1>1, <1>2, <1>3, <1>4, <1>5 DEF Next

\* The number of the current version falls only when a save that changed nothing
\* writes back the number it read (bib-write.service.ts, writeCore).
THEOREM OnlyIdleSaveRewindsAlways == Spec => OnlyIdleSaveRewinds
<1> DEFINE Rewinds ==
        record'.version < record.version =>
            \E u \in User : /\ req[u] # None /\ req'[u] = None
                            /\ req[u].op \in {"edit", "restore"}
                            /\ req[u].next = req[u].base
<1>1. ASSUME Inv, [Next]_vars PROVE Rewinds
  <2> SUFFICES ASSUME record'.version < record.version
               PROVE  \E u \in User : /\ req[u] # None /\ req'[u] = None
                                      /\ req[u].op \in {"edit", "restore"}
                                      /\ req[u].next = req[u].base
    OBVIOUS
  <2>1. CatalogueInv
    BY <1>1 DEF Inv
  <2>2. record.version \in Version /\ versions[record.version] # None
    BY <2>1, WhatIsRead
  <2>3. record.version \in Nat
    BY <2>2 DEF Version
  <2>4. record' # record
    BY <2>3
  <2>5. PICK u \in User : Save(u) \/ Tombstone(u) \/ Undelete(u)
    BY <1>1, <2>4, RowWriters
  <2>6. CASE Tombstone(u)
    <3>1. /\ req[u].version + 1 \in Version /\ versions[req[u].version + 1] = None
          /\ record'.version = req[u].version + 1
      BY <2>1, <2>6, TombstoneFacts
    <3>2. record.version < record'.version
      BY <2>1, <2>2, <3>1, FreeIsBehind
    <3>. QED  BY <2>3, <3>1, <3>2 DEF Version
  <2>7. CASE Undelete(u)
    <3>1. record'.version = record.version
      BY <2>1, <2>7, UndeleteFacts
    <3>. QED  BY <2>3, <3>1
  <2>8. CASE Save(u)
    <3>1. req[u] # None /\ req[u].op \in {"edit", "restore"} /\ req'[u] = None
      BY <2>1, <2>8, SaveFacts, RequestEnds
    <3>2. CASE req[u].next = req[u].base
      BY <3>1, <3>2
    <3>3. CASE req[u].next # req[u].base
      <4>1. /\ req[u].version + 1 \in Version /\ versions[req[u].version + 1] = None
            /\ record'.version = req[u].version + 1
        BY <2>1, <2>8, <3>3, SaveFacts
      <4>2. record.version < record'.version
        BY <2>1, <2>2, <4>1, FreeIsBehind
      <4>. QED  BY <2>3, <4>1, <4>2 DEF Version
    <3>. QED  BY <3>2, <3>3
  <2>. QED  BY <2>5, <2>6, <2>7, <2>8
<1>2. Inv /\ [Next]_vars => [Rewinds]_vars
  BY <1>1
<1>. QED  BY <1>2, InvAlways, PTL DEF Spec, OnlyIdleSaveRewinds

\* Who ended the request of u when the row was written: u.
LEMMA OwnRequest ==
    ASSUME Inv, [Next]_vars, record' # record, NEW u \in User, req[u] # None, req'[u] = None
    PROVE  Save(u) \/ Tombstone(u) \/ Undelete(u)
<1>1. PICK v \in User : Save(v) \/ Tombstone(v) \/ Undelete(v)
  BY RowWriters
<1>2. CatalogueInv
  BY DEF Inv
<1>3. req' = [req EXCEPT ![v] = None]
  BY <1>1, <1>2, SaveFacts, TombstoneFacts, UndeleteFacts
<1>4. req \in [User -> Request \cup {None}]
  BY <1>2 DEF CatalogueInv, RecordTypeOK
<1>5. u = v
  BY <1>3, <1>4
<1>. QED  BY <1>1, <1>5

\* An edit never replaces a content its author did not have open
\* (bib-write.service.ts: "losing one edit silently").
THEOREM NoLostEditAlways == Spec => NoLostEdit
<1> DEFINE Saw(u) ==
        req[u] # None /\ req[u].op = "edit" /\ req'[u] = None /\ record' # record
            => record.content = held[u]
<1>1. ASSUME Inv, [Next]_vars, NEW u \in User PROVE Saw(u)
  <2> SUFFICES ASSUME req[u] # None, req[u].op = "edit", req'[u] = None, record' # record
               PROVE  record.content = held[u]
    OBVIOUS
  <2>1. CatalogueInv
    BY <1>1 DEF Inv
  <2>2. Save(u)
    BY <1>1, <2>1, OwnRequest, TombstoneFacts, UndeleteFacts
  <2>3. record.content = req[u].base
    BY <2>1, <2>2, SaveFacts
  <2>. QED  BY <2>1, <2>3 DEF CatalogueInv, ReadsAreKept, ReadIsKept
<1>2. Inv /\ [Next]_vars => [\A u \in User : Saw(u)]_vars
  BY <1>1
<1>. QED  BY <1>2, InvAlways, PTL DEF Spec, NoLostEdit

\* A deletion never removes a content it did not look at, although it takes no
\* lock (bib-delete.service.ts, delete).
THEOREM DeletesWhatItSawAlways == Spec => DeletesWhatItSaw
<1> DEFINE Saw(u) ==
        req[u] # None /\ req[u].op = "delete" /\ req'[u] = None /\ record' # record
            => record.content = req[u].base
<1>1. ASSUME Inv, [Next]_vars, NEW u \in User PROVE Saw(u)
  <2> SUFFICES ASSUME req[u] # None, req[u].op = "delete", req'[u] = None, record' # record
               PROVE  record.content = req[u].base
    OBVIOUS
  <2>1. CatalogueInv
    BY <1>1 DEF Inv
  <2>2. Tombstone(u)
    BY <1>1, <2>1, OwnRequest, SaveFacts, UndeleteFacts
  <2>3. versions[req[u].version + 1] = None
    BY <2>1, <2>2, TombstoneFacts
  <2>. QED  BY <2>1, <2>3 DEF CatalogueInv, ReadsAreKept, ReadIsKept
<1>2. Inv /\ [Next]_vars => [\A u \in User : Saw(u)]_vars
  BY <1>1
<1>. QED  BY <1>2, InvAlways, PTL DEF Spec, DeletesWhatItSaw

-----------------------------------------------------------------------------
(* Where the page of a deleted record comes from.                          *)

\* A page is made by a save or by a repair.
LEMMA PageWriters ==
    ASSUME [Next]_vars, page' # page, page' # None
    PROVE  \E u \in User : Save(u) \/ Repair(u)
<1>1. CASE Edits
  BY <1>1 DEF Edits, Open, BeginEdit, BeginRestore, Begin, GiveUp
<1>2. CASE Deletions
  BY <1>2 DEF Deletions, BeginDelete, BeginUndelete, Tombstone, Bury, Undelete
<1>3. CASE Repairs
  BY <1>3 DEF Repairs, ScanDrift, BeginRepair
<1>4. CASE AddCopy \/ ArchiveCopy
  BY <1>4 DEF AddCopy, ArchiveCopy
<1>5. CASE UNCHANGED recordVars \/ UNCHANGED vars
  BY <1>5 DEF recordVars, vars
<1>. QED  BY <1>1, <1>2, <1>3, <1>4, <1>5 DEF Next

\* A deleted record gets into the catalogue list in one way: a repair that had
\* the record's lock when it was deleted ends.
OnlyRepairHaunts ==
    [][TombstoneHasNoPage /\ ~TombstoneHasNoPage'
          => \E u \in User : Repair(u) /\ record.deleted]_vars

\* OnlyRepairHaunts: what "The projection row must go" (bib-delete.service.ts) fails by
\* (CatalogueGhost.cfg) is catalog-verify.ts alone, for any number of users; no
\* save, restore or undeletion brings the page back.
THEOREM OnlyRepairHauntsAlways == Spec => OnlyRepairHaunts
<1> DEFINE Haunts == TombstoneHasNoPage /\ ~TombstoneHasNoPage'
                       => \E u \in User : Repair(u) /\ record.deleted
<1>1. ASSUME Inv, [Next]_vars PROVE Haunts
  <2> SUFFICES ASSUME TombstoneHasNoPage, ~TombstoneHasNoPage'
               PROVE  \E u \in User : Repair(u) /\ record.deleted
    OBVIOUS
  <2>0. CatalogueInv
    BY <1>1 DEF Inv
  <2>1. record'.deleted /\ page' # None
    BY DEF TombstoneHasNoPage
  <2>2. CASE page' = page
    <3>1. ~record.deleted
      BY <2>1, <2>2 DEF TombstoneHasNoPage
    <3>2. record' # record
      BY <2>1, <3>1
    <3>3. PICK u \in User : Save(u) \/ Tombstone(u) \/ Undelete(u)
      BY <1>1, <3>2, RowWriters
    <3>. QED  BY <2>0, <2>1, <3>3, SaveFacts, TombstoneFacts, UndeleteFacts
  <2>3. CASE page' # page
    <3>1. PICK u \in User : Save(u) \/ Repair(u)
      BY <1>1, <2>1, <2>3, PageWriters
    <3>2. ~Save(u)
      BY <2>0, <2>1, SaveFacts
    <3>3. Repair(u) /\ record' = record
      BY <3>1, <3>2 DEF Repair
    <3>. QED  BY <2>1, <3>3
  <2>. QED  BY <2>2, <2>3
<1>2. Inv /\ [Next]_vars => Haunts
  BY <1>1
<1>. QED  BY <1>2, InvAlways, PTL DEF Spec, OnlyRepairHaunts

\* What a request read is what the record still says.
Serial ==
    \A u \in User : req[u] # None =>
        /\ req[u].version = record.version
        /\ req[u].op # "undelete" => ~record.deleted

\* The number of the current version never falls.
VersionNeverFalls == [][record'.version >= record.version]_vars

\* With one request in progress at a time nothing comes between a request's read
\* and its writes.
LEMMA SerialKept ==
    ASSUME \A u, v \in User : u = v, Inv, Serial, TombstoneHasNoPage, [Next]_vars
    PROVE  Serial' /\ TombstoneHasNoPage' /\ record'.version >= record.version
<1>0. /\ CatalogueInv /\ req \in [User -> Request \cup {None}]
      /\ record.version \in Version /\ record.version \in Nat
  BY WhatIsRead DEF Inv, CatalogueInv, RecordTypeOK, Version
<1>1. CASE UNCHANGED <<record, page, req>>
  BY <1>0, <1>1 DEF Serial, TombstoneHasNoPage
<1>2. ASSUME NEW u \in User, NEW op \in {"edit", "restore", "delete", "undelete", "drift"},
             NEW x \in Content,
             req' = [req EXCEPT ![u] = [op |-> op, base |-> record.content,
                                        version |-> record.version, next |-> x]],
             op # "undelete" => ~record.deleted,
             UNCHANGED <<record, page>>
      PROVE  Serial' /\ TombstoneHasNoPage' /\ record'.version >= record.version
  <2>1. PICK q : q = [op |-> op, base |-> record.content, version |-> record.version, next |-> x]
    OBVIOUS
  <2>2. q.op = op /\ q.version = record.version
    BY <2>1, Zenon
  <2>3. req' = [req EXCEPT ![u] = q]
    BY <1>2, <2>1
  <2>4. \A v \in User : req'[v] = q
    BY <1>0, <2>3
  <2>. QED  BY <1>0, <1>2, <2>2, <2>4 DEF Serial, TombstoneHasNoPage
<1>3. ASSUME NEW u \in User, req' = [req EXCEPT ![u] = None]
      PROVE  Serial'
  <2>1. \A v \in User : req'[v] = None
    BY <1>0, <1>3
  <2>. QED  BY <2>1 DEF Serial
<1>4. ASSUME NEW u \in User, GiveUp(u) PROVE Serial' /\ TombstoneHasNoPage' /\ record'.version >= record.version
  <2>1. Serial' /\ UNCHANGED <<record, page>>
    BY <1>3, <1>4 DEF GiveUp
  <2>. QED  BY <1>0, <2>1 DEF TombstoneHasNoPage
<1>5. ASSUME NEW u \in User, Save(u) PROVE Serial' /\ TombstoneHasNoPage' /\ record'.version >= record.version
  <2>1. /\ req[u] # None /\ record'.deleted = FALSE /\ req' = [req EXCEPT ![u] = None]
        /\ record'.version \in {req[u].version, req[u].version + 1}
    BY <1>0, <1>5, SaveFacts
  <2>2. req[u].version = record.version
    BY <2>1 DEF Serial
  <2>3. Serial'
    BY <1>3, <2>1
  <2>. QED  BY <1>0, <2>1, <2>2, <2>3 DEF TombstoneHasNoPage
<1>6. ASSUME NEW u \in User, Tombstone(u) PROVE Serial' /\ TombstoneHasNoPage' /\ record'.version >= record.version
  <2>1. /\ req[u] # None /\ page' = None /\ req' = [req EXCEPT ![u] = None]
        /\ record'.version = req[u].version + 1
    BY <1>0, <1>6, TombstoneFacts
  <2>2. req[u].version = record.version
    BY <2>1 DEF Serial
  <2>3. Serial'
    BY <1>3, <2>1
  <2>. QED  BY <1>0, <2>1, <2>2, <2>3 DEF TombstoneHasNoPage
<1>7. ASSUME NEW u \in User, Undelete(u) PROVE Serial' /\ TombstoneHasNoPage' /\ record'.version >= record.version
  <2>1. /\ record'.deleted = FALSE /\ req' = [req EXCEPT ![u] = None]
        /\ record'.version = record.version
    BY <1>0, <1>7, UndeleteFacts
  <2>2. Serial'
    BY <1>3, <2>1
  <2>. QED  BY <1>0, <2>1, <2>2 DEF TombstoneHasNoPage
<1>8. ASSUME NEW u \in User, Repair(u) PROVE Serial' /\ TombstoneHasNoPage' /\ record'.version >= record.version
  <2>1. /\ req[u] # None /\ req[u].op = "repair" /\ req' = [req EXCEPT ![u] = None]
        /\ record' = record
    BY <1>8 DEF Repair
  <2>2. ~record.deleted
    BY <2>1 DEF Serial
  <2>3. Serial'
    BY <1>3, <2>1
  <2>. QED  BY <1>0, <2>1, <2>2, <2>3 DEF TombstoneHasNoPage
<1>9. ASSUME NEW u \in User, BeginRepair(u) PROVE Serial' /\ TombstoneHasNoPage' /\ record'.version >= record.version
  <2>1. PICK q : q = [req[u] EXCEPT !.op = "repair", !.next = record.content]
    OBVIOUS
  <2>2. /\ req[u] # None /\ ~record.deleted /\ req' = [req EXCEPT ![u] = q]
        /\ UNCHANGED <<record, page>>
    BY <1>9, <2>1 DEF BeginRepair
  <2>3. q.version = req[u].version
    <3>1. req[u] \in Request /\ record.content \in Content
      BY <1>0, <2>2, RecordFields DEF CatalogueInv, RecordTypeOK
    <3>. QED  BY <2>1, <3>1, RequestRepairs
  <2>4. \A v \in User : req'[v] = q
    BY <1>0, <2>2
  <2>5. q.version = record.version
    BY <2>2, <2>3 DEF Serial
  <2>. QED  BY <1>0, <2>2, <2>4, <2>5 DEF Serial, TombstoneHasNoPage
<1>10. ASSUME NEW u \in User, NEW op \in {"edit", "restore"}, NEW produced \in Content,
              Begin(u, op, produced)
       PROVE  Serial' /\ TombstoneHasNoPage' /\ record'.version >= record.version
  <2>1. Stamped(record.content, produced) \in Content
    <3>1. record.content \in Content
      BY <1>0, RecordFields DEF CatalogueInv, RecordTypeOK
    <3>2. [produced EXCEPT !.status = "c"] \in Content
      BY Zenon DEF Content
    <3>. QED  BY <3>1, <3>2 DEF Stamped
  <2>. QED  BY <1>2, <1>10, <2>1 DEF Begin
<1>11. ASSUME NEW u \in User, NEW b \in Body, BeginEdit(u, b)
       PROVE  Serial' /\ TombstoneHasNoPage' /\ record'.version >= record.version
  <2>1. [record.content EXCEPT !.body = b] \in Content
    BY <1>0, RecordFields, ContentsMade DEF CatalogueInv, RecordTypeOK
  <2>. QED  BY <1>10, <1>11, <2>1 DEF BeginEdit
<1>12. ASSUME NEW u \in User, NEW v \in Version, BeginRestore(u, v)
       PROVE  Serial' /\ TombstoneHasNoPage' /\ record'.version >= record.version
  <2>1. versions[v].content \in Content
    BY <1>0, <1>12 DEF BeginRestore, CatalogueInv, RecordTypeOK, HistoryRow
  <2>. QED  BY <1>10, <1>12, <2>1 DEF BeginRestore
<1>13. ASSUME NEW u \in User, BeginDelete(u) \/ BeginUndelete(u) \/ ScanDrift(u)
       PROVE  Serial' /\ TombstoneHasNoPage' /\ record'.version >= record.version
  <2>1. record.content \in Content
    BY <1>0, RecordFields DEF CatalogueInv, RecordTypeOK
  <2>2. CASE BeginDelete(u)  BY <1>2, <2>1, <2>2 DEF BeginDelete
  <2>3. CASE BeginUndelete(u)  BY <1>2, <2>1, <2>3 DEF BeginUndelete
  <2>4. CASE ScanDrift(u)  BY <1>2, <2>1, <2>4 DEF ScanDrift
  <2>. QED  BY <1>13, <2>2, <2>3, <2>4
<1>14. CASE Edits
  <2>1. ASSUME NEW u \in User, Open(u) PROVE UNCHANGED <<record, page, req>>
    BY <2>1 DEF Open
  <2>. QED  BY <1>1, <1>4, <1>5, <1>11, <1>12, <1>14, <2>1 DEF Edits
<1>15. CASE Deletions  BY <1>6, <1>7, <1>13, <1>15 DEF Deletions
<1>16. CASE Repairs  BY <1>8, <1>9, <1>13, <1>16 DEF Repairs
<1>17. CASE AddCopy \/ ArchiveCopy  BY <1>1, <1>17 DEF AddCopy, ArchiveCopy
<1>18. CASE UNCHANGED recordVars \/ UNCHANGED vars  BY <1>1, <1>18 DEF recordVars, vars
<1>. QED  BY <1>14, <1>15, <1>16, <1>17, <1>18 DEF Next

\* One request at a time: a deleted record has no page, and no save writes back an
\* older version number. The ghost page and the rewound version are races of two
\* requests, and of nothing less (bib-delete.service.ts, bib-write.service.ts,
\* catalog-verify.ts).
THEOREM OneRequestAtATime ==
    ASSUME \A u, v \in User : u = v
    PROVE  Spec => []TombstoneHasNoPage /\ VersionNeverFalls
<1>1. Init => Serial /\ TombstoneHasNoPage
  <2> SUFFICES ASSUME Init PROVE Serial /\ TombstoneHasNoPage
    OBVIOUS
  <2>1. PICK c : record = [content |-> c, version |-> 1, deleted |-> FALSE]
    BY Zenon DEF Init
  <2>2. ~record.deleted
    BY <2>1
  <2>. QED  BY <2>2 DEF Init, Serial, TombstoneHasNoPage
<1>2. Inv /\ Serial /\ TombstoneHasNoPage /\ [Next]_vars
        => Serial' /\ TombstoneHasNoPage' /\ record'.version >= record.version
  BY SerialKept
<1>. QED  BY <1>1, <1>2, InvAlways, PTL DEF Spec, VersionNeverFalls
=============================================================================
