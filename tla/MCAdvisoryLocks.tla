--------------------------- MODULE MCAdvisoryLocks ---------------------------
(***************************************************************************)
(* AdvisoryLocks with the key sets of the API's call sites over two        *)
(* patrons, one bib and two items.                                         *)
(***************************************************************************)
EXTENDS AdvisoryLocks

p(i) == lockKey("patron", i)
b(i) == lockKey("bib", i)
c(i) == lockKey("item", i)

MCPlans == {
    {p(0), b(0), c(0)},         \* checkout, checkin of a reader's copy
    {p(1), b(0), c(0), c(1)},   \* checkout releasing the copy set aside
    {p(0), b(0)},               \* holds: place, suspend; import of a hold
    {c(1)},                     \* item status, transfer; import, second call
    {p(0), p(1)},               \* patron merge
    {b(0), b(1), c(1)} }        \* shelf sweep, cancel of a routed transfer
=============================================================================
