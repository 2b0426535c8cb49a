--------------------------- MODULE MCStripeBilling ---------------------------
(* An instance of StripeBilling whose plans are interchangeable, and in which two *)
(* requests or ticks run at a time only over one event: custody is kept per event, *)
(* and the properties of the row are about handlers that have not overlapped.      *)
EXTENDS StripeBilling, TLC

OneEventAtATime == \A g, h \in busy : g.e = h.e
PlanSymmetry == Permutations(Plan)
=============================================================================
