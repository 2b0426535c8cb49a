---------------------------- MODULE MCFeesLedger ----------------------------
(* An instance of FeesLedger whose clerks are interchangeable. *)
EXTENDS FeesLedger, TLC

ClerkSymmetry == Permutations(Clerk)
=============================================================================
