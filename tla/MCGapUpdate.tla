----------------------------- MODULE MCGapUpdate -----------------------------
EXTENDS GapUpdate

\* Four holds of one record and two of another: a queue with a middle to leave,
\* beside a queue it must not touch.
MCHold == 1..6
MCBibOf(h) == IF h <= 4 THEN "b1" ELSE "b2"
=============================================================================
