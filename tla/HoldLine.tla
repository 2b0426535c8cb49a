------------------------------- MODULE HoldLine -------------------------------
(***************************************************************************)
(* What the hold queue promises a reader, without positions: a line per    *)
(* record in which a newcomer stands behind everybody who is waiting and   *)
(* nobody's leaving changes who stands ahead of whom among those who stay. *)
(***************************************************************************)
CONSTANTS Hold, BibOf(_)

VARIABLES
    waiting,    \* the holds in line
    ahead       \* the pairs <<g, h>> with g ahead of h in one line

lineVars == <<waiting, ahead>>

LineInit == waiting = {} /\ ahead = {}

Join(h) ==
    /\ h \notin waiting
    /\ waiting' = waiting \cup {h}
    /\ ahead' = ahead \cup {<<g, h>> : g \in {x \in waiting : BibOf(x) = BibOf(h)}}

\* One transaction may take several holds out of their lines: a reader's group
\* is resolved, or a released copy goes to the next reader.
Leave(S) ==
    /\ S \subseteq waiting
    /\ waiting' = waiting \ S
    /\ ahead' = {p \in ahead : p[1] \notin S /\ p[2] \notin S}

LineNext ==
    \/ \E h \in Hold : Join(h)
    \/ \E S \in SUBSET Hold : Leave(S)

LineSpec == LineInit /\ [][LineNext]_lineVars
=============================================================================
