---------------------------- MODULE MCCirculation ----------------------------
(***************************************************************************)
(* Instances of Circulation. Two branches; the copies and the requests of  *)
(* each run are below.                                                     *)
(***************************************************************************)
EXTENDS Circulation

Title(p, b, where, copies, policy, g) ==
    [patron |-> p, bib |-> b, pickup |-> where, level |-> "title",
     wants |-> copies, policy |-> policy, transit |-> TRUE, home |-> None,
     explicit |-> {}, group |-> g]

\* One record with two copies. Ann collects where the copies live and Bob at
\* the other branch; Cal wants the second copy, where it happens to be.
Item1 == {1, 2}
Bib1 == [i \in Item1 |-> "b1"]
Home1 == [i \in Item1 |-> "east"]
Hold1 == {"h1", "h2", "h3"}
Request1 ==
    [h \in Hold1 |->
        CASE h = "h1" -> Title("ann", "b1", "east", Item1, "any", None)
          [] h = "h2" -> Title("bob", "b1", "west", Item1, "any", None)
          [] h = "h3" -> [Title("cal", "b1", "east", {2}, "holdingBranch", None)
                            EXCEPT !.level = "item"]]

\* Two of these requests, for the runs in which copies are moved by hand.
Hold2 == {"h1", "h2"}
Request2 == [h \in Hold2 |-> Request1[h]]

\* Two records with a copy each. Ann asks for either, in a group, and the second
\* one comes to her from another branch.
Bib3 == [i \in Item1 |-> IF i = 1 THEN "b1" ELSE "b2"]
Home3 == [i \in Item1 |-> IF i = 1 THEN "east" ELSE "west"]
Request3 ==
    [h \in Hold2 |->
        CASE h = "h1" -> Title("ann", "b1", "east", {1}, "owningBranch", "g")
          [] h = "h2" -> Title("ann", "b2", "east", {2}, "any", "g")]

\* One copy and three readers, whose requests are suspended and raised. Ann's
\* policy lists the branch she collects at, Bob's moves no copies, and Cal's home
\* branch has changed since his request was placed.
Item4 == {1}
Bib4 == [i \in Item4 |-> "b1"]
Home4 == [i \in Item4 |-> "east"]
Request4 ==
    [h \in Hold1 |->
        CASE h = "h1" -> [Title("ann", "b1", "east", Item4, "explicitSet", None)
                            EXCEPT !.explicit = {"east"}]
          [] h = "h2" -> [Title("bob", "b1", "east", Item4, "any", None)
                            EXCEPT !.transit = FALSE]
          [] h = "h3" -> [Title("cal", "b1", "east", Item4, "patronHomeBranch", None)
                            EXCEPT !.home = "west"]]

\* One copy and two readers who collect at different branches: Ann's policy lists
\* hers and moves no copies, Bob collects at his home branch.
Request5 ==
    [h \in Hold2 |->
        CASE h = "h1" -> [Title("ann", "b1", "east", Item4, "explicitSet", None)
                            EXCEPT !.explicit = {"east"}, !.transit = FALSE]
          [] h = "h2" -> [Title("bob", "b1", "west", Item4, "patronHomeBranch", None)
                            EXCEPT !.home = "west"]]
=============================================================================
