---------------------------- MODULE MCAppRegistry ----------------------------
(* AppRegistry on two directories, two repositories and two commands at once. *)
EXTENDS AppRegistry, TLC

CONSTANTS r1, r2, p1, p2, w1, w2

Ships(name, port) == [name |-> name, port |-> port, origin |-> "upstream"]

\* One repository that has no manifest at first, then one, then another name in it, that
\* of the other; and a name and a port that are free to give.
MCCommits ==
    {[repo |-> r1, ships |-> NoManifest], [repo |-> r1, ships |-> Ships(1, p2)],
     [repo |-> r1, ships |-> Ships(2, p1)], [repo |-> r1, ships |-> Unreadable],
     [repo |-> r2, ships |-> Ships(2, p2)]}

MCGiven == {[name |-> 1, port |-> p1, origin |-> "generated"]}

MCNames == {1, 2}

MCSymmetry == Permutations(Command)
=============================================================================
