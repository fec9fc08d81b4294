---------------------------- MODULE InstalledSet ----------------------------
(***************************************************************************)
(* What the Deploy-of-Record promises about installed-set.json: it changes *)
(* by one application at a time, whoever writes it, and no change undoes   *)
(* another.                                                                *)
(***************************************************************************)
CONSTANT Apps

VARIABLE installed

Add(a) == a \notin installed /\ installed' = installed \cup {a}

Remove(a) == a \in installed /\ installed' = installed \ {a}

Init == installed \in SUBSET Apps

Next == \E a \in Apps : Add(a) \/ Remove(a)

Spec == Init /\ [][Next]_installed
=============================================================================
