-------------------------------- MODULE Vault --------------------------------
(***************************************************************************)
(* What the profile store promises: a set of profiles that can be          *)
(* connected, changed by one profile at a time and by nothing else.        *)
(***************************************************************************)
CONSTANT Profile
VARIABLE usable     \* profiles that resolve() turns into a connectable profile

Init == usable = {}

Import(p) == p \notin usable /\ usable' = usable \cup {p}

Delete(p) == p \in usable /\ usable' = usable \ {p}

Next == \E p \in Profile : Import(p) \/ Delete(p)

Spec == Init /\ [][Next]_usable
=============================================================================
