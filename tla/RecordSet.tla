------------------------------- MODULE RecordSet -------------------------------
(***************************************************************************)
(* What a PersistentHashSet promises: a set of record ids that only grows, *)
(* one id at a time, through lookups, growth of the file, crashes and      *)
(* restarts.                                                               *)
(***************************************************************************)
CONSTANT Ids
VARIABLE members

Init == members = {}

Add(x) == x \notin members /\ members' = members \cup {x}

Next == \E x \in Ids : Add(x)

Spec == Init /\ [][Next]_members
=============================================================================
