--------------------------- MODULE MCAuditBudget ---------------------------
(* Instances of AuditBudget: vault lists small enough to enumerate.        *)
EXTENDS AuditBudget

Lists(n, lengths) == UNION {[1 .. k -> lengths] : k \in 0 .. n}

\* One vault of up to five sources, or two vaults of up to three, of two
\* lengths: the larger one fills the byte budget with two sources.
SmallShapes ==
    {<<list>> : list \in Lists(5, {1, 3})}
      \cup {<<one, two>> : one, two \in Lists(3, {1, 3})}

\* Two vaults of small sources, the first as large as the source budget.
TwoVaults == {<< <<1, 1>>, <<1, 1>> >>}
=============================================================================
