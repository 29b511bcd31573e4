------------------------------- MODULE Positions -------------------------------
(* Positions in a list, for the filters, truncations and pages that keep    *)
(* some entries in their order; and functions put together key by key.      *)
EXTENDS Naturals, FiniteSets

\* How many members of I reach up to i, and the first n members.
Rank(I, i) == Cardinality({j \in I : j <= i})
Firsts(I, n) == {i \in I : Rank(I, i) <= n}

\* The members of I in order, and a list's entries at them.
Ascending(I) == [k \in 1..Cardinality(I) |-> CHOOSE i \in I : Rank(I, i) = k]
Entries(list, I) == [k \in 1..Cardinality(I) |-> list[Ascending(I)[k]]]

\* One key, and the keys of f and of g, f's value where both have one.
Maplet(key, value) == [k \in {key} |-> value]
f ++ g == [k \in DOMAIN f \cup DOMAIN g |-> IF k \in DOMAIN f THEN f[k] ELSE g[k]]
=============================================================================
