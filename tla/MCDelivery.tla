----------------------------- MODULE MCDelivery -----------------------------
EXTENDS Delivery, TLC

\* Two requests, one imported revision, and two of the release, of which the cache has
\* kept the second.
CONSTANTS q1, q2, s1, s2, imported, kept, evicted, none

MCRequests == {q1, q2}
MCScopes == {s1, s2}
MCImported == {imported}
MCRelease == <<evicted, kept>>
MCAdvisory == [r \in {evicted, kept} |-> "unavailable"]

Symmetry == Permutations(MCRequests) \cup Permutations(MCScopes)
=============================================================================
