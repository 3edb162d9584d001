------------------------- MODULE MCExternalCatalog -------------------------
EXTENDS ExternalCatalog, TLC

\* Two jobs, on repositories of two commits and at most two skills.
CONSTANTS j1, j2, none, synthetic

MCJobs == {j1, j2}
MCPaths == {"a", "b"}
MCCommits == {1, 2}

Doc(name, body, needs) == [name |-> name, body |-> body, needs |-> needs, mentions |-> {}]
Holds(a, b) ==
    [manifest |-> "none", declares |-> {}, licensed |-> TRUE,
     doc |-> [p \in MCPaths |-> IF p = "a" THEN a ELSE b]]
Declares(a, b) == [Holds(a, b) EXCEPT !.manifest = "skills", !.declares = MCPaths]
Alone(body) == Doc("x", body, {})
Other(body) == Doc("y", body, {})
Needs(body) == Doc("x", body, {"y"})

\* What the second commit does to the skills of the first.
MCTree ==
    << <<Holds(Needs(1), Other(1)), Holds(Needs(2), Other(1))>>,
       <<Holds(Needs(1), Other(1)), Holds(Needs(1), Other(2))>>,
       <<Holds(Alone(1), Other(1)), Holds(Alone(1), none)>>,
       <<Declares(Alone(1), none), Holds([Alone(1) EXCEPT !.name = "z"], none)>>,
       <<Holds([Alone(1) EXCEPT !.mentions = {"y"}], Doc("y", 1, {"x"})),
         [Holds(none, none) EXCEPT !.manifest = "broken"]>>,
       <<[Holds(Alone(1), none) EXCEPT !.licensed = FALSE], Holds(Alone(1), Alone(2))>> >>

MCRepositories == DOMAIN MCTree

Symmetry == Permutations(MCJobs)
=============================================================================
