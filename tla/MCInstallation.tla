--------------------------- MODULE MCInstallation ---------------------------
EXTENDS Installation, TLC

\* Two processes that run commands, and one client or two.
CONSTANTS p1, p2, c1, c2, none

MCProcs == {p1, p2}
MCClients == {c1, c2}
MCProcess == {p1}
MCClient == {c1}

Symmetry == Permutations(MCProcs)
=============================================================================
