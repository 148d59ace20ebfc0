--------------------------- MODULE MCProfileCaches ---------------------------
EXTENDS ProfileCaches, TLC

CONSTANTS w1, w2, p1, p2, p3, o1, o2

OneWorker     == {w1}
TwoWorkers    == {w1, w2}
TwoProfiles   == {p1, p2}
OneObject     == {o1}
TwoObjects    == {o1, o2}
NoProfile     == {}
PutsOnly      == {"put"}
Symmetry      == Permutations(TwoWorkers)
=============================================================================
