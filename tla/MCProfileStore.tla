--------------------------- MODULE MCProfileStore ---------------------------
(* The profile store on small instances. *)
EXTENDS ProfileStore, TLC

CONSTANTS w1, w2, p1, p2, p3, k1, k2

OneWorker   == {w1}
TwoWorkers  == {w1, w2}
TwoProfiles   == {p1, p2}
ThreeProfiles == {p1, p2, p3}
OneKey  == {k1}
TwoKeys == {k1, k2}

\* Workers, profiles and keys are interchangeable (not in temporal runs).
Symmetry == Permutations(Workers) \cup Permutations(ProfileIds) \cup Permutations(Keys)
=============================================================================
