--------------------------- MODULE MCProfilePurge ---------------------------
(* Purges of two profiles with one exported file. *)
EXTENDS ProfilePurge

CONSTANTS w1, w2, c1, c2, b

TwoWorkers == {w1, w2}
TwoIds     == {c1, c2}
OneOther   == {b}

=============================================================================
