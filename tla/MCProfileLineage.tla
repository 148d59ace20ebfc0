-------------------------- MODULE MCProfileLineage --------------------------
(* Unmerges and deletions on small instances. *)
EXTENDS ProfileLineage, TLC

CONSTANTS p1, p2, p3, p4, k1, k2

FourProfiles == {p1, p2, p3, p4}

\* One profile has a second object, so that a put can meet a known profile_id.
FiveFacts == FourProfiles \X {k1} \cup {<<p1, k2>>}

\* The profiles of one object are interchangeable.
Symmetry == Permutations({p2, p3, p4})
=============================================================================
