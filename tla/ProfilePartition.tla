-------------------------- MODULE ProfilePartition --------------------------
(***************************************************************************)
(* What the profile store promises: its objects are partitioned into       *)
(* profiles.  An object is stored in the profile its profile_id is in, and *)
(* a merge moves all the objects of one profile into another at once and   *)
(* retires the id of the first for good.  Master, search, count and index  *)
(* tables, lambdas and their steps do not appear.                          *)
(***************************************************************************)
EXTENDS Naturals

CONSTANTS
    ProfileIds, Keys,   \* an object is a profile_id and a unique key
    Ids,                \* ids of profiles
    NoId                \* where an object is that is not stored

NoIdAssumption == NoId \notin Ids

VARIABLES
    home,      \* the profile of each object
    merged     \* merges done, <<surviving id, retired id>>

partition == <<home, merged>>

Objects  == ProfileIds \X Keys
Retired  == {m[2] : m \in merged}
Alive    == Ids \ Retired
Homes(p) == {home[o] : o \in {p} \X Keys} \ {NoId}

Init == home = [o \in Objects |-> NoId] /\ merged = {}

\* Mutant: where the other objects of the profile_id are does not matter.
StoreAnywhere(o, c) ==
    /\ home[o] = NoId
    /\ c \in Alive
    /\ home' = [home EXCEPT ![o] = c]
    /\ UNCHANGED merged

\* A new object joins the others of its profile_id, in a profile that is not
\* merged away.
Store(o, c) ==
    /\ home[o] = NoId
    /\ c \in Alive
    /\ Homes(o[1]) \subseteq {c}
    /\ home' = [home EXCEPT ![o] = c]
    /\ UNCHANGED merged

Merge(a, b) ==
    /\ a \in Alive /\ b \in Alive \ {a}
    /\ home' = [o \in Objects |-> IF home[o] = b THEN a ELSE home[o]]
    /\ merged' = merged \cup {<<a, b>>}

Next == \/ \E o \in Objects, c \in Ids : Store(o, c)
        \/ \E a, b \in Ids : Merge(a, b)

Spec == Init /\ [][Next]_partition

----------------------------------------------------------------------------
\* Objects have a profile or none, and profiles are merged with profiles.
TypeOK == home \in [Objects -> Ids \cup {NoId}] /\ merged \in SUBSET (Ids \X Ids)

(***************************************************************************)
(* The objects of one profile_id are never split over two profiles, none   *)
(* is in a retired profile, and a profile is merged away at most once.     *)
(***************************************************************************)
Whole ==
    /\ \A o1, o2 \in Objects :
           o1[1] = o2[1] /\ home[o1] # NoId /\ home[o2] # NoId => home[o1] = home[o2]
    /\ \A o \in Objects : home[o] \notin Retired
    /\ \A m1, m2 \in merged : m1[2] = m2[2] => m1 = m2
=============================================================================
