------------------------- MODULE MCDomainLifecycle -------------------------
(* One domain with two object types and two business objects. *)
EXTENDS DomainLifecycle

CONSTANTS w1, w2

OneWorker  == {w1}
TwoWorkers == {w1, w2}

TwoTypes      == <<"clickstream", "alternate_profile_id">>
TwoBusinesses == <<"hotel_booking", "clickstream">>

AllKinds      == Kinds
BeforeErasing == {"stage", "tasks", "undo", "clear"}
=============================================================================
