--------------------------- MODULE MCRuleMatching ---------------------------
(* Bookings and loyalty records of three travellers under two rule sets. *)
EXTENDS RuleMatching

F == {"first", "last", "private", "office", "member", "mail", "kind", "number"}
T == [f \in F |-> CASE f \in {"first", "last", "private", "office"} -> "_profile"
                    [] f = "number" -> "loyalty"
                    [] OTHER -> "booking"]
V == {"", "joe", "JOE", "ann", "m1", "a@b", "group"}
N == [v \in V |-> IF v = "JOE" THEN "joe" ELSE v]

Same(f) == [in |-> f, ex |-> "none"]
Cross(f, g) == [in |-> f, ex |-> g]
Rule(i, matches, skips, window) == [index |-> i, matches |-> matches, skips |-> skips, window |-> window]

ByName   == Rule(0, <<Cross("first", "first"), Cross("last", "last")>>, {}, 99)
ByMember == Rule(1, <<Cross("member", "number")>>,
                 {[field |-> "kind", other |-> "none", values |-> {"group"}, negated |-> FALSE]}, 99)
ByMail   == Rule(1, <<Same("mail")>>, {}, 1)
TwoVersions == <<{ByName, ByMember}, {ByName, ByMail}>>

Thing(p, t, ts, given) ==
  [pid |-> p, type |-> t, ts |-> ts,
   val |-> [f \in F |-> IF f \in DOMAIN given THEN given[f] ELSE ""]]

Booking(p, ts, first, last, member, mail, kind) ==
  Thing(p, "booking", ts, [first |-> first, last |-> last, member |-> member, mail |-> mail, kind |-> kind])
Loyalty(p, first, last, number) ==
  Thing(p, "loyalty", 0, [first |-> first, last |-> last, number |-> number])

Travellers ==
  { Booking("p1", 0, "joe", "ann", "m1", "a@b", ""),
    Booking("p1", 2, "",    "joe", "",   "a@b", "group"),
    Booking("p2", 2, "JOE", "",    "m1", "a@b", "group"),
    Loyalty("p2",    "JOE", "ann", "m1"),
    Loyalty("p3",    "ann", "joe", "m1") }

\* A booking that joins a booking of its address with a loyalty record of its member,
\* none of which has a name: no rule of the profile level applies to them.
Nameless ==
  { Booking("p1", 0, "", "", "", "a@b", ""),
    Loyalty("p2", "", "", "m1"),
    Booking("p3", 0, "", "", "m1", "a@b", "") }
AllVersions == <<{ByName, ByMember, Rule(2, <<Same("mail")>>, {}, 99)}>>

\* The member number of one is what another has for an address.
Lookalikes == { Booking("p1", 0, "", "", "m1", "", ""), Booking("p2", 0, "", "", "", "m1", "") }

\* The conditions on equal names as the portal writes them.
PortalVersions == <<{Rule(0, <<Same("first"), Same("last")>>, {}, 99), ByMember}>>

\* Equal first names, and the private address of one is the office address of the other.
MixedVersions == <<{Rule(0, <<Cross("first", "first"), Cross("private", "office")>>, {}, 99)}>>
Strangers ==
  { Thing("p1", "loyalty", 0, [first |-> "joe", private |-> "a@b"]),
    Thing("p2", "loyalty", 0, [first |-> "joe", office |-> "m1"]) }
=============================================================================
