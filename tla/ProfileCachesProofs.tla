------------------------- MODULE ProfileCachesProofs -------------------------
(***************************************************************************)
(* That the caches follow Aurora, for any number of workers, profiles and  *)
(* operations: proofs about ProfileCaches, and about the partitions in     *)
(* which the task that fills the caches anew goes over the profiles.       *)
(*                                                                         *)
(* The invariant has a layer for each thing that is in flight.  WorkInv:   *)
(* what the stages of a worker still hold, that what it has read is not    *)
(* ahead of Aurora, and that nobody writes the records another one is      *)
(* deleting.  DynamoInv: of every profile DynamoDB has the timestamp and   *)
(* each object, or some worker has yet to write exactly that.  QueueOK,    *)
(* ServedInv and GhostInv: the same of Customer Profiles with the messages *)
(* on the queue.  StreamOK: the same of the index and its events.          *)
(***************************************************************************)
EXTENDS ProfileCaches, UuidPartitions, SequenceTheorems, WellFoundedInduction, TLAPS

----------------------------------------------------------------------------
(* Types *)

WriterTypes ==
    /\ queue \in Seq(Messages) /\ stream \in Seq(Events)
    /\ service \in [ProfileIds -> Names \cup {NoName}]
    /\ index \in [ProfileIds -> Names \cup {NoName}]
    /\ names \in 0 .. MaxNames /\ faults \in 0 .. MaxFaults
    /\ reported \subseteq ProfileIds

AuroraTypes ==
    /\ connect \in [ProfileIds -> ProfileIds \cup {Nobody}]
    /\ row \in [ProfileIds -> Times]
    /\ stamp \in [Objects -> Times] /\ owner \in [Objects -> ProfileIds \cup {Nobody}]
    /\ gone \subseteq ProfileIds

CacheTypes ==
    /\ cached \in [ProfileIds -> Times] /\ items \in [ProfileIds -> SUBSET Objects]
    /\ awaited \subseteq ProfileIds /\ failed \subseteq ProfileIds

WorkTypes ==
    /\ worker \in [Workers -> Busy \cup {Idle}]
    /\ done \in [Ops -> Nat] /\ \A o \in Ops : done[o] <= Limit[o]

AllTypes == WriterTypes /\ AuroraTypes /\ CacheTypes /\ WorkTypes

----------------------------------------------------------------------------
(* What a worker still has to do *)

\* A step among the stages st; one that is followed by another, that comes before all
\* the others of a kind, that is there once at most.
Has(st, x)     == \E i \in 1 .. Len(st) : x \in st[i]
Leads(st, x, y) == \A i \in 1 .. Len(st) : x \in st[i] =>
                       \E k \in 1 .. Len(st) : i < k /\ y \in st[k]
Precedes(st, x, y) == \A i, k \in 1 .. Len(st) : x \in st[i] /\ y \in st[k] => i < k
Once(st, x)    == \A i, k \in 1 .. Len(st) : x \in st[i] /\ x \in st[k] => i = k

\* Steps of an update of a profile, and of the end of its records.
Up   == {"row", "build", "update", "record", "objects", "message"}
Away == {"withdraw", "remove"}

\* The stages of the operation j, whatever it has done of them.
Planned(j) ==
    /\ j.stages = <<>> => j = Idle
    /\ j.ending \subseteq j.ids
    /\ \A p \in ProfileIds :
         /\ \A s \in Steps : Has(j.stages, <<s, p>>) => p \in j.ids
         /\ \A s \in Away \cup {"find", "clear"} : Has(j.stages, <<s, p>>) => p \in j.ending
         /\ Leads(j.stages, <<"row", p>>, <<"update", p>>)
         /\ Leads(j.stages, <<"build", p>>, <<"update", p>>)
         /\ Leads(j.stages, <<"find", p>>, <<"clear", p>>)
         /\ Precedes(j.stages, <<"find", p>>, <<"clear", p>>)
         /\ \A s \in {"update", "record", "objects"} :
              Precedes(j.stages, <<"clear", p>>, <<s, p>>)
         /\ Once(j.stages, <<"find", p>>) /\ Once(j.stages, <<"clear", p>>)
         /\ \A s \in Away, u \in Up : ~(Has(j.stages, <<s, p>>) /\ Has(j.stages, <<u, p>>))
         /\ \A q \in ProfileIds :
              Has(j.stages, <<"clear", p>>) /\ Has(j.stages, <<"clear", q>>) => p = q

ToDo(w, s, p) == Has(worker[w].stages, <<s, p>>)
Known(p)      == connect[p] # Nobody \/ p \in gone

\* What a worker has read is never ahead of Aurora, and what it found for deletion is
\* what there is.  It updates profiles that live, and withdraws those that do not.
Abreast(w) ==
    \A p \in worker[w].ids :
      /\ Known(p)
      /\ worker[w].snap[p].at <= row[p]
      /\ worker[w].snap[p].objs \subseteq ObjectsOf(p)
      /\ ToDo(w, "clear", p) /\ ~ToDo(w, "find", p) => worker[w].found = Found(p)
      /\ \A s \in Up : ToDo(w, s, p) => Lives(p)
      /\ \A s \in Away : ToDo(w, s, p) => ~Lives(p)

KeptApart == \A v, w \in Workers : v # w => worker[v].ids \cap worker[w].ending = {}

\* The tables of Aurora.
AuroraOK ==
    /\ \A o \in Objects : owner[o] # Nobody => connect[owner[o]] # Nobody
    /\ \A p \in ProfileIds :
         /\ connect[p] # Nobody => connect[connect[p]] = connect[p]
         /\ ~Lives(p) => row[p] = 0
         /\ p \in gone => connect[p] = Nobody
         /\ \A o \in ObjectsOf(p) : stamp[o] <= row[p]

WorkInv == /\ AllTypes /\ AuroraOK /\ KeptApart
           /\ \A w \in Workers : Planned(worker[w]) /\ Abreast(w)

----------------------------------------------------------------------------
(* DynamoDB *)

Newest(p) == Latest({0} \cup {stamp[o] : o \in ObjectsOf(p)})

\* Worker w will bring the record of p to the timestamp it has now; and the object o.
BringsRow(w, p) ==
    \/ ToDo(w, "row", p)
    \/ ToDo(w, "build", p) /\ worker[w].snap[p].at = 0 /\ row[p] = Newest(p)
    \/ worker[w].snap[p].at = row[p] /\ (ToDo(w, "update", p) \/ ToDo(w, "record", p))

BringsObject(w, p, o) ==
    \/ ToDo(w, "build", p)
    \/ /\ o \in worker[w].snap[p].objs
       /\ ToDo(w, "update", p) \/ ToDo(w, "record", p) \/ ToDo(w, "objects", p)

Cleared(p) == \A w \in Workers : ~ToDo(w, "clear", p)

\* No record is ahead of Aurora unless it is about to be deleted.
Bounded(p) == Cleared(p) => cached[p] <= row[p] /\ items[p] \subseteq ObjectsOf(p)

\* Of a profile that lives DynamoDB has everything, or someone will bring it.
Brought(p) ==
    /\ (Cleared(p) /\ cached[p] = row[p]) \/ \E w \in Workers : BringsRow(w, p)
    /\ \A o \in ObjectsOf(p) :
         (Cleared(p) /\ o \in items[p]) \/ \E w \in Workers : BringsObject(w, p, o)

DynamoInv == \A p \in ProfileIds \ failed :
    Bounded(p) /\ (Lives(p) => p \in Skipped \cup awaited \/ Brought(p))

----------------------------------------------------------------------------
(* Customer Profiles *)

\* In the queue q: a message about p; a deletion of p behind every other message about it.
AboutIn(q, p)            == \E i \in 1 .. Len(q) : q[i].id = p
WaitingIn(q, p, request) == \E i \in 1 .. Len(q) : q[i].request = request /\ q[i].id = p
DeletionLastIn(q, p)     == \E k \in 1 .. Len(q) :
    /\ q[k].request = "delete_profile" /\ q[k].id = p
    /\ \A i \in 1 .. Len(q) : q[i].request = "put_profile" /\ q[i].id = p => i < k

Waiting(p, request) == WaitingIn(queue, p, request)
DeletionLast(p)     == DeletionLastIn(queue, p)

Leaves(p) == \E w \in Workers : ToDo(w, "withdraw", p)
                \/ (ToDo(w, "remove", p) /\ ~Waiting(p, "put_profile"))

QueueOK == \A p \in ProfileIds :
    /\ Queued(p) => Known(p)
    /\ Lives(p) => ~Waiting(p, "delete_profile")

ServedInv == \A p \in ProfileIds :
    Lives(p) => \/ p \in Skipped \cup awaited \cup reported \cup failed
                \/ service[p] # NoName
                \/ Waiting(p, "put_profile")
                \/ \E w \in Workers, s \in {"row", "build", "update", "message"} : ToDo(w, s, p)

StreamOK ==
    /\ \A p \in ProfileIds : service[p] # NoName => index[p] # NoName \/ ~Indexed(p)
    /\ \A i \in 1 .. Len(stream) : stream[i].tries <= faults

GhostInv == \A p \in ProfileIds :
    Lives(p) \/ p \in reported \cup failed
    \/ (service[p] = NoName /\ ~Waiting(p, "put_profile"))
    \/ Leaves(p) \/ DeletionLast(p)
----------------------------------------------------------------------------
(* Lists of stages *)

Stages == Seq(SUBSET (Steps \X ProfileIds))

\* The stages left once the first of them has become left.
Drop(st, left) == IF left = {} THEN Tail(st) ELSE <<left>> \o Tail(st)

\* The stages without the first, or with left in its place.
LEMMA DropShape ==
    ASSUME NEW st \in Stages, st # <<>>, NEW left \in SUBSET (Steps \X ProfileIds)
    PROVE  LET new == Drop(st, left)
               d   == IF left = {} THEN 1 ELSE 0
           IN  /\ new \in Stages
               /\ Len(st) \in Nat /\ Len(st) > 0 /\ Len(new) = Len(st) - d
               /\ \A i \in 1 .. Len(new) : i + d > 1 => new[i] = st[i + d]
               /\ left # {} => new[1] = left
<1>1. Tail(st) \in Stages /\ Len(st) \in Nat /\ Len(st) > 0 /\ Len(Tail(st)) = Len(st) - 1
      /\ \A i \in 1 .. Len(st) - 1 : Tail(st)[i] = st[i + 1]
  BY EmptySeq, HeadTailProperties DEF Stages
<1>2. CASE left = {}
  BY <1>1, <1>2 DEF Drop
<1>3. CASE left # {}
  <2>1. <<left>> \in Stages /\ Len(<<left>>) = 1 /\ <<left>>[1] = left
    BY DEF Stages
  <2>2. /\ <<left>> \o Tail(st) \in Stages
        /\ Len(<<left>> \o Tail(st)) = 1 + (Len(st) - 1)
        /\ \A i \in 1 .. 1 + (Len(st) - 1) : (<<left>> \o Tail(st))[i] =
             IF i <= 1 THEN <<left>>[i] ELSE Tail(st)[i - 1]
    BY <1>1, <2>1, ConcatProperties DEF Stages
  <2>3. \A i \in 1 .. Len(st) : i > 1 => (<<left>> \o Tail(st))[i] = st[i]
    BY <1>1, <2>2
  <2>4. (<<left>> \o Tail(st))[1] = left
    BY <1>1, <2>1, <2>2
  <2> QED  BY <1>1, <1>3, <2>2, <2>3, <2>4 DEF Drop
<1> QED  BY <1>2, <1>3

\* What remains of the stages st, and of their order, once step x of the first one is done
\* and the steps more have joined it.
Dropped(st, x, more, new) ==
    /\ new \in Stages
    /\ \A y : Has(new, y) => y \in more \/ Has(st, y)
    /\ \A y : Has(st, y) /\ y # x => Has(new, y)
    /\ \A y \in more : Has(new, y)
    /\ Has(st, x)
    /\ Once(st, x) /\ x \notin more => ~Has(new, x)
    /\ \A y, z : Leads(st, y, z) /\ y \notin more => Leads(new, y, z)
    /\ \A y, z : Precedes(st, y, z) /\ y \notin more
                 /\ (z \notin more \/ ~Has(st, y)) => Precedes(new, y, z)
    /\ \A y : Once(st, y) /\ y \notin more => Once(new, y)

\* What is done is the first stage's; what joins is now in the first stage.
LEMMA DropSteps ==
    ASSUME NEW st \in Stages, st # <<>>, NEW x \in Steps \X ProfileIds, x \in Head(st),
           NEW more \in SUBSET (Steps \X ProfileIds)
    PROVE  Dropped(st, x, more, Drop(st, (Head(st) \ {x}) \cup more))
<1> DEFINE left == (Head(st) \ {x}) \cup more
           new  == Drop(st, left)
           d    == IF left = {} THEN 1 ELSE 0
<1>1. Len(st) \in Nat /\ Len(st) > 0 /\ Head(st) = st[1]
        /\ Head(st) \in SUBSET (Steps \X ProfileIds)
  BY EmptySeq, HeadTailProperties DEF Stages
<1>a. left \in SUBSET (Steps \X ProfileIds)
  BY <1>1
<1>b. d \in {0, 1} /\ (d = 1 <=> left = {})
  OBVIOUS
<1> HIDE DEF left
<1>2. /\ new \in Stages /\ Len(new) = Len(st) - d /\ d \in {0, 1} /\ Len(new) \in Nat
      /\ \A i \in 1 .. Len(new) : i + d > 1 => new[i] = st[i + d]
      /\ left # {} => new[1] = left
  <2>1. /\ new \in Stages /\ Len(new) = Len(st) - d
        /\ \A i \in 1 .. Len(new) : i + d > 1 => new[i] = st[i + d]
        /\ left # {} => new[1] = left
    BY <1>a, DropShape, Zenon
  <2> HIDE DEF new, d
  <2> QED  BY <1>1, <1>b, <2>1
<1> HIDE DEF new, d
<1>3. \A i \in 1 .. Len(new) : \A y :
          y \in new[i] /\ y \notin more => i + d \in 1 .. Len(st) /\ y \in st[i + d]
  <2> SUFFICES ASSUME NEW i \in 1 .. Len(new), NEW y, y \in new[i], y \notin more
               PROVE  i + d \in 1 .. Len(st) /\ y \in st[i + d]
    OBVIOUS
  <2>1. CASE i + d > 1
    BY <1>1, <1>2, <2>1
  <2>2. CASE ~(i + d > 1)
    <3>1. d = 0 /\ i = 1 /\ new[1] = left
      BY <1>1, <1>2, <1>b, <2>2
    <3>2. y \in st[1]
      BY <1>1, <3>1 DEF left
    <3> QED  BY <1>1, <3>1, <3>2
  <2> QED  BY <2>1, <2>2
<1>4. \A k \in 1 .. Len(st) : \A y : y \in st[k] /\ (k > 1 \/ y # x) =>
          k - d \in 1 .. Len(new) /\ y \in new[k - d]
  <2> SUFFICES ASSUME NEW k \in 1 .. Len(st), NEW y, y \in st[k], k > 1 \/ y # x
               PROVE  k - d \in 1 .. Len(new) /\ y \in new[k - d]
    OBVIOUS
  <2>1. CASE k > 1
    <3>1. k - d \in 1 .. Len(new) /\ (k - d) + d > 1 /\ (k - d) + d = k
      BY <1>1, <1>2, <2>1
    <3> QED  BY <1>2, <3>1
  <2>2. CASE k = 1
    <3>1. y \in left /\ left # {} /\ d = 0
      BY <1>1, <1>b, <2>2 DEF left
    <3> QED  BY <1>1, <1>2, <2>2, <3>1
  <2> QED  BY <1>1, <2>1, <2>2
<1>5. \A y \in more : 1 \in 1 .. Len(new) /\ y \in new[1]
  <2> SUFFICES ASSUME NEW y \in more  PROVE 1 \in 1 .. Len(new) /\ y \in new[1]
    OBVIOUS
  <2>1. y \in left /\ left # {} /\ d = 0
    BY <1>b DEF left
  <2> QED  BY <1>1, <1>2, <2>1
<1>6. 1 \in 1 .. Len(st) /\ x \in st[1]
  BY <1>1
<1>7. \A i \in 1 .. Len(new), k \in 1 .. Len(new) : i < k <=> i + d < k + d
  BY <1>1, <1>2
<1>8. \A y : Has(new, y) => y \in more \/ Has(st, y)
  BY <1>3 DEF Has
<1>9. \A y : Has(st, y) /\ y # x => Has(new, y)
  BY <1>4 DEF Has
<1>10. (\A y \in more : Has(new, y)) /\ Has(st, x)
  BY <1>5, <1>6 DEF Has
<1>11. ASSUME Once(st, x), x \notin more, Has(new, x)  PROVE FALSE
  <2>1. PICK i \in 1 .. Len(new) : x \in new[i]
    BY <1>11 DEF Has
  <2>2. i + d \in 1 .. Len(st) /\ x \in st[i + d]
    BY <1>3, <1>11, <2>1
  <2>3. i + d = 1
    BY <1>6, <1>11, <2>2 DEF Once
  <2>4. d = 0 /\ i = 1
    BY <1>1, <1>2, <2>1, <2>3
  <2>5. x \in left
    BY <1>2, <1>b, <2>1, <2>4
  <2> QED  BY <1>11, <2>5 DEF left
<1>12. ASSUME NEW y, NEW z, Leads(st, y, z), y \notin more  PROVE Leads(new, y, z)
  <2> SUFFICES ASSUME NEW i \in 1 .. Len(new), y \in new[i]
               PROVE  \E k \in 1 .. Len(new) : i < k /\ z \in new[k]
    BY DEF Leads
  <2>1. i + d \in 1 .. Len(st) /\ y \in st[i + d]
    BY <1>3, <1>12
  <2>2. PICK k \in 1 .. Len(st) : i + d < k /\ z \in st[k]
    BY <1>12, <2>1 DEF Leads
  <2>3. k > 1
    BY <1>1, <2>1, <2>2
  <2>4. k - d \in 1 .. Len(new) /\ z \in new[k - d]
    BY <1>4, <2>2, <2>3
  <2>5. i < k - d
    BY <1>1, <1>2, <2>2
  <2> QED  BY <2>4, <2>5
<1>13. ASSUME NEW y, NEW z, Precedes(st, y, z), y \notin more, z \notin more \/ ~Has(st, y)
       PROVE  Precedes(new, y, z)
  <2> SUFFICES ASSUME NEW i \in 1 .. Len(new), NEW k \in 1 .. Len(new),
                      y \in new[i], z \in new[k]
               PROVE  i < k
    BY DEF Precedes
  <2>1. i + d \in 1 .. Len(st) /\ y \in st[i + d]
    BY <1>3, <1>13
  <2>2. z \notin more
    BY <1>13, <2>1 DEF Has
  <2>3. k + d \in 1 .. Len(st) /\ z \in st[k + d]
    BY <1>3, <2>2
  <2> QED  BY <1>7, <1>13, <2>1, <2>3 DEF Precedes
<1>14. ASSUME NEW y, Once(st, y), y \notin more  PROVE Once(new, y)
  <2> SUFFICES ASSUME NEW i \in 1 .. Len(new), NEW k \in 1 .. Len(new),
                      y \in new[i], y \in new[k]
               PROVE  i = k
    BY DEF Once
  <2>1. i + d \in 1 .. Len(st) /\ y \in st[i + d] /\ k + d \in 1 .. Len(st) /\ y \in st[k + d]
    BY <1>3, <1>14
  <2>2. i + d = k + d
    BY <1>14, <2>1 DEF Once
  <2> QED  BY <1>1, <1>2, <2>2
<1>15. new \in Stages
  BY <1>2
<1> QED  BY <1>8, <1>9, <1>10, <1>11, <1>12, <1>13, <1>14, <1>15
         DEF Dropped, new, left

----------------------------------------------------------------------------
(* The stages each operation starts with *)

\* Two lists of stages after one another are one.
LEMMA ConcatStages ==
    ASSUME NEW s \in Stages, NEW t \in Stages
    PROVE  /\ s \o t \in Stages
           /\ Len(s) \in Nat /\ Len(t) \in Nat
           /\ Len(s \o t) = Len(s) + Len(t)
           /\ \A i \in 1 .. Len(s) + Len(t) :
                (s \o t)[i] = IF i <= Len(s) THEN s[i] ELSE t[i - Len(s)]
  BY ConcatProperties, LenProperties DEF Stages

\* Two stages at most behind others.
LEMMA MoreStages ==
    ASSUME NEW s \in Stages, NEW t \in Stages
    PROVE  /\ s \o t \in Stages
           /\ Len(s \o t) = Len(s) + Len(t)
           /\ \A i \in 1 .. Len(s) : (s \o t)[i] = s[i]
           /\ Len(t) >= 1 => (s \o t)[Len(s) + 1] = t[1]
           /\ Len(t) >= 2 => (s \o t)[Len(s) + 2] = t[2]
<1>1. /\ Len(s) \in Nat /\ Len(t) \in Nat /\ s \o t \in Stages /\ Len(s \o t) = Len(s) + Len(t)
      /\ \A i \in 1 .. Len(s) + Len(t) :
           (s \o t)[i] = IF i <= Len(s) THEN s[i] ELSE t[i - Len(s)]
  BY ConcatStages
<1>2. ASSUME NEW k \in {1, 2}, Len(t) >= k  PROVE (s \o t)[Len(s) + k] = t[k]
  <2>1. /\ Len(s) + k \in 1 .. Len(s) + Len(t) /\ ~(Len(s) + k <= Len(s))
        /\ (Len(s) + k) - Len(s) = k
    BY <1>1, <1>2
  <2> QED  BY <1>1, <2>1
<1> QED  BY <1>1, <1>2

\* Lists of one and of two stages of a single step.
LEMMA StepStages ==
    ASSUME NEW p \in ProfileIds, NEW q \in ProfileIds, NEW s \in Steps, NEW u \in Steps
    PROVE  /\ <<Step(s, p)>> \in Stages /\ <<Step(s, p), Step(u, q)>> \in Stages
           /\ Len(<<Step(s, p)>>) = 1 /\ <<Step(s, p)>>[1] = Step(s, p)
           /\ Len(<<Step(s, p), Step(u, q)>>) = 2
           /\ <<Step(s, p), Step(u, q)>>[1] = Step(s, p)
           /\ <<Step(s, p), Step(u, q)>>[2] = Step(u, q)
  BY DEF Step, Stages

\* The stage of an update.
LEMMA UpdateStages ==
    ASSUME NEW p \in ProfileIds
    PROVE  Update(p) \in Stages /\ Len(Update(p)) = 1 /\ Update(p)[1] = Step("update", p)
  BY StepStages DEF Update, Steps

\* The stages of the removal of records.
LEMMA ClearStages ==
    ASSUME NEW p \in ProfileIds
    PROVE  /\ Clear(p) \in Stages /\ Len(Clear(p)) = 2
           /\ Clear(p)[1] = Step("find", p) /\ Clear(p)[2] = Step("clear", p)
  BY StepStages DEF Clear, Steps

\* The stages after PutProfileObject, one by one.
LEMMA PutStages ==
    ASSUME NEW c \in ProfileIds
    PROVE  LET st == <<Step("row", c)>> \o Update(c)
           IN  st \in Stages /\ Len(st) = 2
               /\ st[1] = Step("row", c) /\ st[2] = Step("update", c)
<1> DEFINE s == <<Step("row", c)>>
           t == Update(c)
           st == s \o t
<1>1. s \in Stages /\ Len(s) = 1 /\ s[1] = Step("row", c)
  BY StepStages DEF Steps
<1>2. t \in Stages /\ Len(t) = 1 /\ t[1] = Step("update", c)
  BY UpdateStages
<1> HIDE DEF s, t
<1>3. /\ st \in Stages /\ Len(st) = Len(s) + Len(t) /\ (\A i \in 1 .. Len(s) : st[i] = s[i])
      /\ Len(t) >= 1 => st[Len(s) + 1] = t[1]
  BY <1>1, <1>2, MoreStages
<1> HIDE DEF st
<1>4. st \in Stages /\ Len(st) = 2 /\ st[1] = Step("row", c) /\ st[2] = Step("update", c)
  BY <1>1, <1>2, <1>3
<1> QED  BY <1>4 DEF st, s, t

\* Those of CacheProfile.
LEMMA RebuildStages ==
    ASSUME NEW p \in ProfileIds
    PROVE  LET st == <<Step("row", p), Step("build", p)>> \o Update(p)
           IN  st \in Stages /\ Len(st) = 3
               /\ st[1] = Step("row", p) /\ st[2] = Step("build", p) /\ st[3] = Step("update", p)
<1> DEFINE s == <<Step("row", p), Step("build", p)>>
           t == Update(p)
           st == s \o t
<1>1. s \in Stages /\ Len(s) = 2 /\ s[1] = Step("row", p) /\ s[2] = Step("build", p)
  BY StepStages DEF Steps
<1>2. t \in Stages /\ Len(t) = 1 /\ t[1] = Step("update", p)
  BY UpdateStages
<1> HIDE DEF s, t
<1>3. /\ st \in Stages /\ Len(st) = Len(s) + Len(t) /\ (\A i \in 1 .. Len(s) : st[i] = s[i])
      /\ Len(t) >= 1 => st[Len(s) + 1] = t[1]
  BY <1>1, <1>2, MoreStages
<1> HIDE DEF st
<1>4. /\ st \in Stages /\ Len(st) = 3
      /\ st[1] = Step("row", p) /\ st[2] = Step("build", p) /\ st[3] = Step("update", p)
  BY <1>1, <1>2, <1>3
<1> QED  BY <1>4 DEF st, s, t

\* Those of DeleteProfile.
LEMMA EraseStages ==
    ASSUME NEW c \in ProfileIds
    PROVE  LET st == Clear(c) \o <<Step("remove", c)>>
           IN  st \in Stages /\ Len(st) = 3
               /\ st[1] = Step("find", c) /\ st[2] = Step("clear", c) /\ st[3] = Step("remove", c)
<1> DEFINE s == Clear(c)
           t == <<Step("remove", c)>>
           st == s \o t
<1>1. s \in Stages /\ Len(s) = 2 /\ s[1] = Step("find", c) /\ s[2] = Step("clear", c)
  BY ClearStages
<1>2. t \in Stages /\ Len(t) = 1 /\ t[1] = Step("remove", c)
  BY StepStages DEF Steps
<1> HIDE DEF s, t
<1>3. /\ st \in Stages /\ Len(st) = Len(s) + Len(t) /\ (\A i \in 1 .. Len(s) : st[i] = s[i])
      /\ Len(t) >= 1 => st[Len(s) + 1] = t[1]
  BY <1>1, <1>2, MoreStages
<1> HIDE DEF st
<1>4. /\ st \in Stages /\ Len(st) = 3
      /\ st[1] = Step("find", c) /\ st[2] = Step("clear", c) /\ st[3] = Step("remove", c)
  BY <1>1, <1>2, <1>3
<1> QED  BY <1>4 DEF st, s, t

\* Those of MergeProfiles.
LEMMA MergeStages ==
    ASSUME NEW a \in ProfileIds, NEW b \in ProfileIds
    PROVE  LET st == <<Step("row", a), Step("build", a)>> \o Update(a)
                     \o <<Step("withdraw", b)>> \o Clear(b)
           IN  st \in Stages /\ Len(st) = 6
               /\ st[1] = Step("row", a) /\ st[2] = Step("build", a) /\ st[3] = Step("update", a)
               /\ st[4] = Step("withdraw", b) /\ st[5] = Step("find", b)
                    /\ st[6] = Step("clear", b)
<1> DEFINE r == <<Step("row", a), Step("build", a)>> \o Update(a)
           s == <<Step("withdraw", b)>>
           q == r \o s
           t == Clear(b)
           st == q \o t
<1>1. /\ r \in Stages /\ Len(r) = 3
      /\ r[1] = Step("row", a) /\ r[2] = Step("build", a) /\ r[3] = Step("update", a)
  BY RebuildStages
<1>2. s \in Stages /\ Len(s) = 1 /\ s[1] = Step("withdraw", b)
  BY StepStages DEF Steps
<1>3. t \in Stages /\ Len(t) = 2 /\ t[1] = Step("find", b) /\ t[2] = Step("clear", b)
  BY ClearStages
<1> HIDE DEF r, s, t
<1>4. /\ q \in Stages /\ Len(q) = Len(r) + Len(s) /\ (\A i \in 1 .. Len(r) : q[i] = r[i])
      /\ Len(s) >= 1 => q[Len(r) + 1] = s[1]
  BY <1>1, <1>2, MoreStages
<1> HIDE DEF q
<1>5. /\ q \in Stages /\ Len(q) = 4 /\ q[1] = r[1] /\ q[2] = r[2] /\ q[3] = r[3] /\ q[4] = s[1]
  BY <1>1, <1>2, <1>4
<1>6. /\ st \in Stages /\ Len(st) = Len(q) + Len(t) /\ (\A i \in 1 .. Len(q) : st[i] = q[i])
      /\ Len(t) >= 1 => st[Len(q) + 1] = t[1]
      /\ Len(t) >= 2 => st[Len(q) + 2] = t[2]
  BY <1>3, <1>5, MoreStages
<1> HIDE DEF st
<1>7. /\ st \in Stages /\ Len(st) = 6
      /\ st[1] = q[1] /\ st[2] = q[2] /\ st[3] = q[3] /\ st[4] = q[4] /\ st[5] = t[1]
           /\ st[6] = t[2]
  BY <1>3, <1>5, <1>6
<1>8. /\ st \in Stages /\ Len(st) = 6
      /\ st[1] = Step("row", a) /\ st[2] = Step("build", a) /\ st[3] = Step("update", a)
      /\ st[4] = Step("withdraw", b) /\ st[5] = Step("find", b) /\ st[6] = Step("clear", b)
  BY <1>1, <1>2, <1>3, <1>5, <1>7
<1> QED  BY <1>8 DEF st, q, r, s, t

\* Those of UnmergeProfiles.
LEMMA UnmergeStages ==
    ASSUME NEW a \in ProfileIds, NEW b \in ProfileIds
    PROVE  LET st == <<Step("build", a), Step("build", b)>> \o Clear(a) \o Update(a) \o Update(b)
           IN  st \in Stages /\ Len(st) = 6
               /\ st[1] = Step("build", a) /\ st[2] = Step("build", b)
               /\ st[3] = Step("find", a) /\ st[4] = Step("clear", a)
               /\ st[5] = Step("update", a) /\ st[6] = Step("update", b)
<1> DEFINE s == <<Step("build", a), Step("build", b)>>
           t == Clear(a)
           q == s \o t
           u == Update(a)
           r == q \o u
           v == Update(b)
           st == r \o v
<1>1. s \in Stages /\ Len(s) = 2 /\ s[1] = Step("build", a) /\ s[2] = Step("build", b)
  BY StepStages DEF Steps
<1>2. t \in Stages /\ Len(t) = 2 /\ t[1] = Step("find", a) /\ t[2] = Step("clear", a)
  BY ClearStages
<1>3. /\ u \in Stages /\ Len(u) = 1 /\ u[1] = Step("update", a)
      /\ v \in Stages /\ Len(v) = 1 /\ v[1] = Step("update", b)
  BY UpdateStages
<1> HIDE DEF s, t, u, v
<1>4. /\ q \in Stages /\ Len(q) = Len(s) + Len(t) /\ (\A i \in 1 .. Len(s) : q[i] = s[i])
      /\ Len(t) >= 1 => q[Len(s) + 1] = t[1]
      /\ Len(t) >= 2 => q[Len(s) + 2] = t[2]
  BY <1>1, <1>2, MoreStages
<1> HIDE DEF q
<1>5. q \in Stages /\ Len(q) = 4 /\ q[1] = s[1] /\ q[2] = s[2] /\ q[3] = t[1] /\ q[4] = t[2]
  BY <1>1, <1>2, <1>4
<1>6. /\ r \in Stages /\ Len(r) = Len(q) + Len(u) /\ (\A i \in 1 .. Len(q) : r[i] = q[i])
      /\ Len(u) >= 1 => r[Len(q) + 1] = u[1]
  BY <1>3, <1>5, MoreStages
<1> HIDE DEF r
<1>7. /\ r \in Stages /\ Len(r) = 5
      /\ r[1] = q[1] /\ r[2] = q[2] /\ r[3] = q[3] /\ r[4] = q[4] /\ r[5] = u[1]
  BY <1>3, <1>5, <1>6
<1>8. /\ st \in Stages /\ Len(st) = Len(r) + Len(v) /\ (\A i \in 1 .. Len(r) : st[i] = r[i])
      /\ Len(v) >= 1 => st[Len(r) + 1] = v[1]
  BY <1>3, <1>7, MoreStages
<1> HIDE DEF st
<1>9. /\ st \in Stages /\ Len(st) = 6
      /\ st[1] = r[1] /\ st[2] = r[2] /\ st[3] = r[3] /\ st[4] = r[4] /\ st[5] = r[5]
           /\ st[6] = v[1]
  BY <1>3, <1>7, <1>8
<1>10. /\ st \in Stages /\ Len(st) = 6
       /\ st[1] = Step("build", a) /\ st[2] = Step("build", b)
       /\ st[3] = Step("find", a) /\ st[4] = Step("clear", a)
       /\ st[5] = Step("update", a) /\ st[6] = Step("update", b)
  BY <1>1, <1>2, <1>3, <1>5, <1>7, <1>9
<1> QED  BY <1>10 DEF st, r, q, s, t, u, v

----------------------------------------------------------------------------
(* What is left of an operation is planned *)

\* The stages after PutProfileObject have the order the proofs need.
LEMMA PutPlanned ==
    ASSUME NEW c \in ProfileIds, NEW j,
           j.stages = <<Step("row", c)>> \o Update(c),
           j.ids = {c}, j.ending = {}
    PROVE  /\ Planned(j) /\ j.stages \in Stages /\ j.stages # <<>>
           /\ \A x : Has(j.stages, x) <=> x \in {<<"row", c>>, <<"update", c>>}
<1> DEFINE st == j.stages
<1>1. /\ st \in Stages /\ Len(st) = 2
      /\ st[1] = {<<"row", c>>}
      /\ st[2] = {<<"update", c>>}
  <2>1. /\ st \in Stages /\ Len(st) = 2
        /\ st[1] = Step("row", c)
        /\ st[2] = Step("update", c)
    BY PutStages, Zenon
  <2> HIDE DEF st
  <2> QED  BY <2>1 DEF Step
<1> HIDE DEF st
<1>2. \A i \in 1 .. Len(st) : \A x : x \in st[i] <=>
        \/ i = 1 /\ x = <<"row", c>>
        \/ i = 2 /\ x = <<"update", c>>
  <2> SUFFICES ASSUME NEW i \in 1 .. 2
               PROVE  \A x : x \in st[i] <=>
                        \/ i = 1 /\ x = <<"row", c>>
                        \/ i = 2 /\ x = <<"update", c>>
    BY <1>1
  <2>1. i = 1 \/ i = 2
    OBVIOUS
  <2> QED  BY <1>1, <2>1
<1>3. {1, 2} \subseteq 1 .. Len(st)
  BY <1>1
<1>4. \A x : Has(st, x) <=> x \in {<<"row", c>>, <<"update", c>>}
  BY <1>2, <1>3 DEF Has
<1>5. st # <<>>
  <2>1. Len(st) # Len(<<>>)
    BY <1>1
  <2> QED  BY <2>1, Zenon
<1>6. \A z \in ProfileIds :
         /\ Leads(st, <<"row", z>>, <<"update", z>>)
         /\ Leads(st, <<"build", z>>, <<"update", z>>)
         /\ Leads(st, <<"find", z>>, <<"clear", z>>)
  BY <1>2, <1>3, <1>1 DEF Leads
<1>7. \A z \in ProfileIds :
         /\ Precedes(st, <<"find", z>>, <<"clear", z>>)
         /\ \A s \in {"update", "record", "objects"} :
              Precedes(st, <<"clear", z>>, <<s, z>>)
  BY <1>2, <1>1 DEF Precedes
<1>8. \A z \in ProfileIds : Once(st, <<"find", z>>) /\ Once(st, <<"clear", z>>)
  BY <1>2, <1>1 DEF Once
<1>9. \A z \in ProfileIds :
         /\ \A s \in Steps : Has(st, <<s, z>>) => z \in j.ids
         /\ \A s \in Away \cup {"find", "clear"} : Has(st, <<s, z>>) => z \in j.ending
         /\ \A s \in Away, u \in Up : ~(Has(st, <<s, z>>) /\ Has(st, <<u, z>>))
         /\ \A q \in ProfileIds :
              Has(st, <<"clear", z>>) /\ Has(st, <<"clear", q>>) => z = q
  <2>1. \A z \in ProfileIds, s \in Steps : Has(st, <<s, z>>) => z \in j.ids
    BY <1>4
  <2>2. \A z \in ProfileIds, s \in {"withdraw", "remove", "find", "clear"} :
          Has(st, <<s, z>>) => z \in j.ending
    BY <1>4
  <2>3. \A z \in ProfileIds, s \in Away, u \in Up : ~(Has(st, <<s, z>>) /\ Has(st, <<u, z>>))
    BY <1>4 DEF Away, Up
  <2>4. \A z, q \in ProfileIds :
          Has(st, <<"clear", z>>) /\ Has(st, <<"clear", q>>) => z = q
    BY <1>4
  <2> QED  BY <2>1, <2>2, <2>3, <2>4 DEF Away
<1>10. j.ending \subseteq j.ids
  OBVIOUS
<1>11. j.stages = st
  BY DEF st
<1> QED  BY <1>1, <1>4, <1>5, <1>6, <1>7, <1>8, <1>9, <1>10, <1>11 DEF Planned

\* So have those of CacheProfile.
LEMMA RebuildPlanned ==
    ASSUME NEW p \in ProfileIds, NEW j,
           j.stages = <<Step("row", p), Step("build", p)>> \o Update(p),
           j.ids = {p}, j.ending = {}
    PROVE  /\ Planned(j) /\ j.stages \in Stages /\ j.stages # <<>>
           /\ \A x : Has(j.stages, x) <=> x \in {<<"row", p>>, <<"build", p>>, <<"update", p>>}
<1> DEFINE st == j.stages
<1>1. /\ st \in Stages /\ Len(st) = 3
      /\ st[1] = {<<"row", p>>}
      /\ st[2] = {<<"build", p>>}
      /\ st[3] = {<<"update", p>>}
  <2>1. /\ st \in Stages /\ Len(st) = 3
        /\ st[1] = Step("row", p)
        /\ st[2] = Step("build", p)
        /\ st[3] = Step("update", p)
    BY RebuildStages, Zenon
  <2> HIDE DEF st
  <2> QED  BY <2>1 DEF Step
<1> HIDE DEF st
<1>2. \A i \in 1 .. Len(st) : \A x : x \in st[i] <=>
        \/ i = 1 /\ x = <<"row", p>>
        \/ i = 2 /\ x = <<"build", p>>
        \/ i = 3 /\ x = <<"update", p>>
  <2> SUFFICES ASSUME NEW i \in 1 .. 3
               PROVE  \A x : x \in st[i] <=>
                        \/ i = 1 /\ x = <<"row", p>>
                        \/ i = 2 /\ x = <<"build", p>>
                        \/ i = 3 /\ x = <<"update", p>>
    BY <1>1
  <2>1. i = 1 \/ i = 2 \/ i = 3
    OBVIOUS
  <2> QED  BY <1>1, <2>1
<1>3. {1, 2, 3} \subseteq 1 .. Len(st)
  BY <1>1
<1>4. \A x : Has(st, x) <=> x \in {<<"row", p>>, <<"build", p>>, <<"update", p>>}
  BY <1>2, <1>3 DEF Has
<1>5. st # <<>>
  <2>1. Len(st) # Len(<<>>)
    BY <1>1
  <2> QED  BY <2>1, Zenon
<1>6. \A z \in ProfileIds :
         /\ Leads(st, <<"row", z>>, <<"update", z>>)
         /\ Leads(st, <<"build", z>>, <<"update", z>>)
         /\ Leads(st, <<"find", z>>, <<"clear", z>>)
  BY <1>2, <1>3, <1>1 DEF Leads
<1>7. \A z \in ProfileIds :
         /\ Precedes(st, <<"find", z>>, <<"clear", z>>)
         /\ \A s \in {"update", "record", "objects"} :
              Precedes(st, <<"clear", z>>, <<s, z>>)
  BY <1>2, <1>1 DEF Precedes
<1>8. \A z \in ProfileIds : Once(st, <<"find", z>>) /\ Once(st, <<"clear", z>>)
  BY <1>2, <1>1 DEF Once
<1>9. \A z \in ProfileIds :
         /\ \A s \in Steps : Has(st, <<s, z>>) => z \in j.ids
         /\ \A s \in Away \cup {"find", "clear"} : Has(st, <<s, z>>) => z \in j.ending
         /\ \A s \in Away, u \in Up : ~(Has(st, <<s, z>>) /\ Has(st, <<u, z>>))
         /\ \A q \in ProfileIds :
              Has(st, <<"clear", z>>) /\ Has(st, <<"clear", q>>) => z = q
  <2>1. \A z \in ProfileIds, s \in Steps : Has(st, <<s, z>>) => z \in j.ids
    BY <1>4
  <2>2. \A z \in ProfileIds, s \in {"withdraw", "remove", "find", "clear"} :
          Has(st, <<s, z>>) => z \in j.ending
    BY <1>4
  <2>3. \A z \in ProfileIds, s \in Away, u \in Up : ~(Has(st, <<s, z>>) /\ Has(st, <<u, z>>))
    BY <1>4 DEF Away, Up
  <2>4. \A z, q \in ProfileIds :
          Has(st, <<"clear", z>>) /\ Has(st, <<"clear", q>>) => z = q
    BY <1>4
  <2> QED  BY <2>1, <2>2, <2>3, <2>4 DEF Away
<1>10. j.ending \subseteq j.ids
  OBVIOUS
<1>11. j.stages = st
  BY DEF st
<1> QED  BY <1>1, <1>4, <1>5, <1>6, <1>7, <1>8, <1>9, <1>10, <1>11 DEF Planned

\* So have those of DeleteProfile.
LEMMA ErasePlanned ==
    ASSUME NEW c \in ProfileIds, NEW j,
           j.stages = Clear(c) \o <<Step("remove", c)>>,
           j.ids = {c}, j.ending = {c}
    PROVE  /\ Planned(j) /\ j.stages \in Stages /\ j.stages # <<>>
           /\ \A x : Has(j.stages, x) <=> x \in {<<"find", c>>, <<"clear", c>>, <<"remove", c>>}
<1> DEFINE st == j.stages
<1>1. /\ st \in Stages /\ Len(st) = 3
      /\ st[1] = {<<"find", c>>}
      /\ st[2] = {<<"clear", c>>}
      /\ st[3] = {<<"remove", c>>}
  <2>1. /\ st \in Stages /\ Len(st) = 3
        /\ st[1] = Step("find", c)
        /\ st[2] = Step("clear", c)
        /\ st[3] = Step("remove", c)
    BY EraseStages, Zenon
  <2> HIDE DEF st
  <2> QED  BY <2>1 DEF Step
<1> HIDE DEF st
<1>2. \A i \in 1 .. Len(st) : \A x : x \in st[i] <=>
        \/ i = 1 /\ x = <<"find", c>>
        \/ i = 2 /\ x = <<"clear", c>>
        \/ i = 3 /\ x = <<"remove", c>>
  <2> SUFFICES ASSUME NEW i \in 1 .. 3
               PROVE  \A x : x \in st[i] <=>
                        \/ i = 1 /\ x = <<"find", c>>
                        \/ i = 2 /\ x = <<"clear", c>>
                        \/ i = 3 /\ x = <<"remove", c>>
    BY <1>1
  <2>1. i = 1 \/ i = 2 \/ i = 3
    OBVIOUS
  <2> QED  BY <1>1, <2>1
<1>3. {1, 2, 3} \subseteq 1 .. Len(st)
  BY <1>1
<1>4. \A x : Has(st, x) <=> x \in {<<"find", c>>, <<"clear", c>>, <<"remove", c>>}
  BY <1>2, <1>3 DEF Has
<1>5. st # <<>>
  <2>1. Len(st) # Len(<<>>)
    BY <1>1
  <2> QED  BY <2>1, Zenon
<1>6. \A z \in ProfileIds :
         /\ Leads(st, <<"row", z>>, <<"update", z>>)
         /\ Leads(st, <<"build", z>>, <<"update", z>>)
         /\ Leads(st, <<"find", z>>, <<"clear", z>>)
  BY <1>2, <1>3, <1>1 DEF Leads
<1>7. \A z \in ProfileIds :
         /\ Precedes(st, <<"find", z>>, <<"clear", z>>)
         /\ \A s \in {"update", "record", "objects"} :
              Precedes(st, <<"clear", z>>, <<s, z>>)
  BY <1>2, <1>1 DEF Precedes
<1>8. \A z \in ProfileIds : Once(st, <<"find", z>>) /\ Once(st, <<"clear", z>>)
  BY <1>2, <1>1 DEF Once
<1>9. \A z \in ProfileIds :
         /\ \A s \in Steps : Has(st, <<s, z>>) => z \in j.ids
         /\ \A s \in Away \cup {"find", "clear"} : Has(st, <<s, z>>) => z \in j.ending
         /\ \A s \in Away, u \in Up : ~(Has(st, <<s, z>>) /\ Has(st, <<u, z>>))
         /\ \A q \in ProfileIds :
              Has(st, <<"clear", z>>) /\ Has(st, <<"clear", q>>) => z = q
  <2>1. \A z \in ProfileIds, s \in Steps : Has(st, <<s, z>>) => z \in j.ids
    BY <1>4
  <2>2. \A z \in ProfileIds, s \in {"withdraw", "remove", "find", "clear"} :
          Has(st, <<s, z>>) => z \in j.ending
    BY <1>4
  <2>3. \A z \in ProfileIds, s \in Away, u \in Up : ~(Has(st, <<s, z>>) /\ Has(st, <<u, z>>))
    BY <1>4 DEF Away, Up
  <2>4. \A z, q \in ProfileIds :
          Has(st, <<"clear", z>>) /\ Has(st, <<"clear", q>>) => z = q
    BY <1>4
  <2> QED  BY <2>1, <2>2, <2>3, <2>4 DEF Away
<1>10. j.ending \subseteq j.ids
  OBVIOUS
<1>11. j.stages = st
  BY DEF st
<1> QED  BY <1>1, <1>4, <1>5, <1>6, <1>7, <1>8, <1>9, <1>10, <1>11 DEF Planned

\* So have those of MergeProfiles.
LEMMA MergePlanned ==
    ASSUME NEW a \in ProfileIds, NEW b \in ProfileIds, a # b, NEW j,
           j.stages = <<Step("row", a), Step("build", a)>> \o Update(a)
                        \o <<Step("withdraw", b)>> \o Clear(b),
           j.ids = {a, b}, j.ending = {b}
    PROVE  /\ Planned(j) /\ j.stages \in Stages /\ j.stages # <<>>
           /\ \A x : Has(j.stages, x)
                <=> x \in {<<"row", a>>, <<"build", a>>, <<"update", a>>, <<"withdraw", b>>,
                     <<"find", b>>, <<"clear", b>>}
<1> DEFINE st == j.stages
<1>1. /\ st \in Stages /\ Len(st) = 6
      /\ st[1] = {<<"row", a>>}
      /\ st[2] = {<<"build", a>>}
      /\ st[3] = {<<"update", a>>}
      /\ st[4] = {<<"withdraw", b>>}
      /\ st[5] = {<<"find", b>>}
      /\ st[6] = {<<"clear", b>>}
  <2>1. /\ st \in Stages /\ Len(st) = 6
        /\ st[1] = Step("row", a)
        /\ st[2] = Step("build", a)
        /\ st[3] = Step("update", a)
        /\ st[4] = Step("withdraw", b)
        /\ st[5] = Step("find", b)
        /\ st[6] = Step("clear", b)
    BY MergeStages
  <2> HIDE DEF st
  <2> QED  BY <2>1 DEF Step
<1> HIDE DEF st
<1>2. \A i \in 1 .. Len(st) : \A x : x \in st[i] <=>
        \/ i = 1 /\ x = <<"row", a>>
        \/ i = 2 /\ x = <<"build", a>>
        \/ i = 3 /\ x = <<"update", a>>
        \/ i = 4 /\ x = <<"withdraw", b>>
        \/ i = 5 /\ x = <<"find", b>>
        \/ i = 6 /\ x = <<"clear", b>>
  <2> SUFFICES ASSUME NEW i \in 1 .. 6
               PROVE  \A x : x \in st[i] <=>
                        \/ i = 1 /\ x = <<"row", a>>
                        \/ i = 2 /\ x = <<"build", a>>
                        \/ i = 3 /\ x = <<"update", a>>
                        \/ i = 4 /\ x = <<"withdraw", b>>
                        \/ i = 5 /\ x = <<"find", b>>
                        \/ i = 6 /\ x = <<"clear", b>>
    BY <1>1
  <2>1. i = 1 \/ i = 2 \/ i = 3 \/ i = 4 \/ i = 5 \/ i = 6
    OBVIOUS
  <2> QED  BY <1>1, <2>1
<1>3. {1, 2, 3, 4, 5, 6} \subseteq 1 .. Len(st)
  BY <1>1
<1>4. \A x : Has(st, x) <=> x \in {<<"row", a>>, <<"build", a>>, <<"update", a>>,
        <<"withdraw", b>>, <<"find", b>>, <<"clear", b>>}
  BY <1>2, <1>3 DEF Has
<1>5. st # <<>>
  <2>1. Len(st) # Len(<<>>)
    BY <1>1
  <2> QED  BY <2>1, Zenon
<1>6. \A z \in ProfileIds :
         /\ Leads(st, <<"row", z>>, <<"update", z>>)
         /\ Leads(st, <<"build", z>>, <<"update", z>>)
         /\ Leads(st, <<"find", z>>, <<"clear", z>>)
  BY <1>2, <1>3, <1>1 DEF Leads
<1>7. \A z \in ProfileIds :
         /\ Precedes(st, <<"find", z>>, <<"clear", z>>)
         /\ \A s \in {"update", "record", "objects"} :
              Precedes(st, <<"clear", z>>, <<s, z>>)
  BY <1>2, <1>1 DEF Precedes
<1>8. \A z \in ProfileIds : Once(st, <<"find", z>>) /\ Once(st, <<"clear", z>>)
  BY <1>2, <1>1 DEF Once
<1>9. \A z \in ProfileIds :
         /\ \A s \in Steps : Has(st, <<s, z>>) => z \in j.ids
         /\ \A s \in Away \cup {"find", "clear"} : Has(st, <<s, z>>) => z \in j.ending
         /\ \A s \in Away, u \in Up : ~(Has(st, <<s, z>>) /\ Has(st, <<u, z>>))
         /\ \A q \in ProfileIds :
              Has(st, <<"clear", z>>) /\ Has(st, <<"clear", q>>) => z = q
  <2>1. \A z \in ProfileIds, s \in Steps : Has(st, <<s, z>>) => z \in j.ids
    BY <1>4
  <2>2. \A z \in ProfileIds, s \in {"withdraw", "remove", "find", "clear"} :
          Has(st, <<s, z>>) => z \in j.ending
    BY <1>4
  <2>3. \A z \in ProfileIds, s \in Away, u \in Up : ~(Has(st, <<s, z>>) /\ Has(st, <<u, z>>))
    BY <1>4 DEF Away, Up
  <2>4. \A z, q \in ProfileIds :
          Has(st, <<"clear", z>>) /\ Has(st, <<"clear", q>>) => z = q
    BY <1>4
  <2> QED  BY <2>1, <2>2, <2>3, <2>4 DEF Away
<1>10. j.ending \subseteq j.ids
  OBVIOUS
<1>11. j.stages = st
  BY DEF st
<1> QED  BY <1>1, <1>4, <1>5, <1>6, <1>7, <1>8, <1>9, <1>10, <1>11 DEF Planned

\* So have those of UnmergeProfiles: the records of a are cleared before its update.
LEMMA UnmergePlanned ==
    ASSUME NEW a \in ProfileIds, NEW b \in ProfileIds, a # b, NEW j,
           j.stages = <<Step("build", a), Step("build", b)>>
                        \o Clear(a) \o Update(a) \o Update(b),
           j.ids = {a, b}, j.ending = {a, b}
    PROVE  /\ Planned(j) /\ j.stages \in Stages /\ j.stages # <<>>
           /\ \A x : Has(j.stages, x)
                <=> x \in {<<"build", a>>, <<"build", b>>, <<"find", a>>, <<"clear", a>>,
                     <<"update", a>>, <<"update", b>>}
<1> DEFINE st == j.stages
<1>1. /\ st \in Stages /\ Len(st) = 6
      /\ st[1] = {<<"build", a>>}
      /\ st[2] = {<<"build", b>>}
      /\ st[3] = {<<"find", a>>}
      /\ st[4] = {<<"clear", a>>}
      /\ st[5] = {<<"update", a>>}
      /\ st[6] = {<<"update", b>>}
  <2>1. /\ st \in Stages /\ Len(st) = 6
        /\ st[1] = Step("build", a)
        /\ st[2] = Step("build", b)
        /\ st[3] = Step("find", a)
        /\ st[4] = Step("clear", a)
        /\ st[5] = Step("update", a)
        /\ st[6] = Step("update", b)
    <3> st = <<Step("build", a), Step("build", b)>>
                 \o Clear(a) \o Update(a) \o Update(b)
      OBVIOUS
    <3> HIDE DEF st
    <3> QED
      BY UnmergeStages
  <2> HIDE DEF st
  <2> QED  BY <2>1 DEF Step
<1> HIDE DEF st
<1>2. \A i \in 1 .. Len(st) : \A x : x \in st[i] <=>
        \/ i = 1 /\ x = <<"build", a>>
        \/ i = 2 /\ x = <<"build", b>>
        \/ i = 3 /\ x = <<"find", a>>
        \/ i = 4 /\ x = <<"clear", a>>
        \/ i = 5 /\ x = <<"update", a>>
        \/ i = 6 /\ x = <<"update", b>>
  <2> SUFFICES ASSUME NEW i \in 1 .. 6
               PROVE  \A x : x \in st[i] <=>
                        \/ i = 1 /\ x = <<"build", a>>
                        \/ i = 2 /\ x = <<"build", b>>
                        \/ i = 3 /\ x = <<"find", a>>
                        \/ i = 4 /\ x = <<"clear", a>>
                        \/ i = 5 /\ x = <<"update", a>>
                        \/ i = 6 /\ x = <<"update", b>>
    BY <1>1
  <2>1. i = 1 \/ i = 2 \/ i = 3 \/ i = 4 \/ i = 5 \/ i = 6
    OBVIOUS
  <2> QED  BY <1>1, <2>1
<1>3. {1, 2, 3, 4, 5, 6} \subseteq 1 .. Len(st)
  BY <1>1
<1>4. \A x : Has(st, x) <=> x \in {<<"build", a>>, <<"build", b>>, <<"find", a>>, <<"clear", a>>,
        <<"update", a>>, <<"update", b>>}
  BY <1>2, <1>3 DEF Has
<1>5. st # <<>>
  <2>1. Len(st) # Len(<<>>)
    BY <1>1
  <2> QED  BY <2>1, Zenon
<1>6. \A z \in ProfileIds :
         /\ Leads(st, <<"row", z>>, <<"update", z>>)
         /\ Leads(st, <<"build", z>>, <<"update", z>>)
         /\ Leads(st, <<"find", z>>, <<"clear", z>>)
  BY <1>2, <1>3, <1>1 DEF Leads
<1>7. \A z \in ProfileIds :
         /\ Precedes(st, <<"find", z>>, <<"clear", z>>)
         /\ \A s \in {"update", "record", "objects"} :
              Precedes(st, <<"clear", z>>, <<s, z>>)
  BY <1>2, <1>1 DEF Precedes
<1>8. \A z \in ProfileIds : Once(st, <<"find", z>>) /\ Once(st, <<"clear", z>>)
  BY <1>2, <1>1 DEF Once
<1>9. \A z \in ProfileIds :
         /\ \A s \in Steps : Has(st, <<s, z>>) => z \in j.ids
         /\ \A s \in Away \cup {"find", "clear"} : Has(st, <<s, z>>) => z \in j.ending
         /\ \A s \in Away, u \in Up : ~(Has(st, <<s, z>>) /\ Has(st, <<u, z>>))
         /\ \A q \in ProfileIds :
              Has(st, <<"clear", z>>) /\ Has(st, <<"clear", q>>) => z = q
  <2>1. \A z \in ProfileIds, s \in Steps : Has(st, <<s, z>>) => z \in j.ids
    BY <1>4
  <2>2. \A z \in ProfileIds, s \in {"withdraw", "remove", "find", "clear"} :
          Has(st, <<s, z>>) => z \in j.ending
    BY <1>4
  <2>3. \A z \in ProfileIds, s \in Away, u \in Up : ~(Has(st, <<s, z>>) /\ Has(st, <<u, z>>))
    BY <1>4 DEF Away, Up
  <2>4. \A z, q \in ProfileIds :
          Has(st, <<"clear", z>>) /\ Has(st, <<"clear", q>>) => z = q
    BY <1>4
  <2> QED  BY <2>1, <2>2, <2>3, <2>4 DEF Away
<1>10. j.ending \subseteq j.ids
  OBVIOUS
<1>11. j.stages = st
  BY DEF st
<1> QED  BY <1>1, <1>4, <1>5, <1>6, <1>7, <1>8, <1>9, <1>10, <1>11 DEF Planned

\* An idle worker has nothing to do.
LEMMA IdlePlanned ==
    /\ Planned(Idle) /\ Idle.stages = <<>> /\ Idle.ids = {} /\ Idle.ending = {}
    /\ \A x : ~Has(Idle.stages, x)
<1>1. Idle.stages = <<>> /\ Idle.ids = {} /\ Idle.ending = {} /\ Len(Idle.stages) = 0
  BY DEF Idle
<1>2. \A x : ~Has(Idle.stages, x)
  BY <1>1 DEF Has
<1>3. \A x, y : Leads(Idle.stages, x, y) /\ Precedes(Idle.stages, x, y) /\ Once(Idle.stages, x)
  BY <1>1 DEF Leads, Precedes, Once
<1> QED  BY <1>1, <1>2, <1>3 DEF Planned

\* Doing a step leaves what is planned: of the steps that join, the record and the message
\* come of an update, and the objects of a record.
LEMMA StepPlanned ==
    ASSUME NEW j, Planned(j), j.stages \in Stages, j.stages # <<>>,
           NEW s \in Steps, NEW p \in ProfileIds, <<s, p>> \in Head(j.stages),
           NEW more \in SUBSET (Steps \X ProfileIds),
           \/ more = {}
           \/ s = "update" /\ more = {<<"message", p>>, <<"record", p>>}
           \/ s = "record" /\ more = {<<"objects", p>>},
           NEW k, k.stages = Drop(j.stages, (Head(j.stages) \ {<<s, p>>}) \cup more),
           k.stages # <<>>, k.ids = j.ids, k.ending = j.ending
    PROVE  Planned(k)
<1> DEFINE st == j.stages
           new == k.stages
<1>1. /\ new \in Stages
      /\ \A y : Has(new, y) => y \in more \/ Has(st, y)
      /\ Has(st, <<s, p>>)
      /\ \A y, z : Leads(st, y, z) /\ y \notin more => Leads(new, y, z)
      /\ \A y, z : Precedes(st, y, z) /\ y \notin more
                   /\ (z \notin more \/ ~Has(st, y)) => Precedes(new, y, z)
      /\ \A y : Once(st, y) /\ y \notin more => Once(new, y)
  <2> DEFINE x == <<s, p>>
  <2>1. x \in Steps \X ProfileIds /\ x \in Head(st) /\ st \in Stages /\ st # <<>>
    OBVIOUS
  <2>2. new = Drop(st, (Head(st) \ {x}) \cup more)
    OBVIOUS
  <2> HIDE DEF x, st, new
  <2>3. Dropped(st, x, more, Drop(st, (Head(st) \ {x}) \cup more))
    BY <2>1, DropSteps
  <2>4. Dropped(st, x, more, new)
    BY <2>2, <2>3
  <2>5. Has(st, x)
    BY <2>4 DEF Dropped
  <2>6. /\ new \in Stages
        /\ \A y : Has(new, y) => y \in more \/ Has(st, y)
        /\ \A y, z : Leads(st, y, z) /\ y \notin more => Leads(new, y, z)
        /\ \A y, z : Precedes(st, y, z) /\ y \notin more
                     /\ (z \notin more \/ ~Has(st, y)) => Precedes(new, y, z)
        /\ \A y : Once(st, y) /\ y \notin more => Once(new, y)
    BY <2>4 DEF Dropped
  <2> QED  BY <2>5, <2>6, Zenon DEF x
<1>2. \A q \in ProfileIds : \A u \in {"row", "build", "find", "clear", "update", "withdraw",
        "remove"} :
         <<u, q>> \notin more
  OBVIOUS
<1>3. \A u, q : <<u, q>> \in more => u \in Up /\ q = p /\ s \in Up
  BY DEF Up
<1>4. ~Has(st, <<"clear", p>>) \/ more = {}
  <2> SUFFICES ASSUME Has(st, <<"clear", p>>), s \in {"update", "record"}  PROVE FALSE
    OBVIOUS
  <2>1. Precedes(st, <<"clear", p>>, <<s, p>>)
    BY DEF Planned
  <2>2. PICK i \in 1 .. Len(st) : <<"clear", p>> \in st[i]
    BY DEF Has
  <2>3. 1 \in 1 .. Len(st) /\ <<s, p>> \in st[1]
    BY EmptySeq, HeadTailProperties DEF Stages
  <2>4. i < 1
    BY <2>1, <2>2, <2>3 DEF Precedes
  <2> QED  BY <2>2, <2>4
<1> HIDE DEF new
<1>5. \A q \in ProfileIds :
        /\ \A u \in Steps : Has(new, <<u, q>>) => q \in k.ids
        /\ \A u \in Away \cup {"find", "clear"} : Has(new, <<u, q>>) => q \in k.ending
  BY <1>1, <1>2, <1>3 DEF Planned, Away
<1>6. \A q \in ProfileIds :
         /\ Leads(new, <<"row", q>>, <<"update", q>>)
         /\ Leads(new, <<"build", q>>, <<"update", q>>)
         /\ Leads(new, <<"find", q>>, <<"clear", q>>)
  BY <1>1, <1>2 DEF Planned
<1>7. \A q \in ProfileIds :
         /\ Precedes(new, <<"find", q>>, <<"clear", q>>)
         /\ \A u \in {"update", "record", "objects"} :
              Precedes(new, <<"clear", q>>, <<u, q>>)
         /\ Once(new, <<"find", q>>) /\ Once(new, <<"clear", q>>)
  BY <1>1, <1>2, <1>3, <1>4 DEF Planned
<1>8. \A q \in ProfileIds :
         /\ \A a \in Away, u \in Up : ~(Has(new, <<a, q>>) /\ Has(new, <<u, q>>))
         /\ \A r \in ProfileIds :
              Has(new, <<"clear", q>>) /\ Has(new, <<"clear", r>>) => q = r
  BY <1>1, <1>2, <1>3 DEF Planned, Away
<1>9. k.ending \subseteq k.ids
  BY DEF Planned
<1> QED  BY <1>5, <1>6, <1>7, <1>8, <1>9 DEF Planned, new
----------------------------------------------------------------------------
(* Types *)

\* A set of timestamps that is not empty has a latest one.
LEMMA LatestIs ==
    ASSUME NEW S \in SUBSET Times, S # {}
    PROVE  Latest(S) \in S /\ \A u \in S : u <= Latest(S)
<1>1. MaxTime \in Nat /\ S \subseteq Nat /\ \A u \in S : u <= MaxTime
  BY CacheBounds DEF Times
<1> DEFINE R == {ss \in Nat \X Nat : ss[1] < ss[2]}
           B == {n \in Nat : \A u \in S : u <= n}
<1>2. IsWellFoundedOn(R, Nat)
  BY NatLessThanWellFounded DEF OpToRel
<1>3. B \subseteq Nat /\ B # {}
  BY <1>1
<1>4. PICK x \in B : \A y \in B : <<y, x>> \notin R
  <2> HIDE DEF R, B
  <2> QED  BY <1>2, <1>3, WFMin
<1>5. x \in S
  <2> SUFFICES ASSUME x \notin S  PROVE FALSE
    OBVIOUS
  <2>1. PICK u \in S : TRUE
    OBVIOUS
  <2>2. \A v \in S : v \in Nat /\ v < x
    BY <1>1
  <2>3. x - 1 \in B /\ x - 1 < x /\ x \in Nat
    BY <1>1, <2>1, <2>2
  <2>4. <<x - 1, x>> \in R
    BY <2>3
  <2> QED  BY <1>4, <2>3, <2>4
<1>6. \E s \in S : \A u \in S : u <= s
  BY <1>5
<1> QED  BY <1>6 DEF Latest

\* The later of two timestamps.
LEMMA LatestOfTwo ==
    ASSUME NEW s \in Times, NEW t \in Times
    PROVE  Latest({s, t}) \in {s, t} /\ s <= Latest({s, t}) /\ t <= Latest({s, t})
  BY LatestIs

\* The latest timestamp of a set of objects.
LEMMA LatestStamp ==
    ASSUME stamp \in [Objects -> Times], NEW S \in SUBSET Objects
    PROVE  /\ Latest({0} \cup {stamp[o] : o \in S}) \in Times
           /\ \A o \in S : stamp[o] <= Latest({0} \cup {stamp[o2] : o2 \in S})
           /\ Latest({0} \cup {stamp[o] : o \in S}) \in {0} \cup {stamp[o] : o \in S}
<1> DEFINE T == {0} \cup {stamp[o] : o \in S}
<1>1. T \in SUBSET Times /\ T # {}
  BY CacheBounds DEF Times
<1>2. Latest(T) \in T /\ \A u \in T : u <= Latest(T)
  BY <1>1, LatestIs
<1>3. \A o \in S : stamp[o] \in T
  OBVIOUS
<1> HIDE DEF T
<1>4. Latest(T) \in Times /\ Latest(T) \in T /\ \A o \in S : stamp[o] <= Latest(T)
  BY <1>1, <1>2, <1>3
<1> QED  BY <1>4 DEF T

\* The parts of the types make the type invariant.
LEMMA TypesOK == AllTypes => TypeOK
  BY DEF AllTypes, WriterTypes, AuroraTypes, CacheTypes, WorkTypes, TypeOK

\* The bounds on the operations are numbers.
LEMMA LimitType == \A o \in Ops : Limit[o] \in Nat
<1>1. {MaxPuts, MaxMerges, MaxUnmerges, MaxErases, MaxRebuilds} \subseteq Nat
  BY CacheBounds
<1>2. /\ Limit["put"] = MaxPuts /\ Limit["merge"] = MaxMerges /\ Limit["unmerge"] = MaxUnmerges
      /\ Limit["erase"] = MaxErases /\ Limit["rebuild"] = MaxRebuilds
  BY Zenon DEF Limit, Ops
<1> QED  BY <1>1, <1>2 DEF Ops

\* What a busy worker is made of.
LEMMA BusyParts ==
    ASSUME WorkTypes, NEW w \in Workers, ~IsIdle(w)
    PROVE  /\ worker[w] \in Busy
           /\ worker[w].stages \in Stages /\ worker[w].stages # <<>>
           /\ worker[w].ids \subseteq ProfileIds /\ worker[w].ending \subseteq ProfileIds
           /\ worker[w].snap \in [ProfileIds -> Snaps]
<1>1. worker[w] \in Busy
  BY DEF WorkTypes, IsIdle, Idle
<1> QED  BY <1>1 DEF Busy, IsIdle, Stages

\* A worker that has just begun.
Begun(op, ids, ending, stages, snap) ==
    [op |-> op, ids |-> ids, ending |-> ending, stages |-> stages, snap |-> snap,
         found |-> Nothing]

\* An operation that starts keeps the types of the work.
LEMMA Begins ==
    ASSUME AllTypes, NEW w \in Workers, NEW op \in Ops, NEW ids \in SUBSET ProfileIds,
           NEW ending \in SUBSET ProfileIds, NEW stages \in Stages,
           NEW snap \in [ProfileIds -> Snaps], Starts(w, op, ids, ending, stages, snap)
    PROVE  /\ WriterTypes' /\ WorkTypes'
           /\ IsIdle(w)
           /\ worker' = [worker EXCEPT ![w] = Begun(op, ids, ending, stages, snap)]
           /\ Apart => \A v \in Workers \ {w} :
                  IsIdle(v) \/ (worker[v].ids \cap ending = {} /\ worker[v].ending \cap ids = {})
           /\ UNCHANGED <<writerVars, dynamoVars, failed>>
<1>1. /\ IsIdle(w) /\ worker' = [worker EXCEPT ![w] = Begun(op, ids, ending, stages, snap)]
      /\ UNCHANGED <<writerVars, dynamoVars, failed>>
      /\ done[op] < Limit[op] /\ done' = [done EXCEPT ![op] = @ + 1]
  BY DEF Starts, Begun
<1>2. WriterTypes'
  BY <1>1 DEF AllTypes, WriterTypes, writerVars
<1>3. Begun(op, ids, ending, stages, snap) \in Busy
  BY DEF Begun, Busy, Stages, Nothing
<1>4. worker' \in [Workers -> Busy \cup {Idle}]
  BY <1>1, <1>3 DEF AllTypes, WorkTypes
<1>5. done' \in [Ops -> Nat] /\ \A o \in Ops : done'[o] <= Limit[o]
  BY <1>1, LimitType DEF AllTypes, WorkTypes
<1> QED  BY <1>1, <1>2, <1>4, <1>5 DEF WorkTypes, Starts

\* A worker that has done a step.
Resumed(j, stages, snap, found) ==
    IF stages = <<>> THEN Idle
    ELSE [j EXCEPT !.stages = stages, !.snap = snap, !.found = found]

\* So does a worker that goes on.
LEMMA Resumes ==
    ASSUME AllTypes, NEW w \in Workers, ~IsIdle(w), NEW stages \in Stages,
           NEW snap \in [ProfileIds -> Snaps],
           NEW found \in [record : BOOLEAN, objs : SUBSET Objects],
           Resume(w, stages, snap, found), done' = done
    PROVE  /\ WorkTypes'
           /\ worker' = [worker EXCEPT ![w] = Resumed(worker[w], stages, snap, found)]
<1>1. worker' = [worker EXCEPT ![w] = Resumed(worker[w], stages, snap, found)]
  BY DEF Resume, Resumed, AllTypes, WorkTypes
<1>2. worker[w] \in Busy
  BY BusyParts DEF AllTypes
<1>3. Resumed(worker[w], stages, snap, found) \in Busy \cup {Idle}
  BY <1>2 DEF Resumed, Busy, Stages
<1>4. worker' \in [Workers -> Busy \cup {Idle}]
  BY <1>1, <1>3 DEF AllTypes, WorkTypes
<1> QED  BY <1>1, <1>4 DEF AllTypes, WorkTypes

\* The step that w does, and what is left of its stages.
LEMMA DoingFacts ==
    ASSUME AllTypes, NEW w \in Workers, NEW s \in Steps, NEW p \in ProfileIds, Doing(w, s, p),
           NEW more \in SUBSET (Steps \X ProfileIds)
    PROVE  /\ ~IsIdle(w) /\ worker[w] \in Busy
           /\ <<s, p>> \in Head(worker[w].stages)
           /\ worker[w].stages \in Stages /\ worker[w].stages # <<>>
           /\ After(w, s, p, more) =
                Drop(worker[w].stages, (Head(worker[w].stages) \ {<<s, p>>}) \cup more)
           /\ After(w, s, p, more) \in Stages
           /\ ToDo(w, s, p)
<1>1. ~IsIdle(w) /\ <<s, p>> \in Head(worker[w].stages)
  BY DEF Doing
<1>2. worker[w] \in Busy /\ worker[w].stages \in Stages /\ worker[w].stages # <<>>
  BY <1>1, BusyParts DEF AllTypes
<1>3. After(w, s, p, more) =
         Drop(worker[w].stages, (Head(worker[w].stages) \ {<<s, p>>}) \cup more)
  BY DEF After, Drop, Step
<1>4. <<s, p>> \in Steps \X ProfileIds
  OBVIOUS
<1>5. /\ Drop(worker[w].stages, (Head(worker[w].stages) \ {<<s, p>>}) \cup more) \in Stages
      /\ Has(worker[w].stages, <<s, p>>)
  <2> DEFINE st == worker[w].stages
             x  == <<s, p>>
  <2>1. st \in Stages /\ st # <<>> /\ x \in Head(st) /\ x \in Steps \X ProfileIds
    BY <1>1, <1>2, <1>4
  <2> HIDE DEF st, x
  <2>2. Dropped(st, x, more, Drop(st, (Head(st) \ {x}) \cup more))
    BY <2>1, DropSteps
  <2> QED  BY <2>2 DEF st, x, Dropped
<1> QED  BY <1>1, <1>2, <1>3, <1>5 DEF ToDo
----------------------------------------------------------------------------
(* What operations do to Aurora *)

\* Nothing of p changed; p lives and only grew.
Untouched(p) ==
    /\ Lives(p)' <=> Lives(p)
    /\ row'[p] = row[p]
    /\ ObjectsOf(p)' = ObjectsOf(p)
    /\ \A o \in ObjectsOf(p) : stamp'[o] = stamp[o]

Grown(p) == Lives(p)' /\ row[p] <= row'[p] /\ ObjectsOf(p) \subseteq ObjectsOf(p)'

\* An operation changes the profiles ids, and only those in ending end or shrink.
Changes(ids, ending) ==
    /\ AuroraTypes' /\ AuroraOK'
    /\ \A p \in ProfileIds \ ids : Untouched(p)
    /\ \A p \in ids \ ending : Grown(p)
    /\ \A p \in ProfileIds : Known(p) => Known(p)'
    /\ \A p \in ids : Known(p)'

\* Timestamps are numbers.
LEMMA TimesFacts == Times \subseteq Nat /\ 0 \in Times /\ Nobody \notin ProfileIds
  BY CacheBounds DEF Times

\* What the transaction of PutProfileObject changes in Aurora.
LEMMA PutChanges ==
    ASSUME AllTypes, AuroraOK, NEW w \in Workers, NEW p \in ProfileIds, NEW o \in Objects,
           NEW t \in 1 .. MaxTime, Put(w, p, o, t),
           NEW c, c = IF connect[p] = Nobody THEN p ELSE connect[p]
    PROVE  /\ c \in ProfileIds /\ Changes({c}, {})
           /\ ObjectsOf(c)' \subseteq ObjectsOf(c) \cup {o} /\ o \in ObjectsOf(c)'
           /\ ~Lives(c) => ~Known(c)
<1>1. /\ p \notin gone
      /\ owner[o] \in {Nobody, p}
      /\ connect' = [connect EXCEPT ![p] = c]
      /\ row'     = [row EXCEPT ![c] = Latest({row[c], t})]
      /\ stamp'   = [stamp EXCEPT ![o] = t]
      /\ owner'   = [owner EXCEPT ![o] = p]
      /\ gone' = gone
  BY DEF Put
<1>2. c \in ProfileIds /\ t \in Times
  BY CacheBounds DEF AllTypes, AuroraTypes, Times
<1>3. row[c] \in Times /\ Latest({row[c], t}) \in Times
      /\ row[c] <= Latest({row[c], t}) /\ t <= Latest({row[c], t})
  <2>1. row[c] \in Times
    BY <1>2 DEF AllTypes, AuroraTypes
  <2>2. /\ Latest({row[c], t}) \in {row[c], t}
        /\ row[c] <= Latest({row[c], t}) /\ t <= Latest({row[c], t})
    BY <1>2, <2>1, LatestOfTwo
  <2> QED  BY <1>2, <2>1, <2>2
<1>4. AuroraTypes'
  BY <1>1, <1>2, <1>3 DEF AllTypes, AuroraTypes
<1>5. connect \in [ProfileIds -> ProfileIds \cup {Nobody}] /\ Nobody \notin ProfileIds
  BY TimesFacts DEF AllTypes, AuroraTypes
<1>6. connect'[c] = c /\ (connect[p] = c \/ (connect[p] = Nobody /\ c = p))
  BY <1>1, <1>2, <1>5 DEF AuroraOK, Lives
<1>7. \A q \in ProfileIds : q # c => (Lives(q)' <=> Lives(q))
  BY <1>1, <1>5, <1>6 DEF Lives
<1>8. \A q \in ProfileIds : q # c => ObjectsOf(q)' = ObjectsOf(q) /\ o \notin ObjectsOf(q)
  <2> SUFFICES ASSUME NEW q \in ProfileIds, q # c, NEW x \in Objects
               PROVE  /\ (owner'[x] # Nobody /\ connect'[owner'[x]] = q)
                            <=> (owner[x] # Nobody /\ connect[owner[x]] = q)
                      /\ ~(owner[o] # Nobody /\ connect[owner[o]] = q)
    BY DEF ObjectsOf
  <2>1. owner \in [Objects -> ProfileIds \cup {Nobody}]
    BY DEF AllTypes, AuroraTypes
  <2>2. \A r \in ProfileIds : connect'[r] = q <=> connect[r] = q
    BY <1>1, <1>5, <1>6
  <2>3. connect'[p] # q /\ connect[p] # q
    BY <1>1, <1>5, <1>6
  <2>4. CASE x = o
    BY <1>1, <1>5, <2>1, <2>3, <2>4
  <2>5. CASE x # o
    BY <1>1, <1>5, <2>1, <2>2, <2>3, <2>5
  <2> QED  BY <2>4, <2>5
<1>9. ObjectsOf(c) \subseteq ObjectsOf(c)' /\ ObjectsOf(c)' \subseteq ObjectsOf(c) \cup {o}
      /\ o \in ObjectsOf(c)'
  <2>1. owner \in [Objects -> ProfileIds \cup {Nobody}]
    BY DEF AllTypes, AuroraTypes
  <2>2. \A x \in Objects : owner'[x] = IF x = o THEN p ELSE owner[x]
    BY <1>1, <2>1
  <2>3. \A r \in ProfileIds : connect'[r] = IF r = p THEN c ELSE connect[r]
    BY <1>1, <1>5
  <2>4. o \in ObjectsOf(c)'
    BY <1>5, <2>2, <2>3 DEF ObjectsOf
  <2>5. \A x \in Objects : x # o => (x \in ObjectsOf(c) => x \in ObjectsOf(c)')
    BY <1>5, <1>6, <2>1, <2>2, <2>3 DEF ObjectsOf
  <2>6. \A x \in Objects : x # o /\ x \in ObjectsOf(c)' => x \in ObjectsOf(c)
    <3> SUFFICES ASSUME NEW x \in Objects, x # o, owner[x] # Nobody, connect'[owner[x]] = c
                 PROVE  connect[owner[x]] = c
      BY <2>2 DEF ObjectsOf
    <3>1. CASE connect[p] = c
      BY <2>1, <2>3, <3>1
    <3>2. CASE connect[p] = Nobody /\ owner[x] # p
      BY <2>1, <2>3, <3>2
    <3>3. ~(connect[p] = Nobody /\ owner[x] = p)
      BY DEF AuroraOK
    <3> QED  BY <1>6, <3>1, <3>2, <3>3
  <2> QED  BY <2>4, <2>5, <2>6 DEF ObjectsOf
<1>10. \A q \in ProfileIds \ {c} : Untouched(q)
  <2> SUFFICES ASSUME NEW q \in ProfileIds, q # c  PROVE Untouched(q)
    OBVIOUS
  <2>1. row'[q] = row[q]
    BY <1>1, <1>2 DEF AllTypes, AuroraTypes
  <2>2. \A x \in ObjectsOf(q) : stamp'[x] = stamp[x]
    BY <1>1, <1>8 DEF AllTypes, AuroraTypes, ObjectsOf
  <2> QED  BY <1>7, <1>8, <2>1, <2>2 DEF Untouched
<1>11. row'[c] = Latest({row[c], t}) /\ Grown(c)
  BY <1>1, <1>2, <1>3, <1>6, <1>9 DEF Grown, AllTypes, AuroraTypes, Lives
<1>12. \A q \in ProfileIds : (Known(q) => Known(q)') /\ Known(c)'
  BY <1>1, <1>2, <1>5, <1>6 DEF Known
<1>13. ~Lives(c) => ~Known(c)
  BY <1>1, <1>5, <1>6 DEF Known, AuroraOK, Lives
<1>14. AuroraOK'
  <2>1. ASSUME NEW x \in Objects, owner'[x] # Nobody  PROVE connect'[owner'[x]] # Nobody
    <3>1. CASE x = o
      BY <1>1, <1>2, <1>5, <2>1, <3>1 DEF AllTypes, AuroraTypes
    <3>2. CASE x # o
      BY <1>1, <1>2, <1>5, <2>1, <3>2 DEF AllTypes, AuroraTypes, AuroraOK
    <3> QED  BY <3>1, <3>2
  <2>2. \A q \in ProfileIds : connect'[q] # Nobody => connect'[connect'[q]] = connect'[q]
    BY <1>1, <1>2, <1>5, <1>6 DEF AuroraOK
  <2>3. \A q \in ProfileIds : ~Lives(q)' => row'[q] = 0
    BY <1>10, <1>11 DEF Untouched, Grown, AuroraOK
  <2>4. \A q \in ProfileIds : q \in gone' => connect'[q] = Nobody
    BY <1>1, <1>5, <1>6 DEF AuroraOK
  <2>5. \A q \in ProfileIds : \A x \in ObjectsOf(q)' : stamp'[x] <= row'[q]
    <3> SUFFICES ASSUME NEW q \in ProfileIds, NEW x \in ObjectsOf(q)'
                 PROVE  stamp'[x] <= row'[q]
      OBVIOUS
    <3>1. CASE q # c
      BY <1>10, <3>1 DEF Untouched, AuroraOK
    <3>2. CASE q = c /\ x = o
      BY <1>1, <1>3, <1>11, <3>2 DEF AllTypes, AuroraTypes
    <3>3. CASE q = c /\ x # o
      <4>1. x \in ObjectsOf(c) /\ x \in Objects /\ stamp'[x] = stamp[x]
        BY <1>1, <1>9, <3>3 DEF ObjectsOf, AllTypes, AuroraTypes
      <4>2. stamp[x] <= row[c] /\ stamp[x] \in Nat /\ row[c] \in Nat
              /\ Latest({row[c], t}) \in Nat
        BY <1>2, <1>3, <4>1, TimesFacts DEF AuroraOK, AllTypes, AuroraTypes
      <4> QED  BY <1>3, <1>11, <3>3, <4>1, <4>2
    <3> QED  BY <3>1, <3>2, <3>3
  <2> QED  BY <2>1, <2>2, <2>3, <2>4, <2>5 DEF AuroraOK
<1> QED  BY <1>2, <1>4, <1>9, <1>10, <1>11, <1>12, <1>13, <1>14 DEF Changes, AllTypes

\* What that of MergeProfiles changes.
LEMMA MergeChanges ==
    ASSUME AllTypes, AuroraOK, NEW w \in Workers, NEW a \in ProfileIds, NEW b \in ProfileIds,
           Merge(w, a, b)
    PROVE  Changes({a, b}, {b}) /\ Lives(a) /\ Lives(b) /\ a # b /\ ~Lives(b)'
<1>1. /\ Lives(a) /\ Lives(b) /\ a # b
      /\ connect' = [p \in ProfileIds |-> IF connect[p] = b THEN a ELSE connect[p]]
      /\ row'     = [row EXCEPT ![a] = Latest({row[a], row[b]}), ![b] = 0]
      /\ stamp' = stamp /\ owner' = owner /\ gone' = gone
  BY DEF Merge
<1>2. /\ row[a] \in Times /\ row[b] \in Times /\ Latest({row[a], row[b]}) \in Times
      /\ row[a] <= Latest({row[a], row[b]}) /\ row[b] <= Latest({row[a], row[b]})
      /\ 0 \in Times /\ Times \subseteq Nat
  <2>1. row[a] \in Times /\ row[b] \in Times
    BY DEF AllTypes, AuroraTypes
  <2>2. /\ Latest({row[a], row[b]}) \in {row[a], row[b]}
        /\ row[a] <= Latest({row[a], row[b]}) /\ row[b] <= Latest({row[a], row[b]})
    BY <2>1, LatestOfTwo
  <2> QED  BY <2>1, <2>2, TimesFacts
<1>3. /\ connect \in [ProfileIds -> ProfileIds \cup {Nobody}] /\ Nobody \notin ProfileIds
      /\ row \in [ProfileIds -> Times] /\ owner \in [Objects -> ProfileIds \cup {Nobody}]
      /\ connect[a] = a /\ connect[b] = b
  BY <1>1, TimesFacts DEF AllTypes, AuroraTypes, Lives
<1>4. AuroraTypes'
  BY <1>1, <1>2, <1>3 DEF AllTypes, AuroraTypes
<1>5. \A p \in ProfileIds : connect'[p] = IF connect[p] = b THEN a ELSE connect[p]
  BY <1>1
<1>6. /\ \A p \in ProfileIds \ {a, b} : row'[p] = row[p]
      /\ row'[a] = Latest({row[a], row[b]}) /\ row'[b] = 0
  BY <1>1, <1>3
<1>7. /\ \A p \in ProfileIds \ {b} : Lives(p)' <=> Lives(p)
      /\ Lives(a)' /\ ~Lives(b)'
  BY <1>1, <1>3, <1>5 DEF Lives
<1>8. /\ \A p \in ProfileIds \ {a, b} : ObjectsOf(p)' = ObjectsOf(p)
      /\ ObjectsOf(a)' = ObjectsOf(a) \cup ObjectsOf(b) /\ ObjectsOf(b)' = {}
  BY <1>1, <1>3, <1>5 DEF ObjectsOf
<1>9. \A p \in ProfileIds \ {a, b} : Untouched(p)
  BY <1>1, <1>6, <1>7, <1>8 DEF Untouched
<1>10. Grown(a)
  BY <1>2, <1>6, <1>7, <1>8 DEF Grown
<1>11. /\ \A p \in ProfileIds : Known(p) => Known(p)'
       /\ Known(a)' /\ Known(b)'
  BY <1>1, <1>3, <1>5 DEF Known
<1>12. AuroraOK'
  <2>1. \A x \in Objects : owner'[x] # Nobody => connect'[owner'[x]] # Nobody
    BY <1>1, <1>3, <1>5 DEF AuroraOK
  <2>2. \A q \in ProfileIds : connect'[q] # Nobody => connect'[connect'[q]] = connect'[q]
    BY <1>1, <1>3, <1>5 DEF AuroraOK
  <2>3. \A q \in ProfileIds : ~Lives(q)' => row'[q] = 0
    BY <1>6, <1>7 DEF AuroraOK
  <2>4. \A q \in ProfileIds : q \in gone' => connect'[q] = Nobody
    BY <1>1, <1>3, <1>5 DEF AuroraOK
  <2>5. \A q \in ProfileIds : \A x \in ObjectsOf(q)' : stamp'[x] <= row'[q]
    <3> SUFFICES ASSUME NEW q \in ProfileIds, NEW x \in ObjectsOf(q)'
                 PROVE  stamp'[x] <= row'[q]
      OBVIOUS
    <3>1. CASE q \notin {a, b}
      BY <1>1, <1>6, <1>8, <3>1 DEF AuroraOK
    <3>2. CASE q = a
      <4>1. x \in ObjectsOf(a) \/ x \in ObjectsOf(b)
        BY <1>8, <3>2
      <4>2. (stamp[x] <= row[a] \/ stamp[x] <= row[b]) /\ x \in Objects
        BY <4>1 DEF AuroraOK, ObjectsOf
      <4>3. stamp[x] \in Nat
        BY <1>2, <4>2 DEF AllTypes, AuroraTypes
      <4>4. {row[a], row[b], Latest({row[a], row[b]})} \subseteq Nat
        BY <1>2
      <4>5. stamp[x] <= Latest({row[a], row[b]})
        BY <1>2, <4>2, <4>3, <4>4
      <4> QED  BY <1>1, <1>6, <3>2, <4>5
    <3>3. q # b
      BY <1>8
    <3> QED  BY <3>1, <3>2, <3>3
  <2> QED  BY <2>1, <2>2, <2>3, <2>4, <2>5 DEF AuroraOK
<1> QED  BY <1>1, <1>4, <1>7, <1>9, <1>10, <1>11, <1>12 DEF Changes

\* What that of UnmergeProfiles changes; both rows are made from the objects.
LEMMA UnmergeChanges ==
    ASSUME AllTypes, AuroraOK, NEW w \in Workers, NEW a \in ProfileIds, NEW b \in ProfileIds,
           Unmerge(w, a, b)
    PROVE  /\ Changes({a, b}, {a, b}) /\ Lives(a) /\ ~Lives(b) /\ a # b
           /\ \A p \in {a, b} : Lives(p)' /\ row'[p] = Newest(p)'
<1>1. /\ connect[b] = a /\ a # b /\ \A p \in ProfileIds : connect[p] # b
      /\ connect' = [connect EXCEPT ![b] = b]
      /\ row'     = [row EXCEPT ![a] = Recomputed(b, a), ![b] = Recomputed(b, b)]
      /\ stamp' = stamp /\ owner' = owner /\ gone' = gone
  BY DEF Unmerge
<1>2. /\ connect \in [ProfileIds -> ProfileIds \cup {Nobody}] /\ Nobody \notin ProfileIds
      /\ row \in [ProfileIds -> Times] /\ owner \in [Objects -> ProfileIds \cup {Nobody}]
      /\ stamp \in [Objects -> Times]
  BY TimesFacts DEF AllTypes, AuroraTypes
<1>3. \A p \in ProfileIds : connect'[p] = IF p = b THEN b ELSE connect[p]
  BY <1>1, <1>2
<1>4. /\ \A p \in ProfileIds \ {b} : Lives(p)' <=> Lives(p)
      /\ Lives(a) /\ Lives(a)' /\ Lives(b)' /\ ~Lives(b)
  <2>1. connect[a] = a
    BY <1>1, <1>2 DEF AuroraOK
  <2> QED  BY <1>1, <1>3, <2>1 DEF Lives
<1>5. \A p \in ProfileIds :
         ObjectsOf(p)' = {x \in Objects : owner[x] # Nobody /\
                             (IF owner[x] = b THEN b ELSE connect[owner[x]]) = p}
  BY <1>1, <1>2, <1>3 DEF ObjectsOf
<1>6. \A p \in ProfileIds : Recomputed(b, p) = Newest(p)' /\ Recomputed(b, p) \in Times
  <2> SUFFICES ASSUME NEW p \in ProfileIds
               PROVE  Recomputed(b, p) = Newest(p)' /\ Recomputed(b, p) \in Times
    OBVIOUS
  <2> DEFINE S == ObjectsOf(p)'
  <2>1. S \in SUBSET Objects
    BY <1>5
  <2>2. Recomputed(b, p) = Latest({0} \cup {stamp[x] : x \in S})
    BY <1>5, Zenon DEF Recomputed
  <2>3. Newest(p)' = Latest({0} \cup {stamp[x] : x \in S})
    BY <1>1 DEF Newest, Latest
  <2> HIDE DEF S
  <2> QED  BY <1>2, <2>1, <2>2, <2>3, LatestStamp
<1>7. AuroraTypes'
  BY <1>1, <1>2, <1>6 DEF AllTypes, AuroraTypes
<1>8. /\ \A p \in ProfileIds \ {a, b} : row'[p] = row[p]
      /\ row'[a] = Recomputed(b, a) /\ row'[b] = Recomputed(b, b)
  BY <1>1, <1>2
<1>9. \A p \in ProfileIds \ {a, b} : ObjectsOf(p)' = ObjectsOf(p)
  BY <1>1, <1>2, <1>3 DEF ObjectsOf
<1>10. \A p \in ProfileIds \ {a, b} : Untouched(p)
  BY <1>1, <1>4, <1>8, <1>9 DEF Untouched
<1>11. /\ \A p \in ProfileIds : Known(p) => Known(p)'
       /\ Known(a)' /\ Known(b)'
  BY <1>1, <1>2, <1>3, <1>4 DEF Known, Lives
<1>12. \A p \in {a, b} : Lives(p)' /\ row'[p] = Newest(p)'
  BY <1>4, <1>6, <1>8
<1>13. AuroraOK'
  <2>1. \A x \in Objects : owner'[x] # Nobody => connect'[owner'[x]] # Nobody
    BY <1>1, <1>2, <1>3 DEF AuroraOK
  <2>2. \A q \in ProfileIds : connect'[q] # Nobody => connect'[connect'[q]] = connect'[q]
    BY <1>1, <1>2, <1>3 DEF AuroraOK
  <2>3. \A q \in ProfileIds : ~Lives(q)' => row'[q] = 0
    BY <1>4, <1>8 DEF AuroraOK
  <2>4. \A q \in ProfileIds : q \in gone' => connect'[q] = Nobody
    BY <1>1, <1>2, <1>3 DEF AuroraOK
  <2>5. \A q \in ProfileIds : \A x \in ObjectsOf(q)' : stamp'[x] <= row'[q]
    <3> SUFFICES ASSUME NEW q \in ProfileIds, NEW x \in ObjectsOf(q)'
                 PROVE  stamp'[x] <= row'[q]
      OBVIOUS
    <3>1. CASE q \notin {a, b}
      <4>1. stamp'[x] = stamp[x] /\ x \in ObjectsOf(q) /\ row'[q] = row[q]
        BY <1>1, <1>8, <1>9, <3>1
      <4> QED  BY <4>1 DEF AuroraOK
    <3>2. CASE q \in {a, b}
      <4> DEFINE S == ObjectsOf(q)'
      <4>1. S \in SUBSET Objects /\ x \in S
        BY <1>5
      <4>2. row'[q] = Latest({0} \cup {stamp[y] : y \in S})
        <5>1. row'[q] = Newest(q)'
          BY <1>12, <3>2
        <5>2. Newest(q)' = Latest({0} \cup {stamp[y] : y \in S})
          BY <1>1 DEF Newest, Latest
        <5> QED  BY <5>1, <5>2
      <4> HIDE DEF S
      <4>3. stamp[x] <= Latest({0} \cup {stamp[y] : y \in S})
        BY <1>2, <4>1, LatestStamp
      <4> QED  BY <1>1, <4>2, <4>3
    <3> QED  BY <3>1, <3>2
  <2> QED  BY <2>1, <2>2, <2>3, <2>4, <2>5 DEF AuroraOK
<1> QED  BY <1>1, <1>4, <1>7, <1>10, <1>11, <1>12, <1>13 DEF Changes

\* What that of DeleteProfile changes.
LEMMA EraseChanges ==
    ASSUME AllTypes, AuroraOK, NEW w \in Workers, NEW p \in ProfileIds, Erase(w, p),
           NEW c, c = connect[p]
    PROVE  c \in ProfileIds /\ Changes({c}, {c}) /\ Lives(c) /\ ~Lives(c)'
<1>1. /\ c # Nobody
      /\ connect' = [q \in ProfileIds |-> IF connect[q] = c THEN Nobody ELSE connect[q]]
      /\ gone'    = gone \cup {q \in ProfileIds : connect[q] = c}
      /\ row'     = [row EXCEPT ![c] = 0]
      /\ stamp'   = [o \in Objects |-> IF o \in ObjectsOf(c) THEN 0 ELSE stamp[o]]
      /\ owner'   = [o \in Objects |-> IF o \in ObjectsOf(c) THEN Nobody ELSE owner[o]]
  BY DEF Erase
<1>2. /\ connect \in [ProfileIds -> ProfileIds \cup {Nobody}] /\ Nobody \notin ProfileIds
      /\ row \in [ProfileIds -> Times] /\ owner \in [Objects -> ProfileIds \cup {Nobody}]
      /\ stamp \in [Objects -> Times] /\ gone \subseteq ProfileIds /\ 0 \in Times
  BY TimesFacts DEF AllTypes, AuroraTypes
<1>3. c \in ProfileIds /\ connect[c] = c
  BY <1>1, <1>2 DEF AuroraOK
<1>4. AuroraTypes'
  BY <1>1, <1>2, <1>3 DEF AuroraTypes
<1>5. \A q \in ProfileIds : connect'[q] = IF connect[q] = c THEN Nobody ELSE connect[q]
  BY <1>1
<1>6. \A x \in Objects :
         /\ owner'[x] = IF x \in ObjectsOf(c) THEN Nobody ELSE owner[x]
         /\ stamp'[x] = IF x \in ObjectsOf(c) THEN 0 ELSE stamp[x]
  BY <1>1
<1>7. (\A q \in ProfileIds \ {c} : row'[q] = row[q]) /\ row'[c] = 0
  BY <1>1, <1>2, <1>3
<1>8. (\A q \in ProfileIds \ {c} : Lives(q)' <=> Lives(q)) /\ Lives(c) /\ ~Lives(c)'
  BY <1>1, <1>2, <1>3, <1>5 DEF Lives
<1>9. (\A q \in ProfileIds \ {c} : ObjectsOf(q)' = ObjectsOf(q)) /\ ObjectsOf(c)' = {}
  BY <1>1, <1>2, <1>3, <1>5, <1>6 DEF ObjectsOf
<1>10. \A q \in ProfileIds \ {c} : \A x \in ObjectsOf(q) : x \in Objects /\ x \notin ObjectsOf(c)
  BY <1>1, <1>3 DEF ObjectsOf
<1>11. \A q \in ProfileIds \ {c} : Untouched(q)
  BY <1>6, <1>7, <1>8, <1>9, <1>10 DEF Untouched
<1>12. /\ \A q \in ProfileIds : Known(q) => Known(q)'
       /\ Known(c)'
  BY <1>1, <1>2, <1>3, <1>5 DEF Known
<1>13. AuroraOK'
  <2>1. ASSUME NEW x \in Objects, owner'[x] # Nobody  PROVE connect'[owner'[x]] # Nobody
    <3>1. x \notin ObjectsOf(c) /\ owner'[x] = owner[x]
      BY <1>6, <2>1
    <3>2. connect[owner[x]] # c /\ connect[owner[x]] # Nobody /\ owner[x] \in ProfileIds
      BY <1>2, <2>1, <3>1 DEF ObjectsOf, AuroraOK
    <3> QED  BY <1>5, <3>1, <3>2
  <2>2. \A q \in ProfileIds : connect'[q] # Nobody => connect'[connect'[q]] = connect'[q]
    BY <1>1, <1>2, <1>5 DEF AuroraOK
  <2>3. \A q \in ProfileIds : ~Lives(q)' => row'[q] = 0
    BY <1>7, <1>8 DEF AuroraOK
  <2>4. \A q \in ProfileIds : q \in gone' => connect'[q] = Nobody
    BY <1>1, <1>2, <1>5 DEF AuroraOK
  <2>5. \A q \in ProfileIds : \A x \in ObjectsOf(q)' : stamp'[x] <= row'[q]
    BY <1>9, <1>11 DEF AuroraOK, Untouched
  <2> QED  BY <2>1, <2>2, <2>3, <2>4, <2>5 DEF AuroraOK
<1> QED  BY <1>3, <1>4, <1>8, <1>11, <1>12, <1>13 DEF Changes

\* CacheProfile changes nothing in Aurora.
LEMMA RebuildChanges ==
    ASSUME AllTypes, AuroraOK, NEW w \in Workers, NEW p \in ProfileIds, Rebuild(w, p)
    PROVE  Changes({p}, {}) /\ Lives(p) /\ UNCHANGED auroraVars
<1>1. Lives(p) /\ UNCHANGED auroraVars
  BY DEF Rebuild
<1>2. /\ \A q \in ProfileIds : (Lives(q)' <=> Lives(q)) /\ ObjectsOf(q)' = ObjectsOf(q)
      /\ \A q \in ProfileIds : Known(q)' <=> Known(q)
      /\ row' = row /\ stamp' = stamp
  BY <1>1 DEF auroraVars, Lives, ObjectsOf, Known
<1>3. \A q \in ProfileIds : Untouched(q)
  BY <1>2 DEF Untouched
<1>4. AuroraTypes' /\ AuroraOK'
  BY <1>1 DEF AllTypes, AuroraTypes, AuroraOK, auroraVars, Lives, ObjectsOf
<1>5. Grown(p) /\ Known(p)'
  <2>1. row[p] \in Nat
    BY TimesFacts DEF AllTypes, AuroraTypes
  <2>2. Known(p)
    BY <1>1, TimesFacts DEF Lives, Known
  <2> QED  BY <1>1, <1>2, <2>1, <2>2 DEF Grown
<1> QED  BY <1>1, <1>2, <1>3, <1>4, <1>5 DEF Changes

\* No object is newer than the search row of its profile.
LEMMA NewestBound ==
    ASSUME AllTypes, AuroraOK, NEW p \in ProfileIds
    PROVE  Newest(p) <= row[p] /\ Newest(p) \in Times
<1>1. /\ ObjectsOf(p) \in SUBSET Objects /\ stamp \in [Objects -> Times]
      /\ row[p] \in Nat
  BY TimesFacts DEF AllTypes, AuroraTypes, ObjectsOf
<1>2. Newest(p) \in Times /\ Newest(p) \in {0} \cup {stamp[o] : o \in ObjectsOf(p)}
  BY <1>1, LatestStamp DEF Newest
<1>3. \A o \in ObjectsOf(p) : stamp[o] <= row[p]
  BY DEF AuroraOK
<1> QED  BY <1>1, <1>2, <1>3
----------------------------------------------------------------------------
(* How an operation starts *)

\* The operation j starts on the worker w.
StartsWork(w, j) ==
    /\ AllTypes' /\ IsIdle(w) /\ worker' = [worker EXCEPT ![w] = j]
    /\ j \in Busy /\ Planned(j) /\ j.stages # <<>> /\ Changes(j.ids, j.ending)
    /\ UNCHANGED <<writerVars, dynamoVars, failed>>
    /\ awaited' \subseteq awaited /\ \A q \in awaited \ j.ids : q \in awaited'
    /\ Apart => \A v \in Workers \ {w} :
           IsIdle(v) \/ (worker[v].ids \cap j.ending = {} /\ worker[v].ending \cap j.ids = {})

\* What it will do fits what became of its profiles.
FitsWork(j) == \A p \in j.ids :
    /\ j.snap[p].at = 0 /\ j.snap[p].objs \subseteq ObjectsOf(p)'
    /\ Has(j.stages, <<"clear", p>>) => Has(j.stages, <<"find", p>>)
    /\ \A s \in Up : Has(j.stages, <<s, p>>) => Lives(p)'
    /\ \A s \in Away : Has(j.stages, <<s, p>>) => ~Lives(p)'
    /\ p \in j.ending => Has(j.stages, <<"clear", p>>) \/ ~Lives(p)
    /\ Lives(p)' =>
         /\ Has(j.stages, <<"update", p>>)
         /\ ~Lives(p) => ~Known(p) \/ (Prompt => ~Queued(p))
         /\ Has(j.stages, <<"row", p>>)
              \/ (Has(j.stages, <<"build", p>>) /\ row'[p] = Newest(p)')
         /\ Has(j.stages, <<"build", p>>)
              \/ /\ \A o \in ObjectsOf(p)' \ ObjectsOf(p) : o \in j.snap[p].objs
                 /\ p \in awaited => p \in awaited'
                 /\ ~Has(j.stages, <<"clear", p>>)
    /\ ~Lives(p)' => Has(j.stages, <<"withdraw", p>>)
                     \/ (Has(j.stages, <<"remove", p>>) /\ (Prompt => ~Queued(p)))

\* The parts of the work of an operation that has just started.
LEMMA BegunParts ==
    ASSUME NEW op, NEW ids, NEW ending, NEW stages, NEW snap
    PROVE  LET j == Begun(op, ids, ending, stages, snap)
           IN  /\ j.op = op /\ j.ids = ids /\ j.ending = ending /\ j.stages = stages
               /\ j.snap = snap /\ j.found = Nothing
               /\ op \in Ops /\ ids \in SUBSET ProfileIds /\ ending \in SUBSET ProfileIds
                  /\ stages \in Stages /\ snap \in [ProfileIds -> Snaps] => j \in Busy
  BY DEF Begun, Busy, Nothing, Stages

\* At its start nothing is read yet.
LEMMA NoSnapFacts ==
    /\ NoSnap \in [ProfileIds -> Snaps]
    /\ \A p \in ProfileIds : NoSnap[p].at = 0 /\ NoSnap[p].objs = {}
  BY TimesFacts DEF NoSnap, Idle, Blank, Snaps

\* From the parts of an operation.
LEMMA StartsFrom ==
    ASSUME AllTypes, NEW w \in Workers, NEW op \in Ops, NEW ids \in SUBSET ProfileIds,
           NEW ending \in SUBSET ProfileIds, NEW stages \in Stages, stages # <<>>,
           NEW snap \in [ProfileIds -> Snaps], Starts(w, op, ids, ending, stages, snap),
           NEW j, j = Begun(op, ids, ending, stages, snap), Planned(j),
           Changes(ids, ending), awaited' \subseteq awaited,
           \A q \in awaited \ ids : q \in awaited'
    PROVE  StartsWork(w, j)
<1>1. /\ WriterTypes' /\ WorkTypes' /\ IsIdle(w)
      /\ worker' = [worker EXCEPT ![w] = j]
      /\ Apart => \A v \in Workers \ {w} :
             IsIdle(v) \/ (worker[v].ids \cap ending = {} /\ worker[v].ending \cap ids = {})
      /\ UNCHANGED <<writerVars, dynamoVars, failed>>
  <2>1. WriterTypes' /\ WorkTypes'
    BY Begins
  <2>2. /\ IsIdle(w) /\ worker' = [worker EXCEPT ![w] = j]
        /\ UNCHANGED <<writerVars, dynamoVars, failed>>
    BY DEF Starts, Begun
  <2>3. Apart => \A v \in Workers \ {w} :
             IsIdle(v) \/ (worker[v].ids \cap ending = {} /\ worker[v].ending \cap ids = {})
    BY Zenon DEF Starts
  <2> QED  BY <2>1, <2>2, <2>3
<1>2. j \in Busy /\ j.ids = ids /\ j.ending = ending /\ j.stages = stages
  BY BegunParts
<1>3. CacheTypes'
  BY <1>1 DEF AllTypes, CacheTypes, dynamoVars
<1>4. AllTypes'
  BY <1>1, <1>3 DEF AllTypes, Changes
<1> QED  BY <1>1, <1>2, <1>4 DEF StartsWork

\* PutProfileObject starts work that fits what it changed.
LEMMA PutStarts ==
    ASSUME AllTypes, AuroraOK, NEW w \in Workers, NEW p \in ProfileIds, NEW o \in Objects,
           NEW t \in 1 .. MaxTime, Put(w, p, o, t)
    PROVE  \E j : StartsWork(w, j) /\ FitsWork(j)
<1>1. PICK c : c = IF connect[p] = Nobody THEN p ELSE connect[p]
  OBVIOUS
<1>2. /\ c \in ProfileIds /\ Changes({c}, {})
      /\ ObjectsOf(c)' \subseteq ObjectsOf(c) \cup {o} /\ o \in ObjectsOf(c)'
      /\ ~Lives(c) => ~Known(c)
  BY <1>1, PutChanges
<1> DEFINE stages == <<Step("row", c)>> \o Update(c)
           snap   == [NoSnap EXCEPT ![c] = [at |-> 0, objs |-> {o}]]
           j      == Begun("put", {c}, {}, stages, snap)
<1>3. Starts(w, "put", {c}, {}, stages, snap) /\ awaited' = awaited
  BY <1>1 DEF Put
<1>4. stages \in Stages
  BY <1>2, PutStages, Zenon
<1>5. snap \in [ProfileIds -> Snaps] /\ snap[c].at = 0 /\ snap[c].objs = {o}
  <2>1. NoSnap \in [ProfileIds -> Snaps]
    BY NoSnapFacts
  <2>2. [at |-> 0, objs |-> {o}] \in Snaps
    BY TimesFacts DEF Snaps
  <2> HIDE DEF NoSnap
  <2> QED  BY <1>2, <2>1, <2>2
<1> HIDE DEF snap, stages
<1>6. /\ j.stages = stages /\ j.ids = {c} /\ j.ending = {} /\ j.snap = snap
  BY DEF Begun
<1> HIDE DEF j
<1>7. /\ Planned(j) /\ stages # <<>>
      /\ \A x : Has(j.stages, x) <=> x \in {<<"row", c>>, <<"update", c>>}
  BY <1>2, <1>6, PutPlanned DEF stages
<1>8. StartsWork(w, j)
  <2>1. j = Begun("put", {c}, {}, stages, snap) /\ "put" \in Ops
    BY DEF j, Ops
  <2>2. awaited' \subseteq awaited /\ \A q \in awaited \ {c} : q \in awaited'
    BY <1>3
  <2> QED  BY <1>2, <1>3, <1>4, <1>5, <1>7, <2>1, <2>2, StartsFrom
<1>9. Grown(c)
  BY <1>2 DEF Changes
<1>10. /\ j.snap[c].at = 0 /\ j.snap[c].objs = {o} /\ Has(j.stages, <<"update", c>>)
       /\ Has(j.stages, <<"row", c>>) /\ ~Has(j.stages, <<"clear", c>>)
       /\ \A s \in Away : ~Has(j.stages, <<s, c>>)
  BY <1>5, <1>6, <1>7 DEF Away
<1>11. FitsWork(j)
  BY <1>2, <1>3, <1>6, <1>9, <1>10 DEF FitsWork, Grown
<1> QED  BY <1>8, <1>11

\* So does CacheProfile.
LEMMA RebuildStarts ==
    ASSUME AllTypes, AuroraOK, NEW w \in Workers, NEW p \in ProfileIds, Rebuild(w, p)
    PROVE  \E j : StartsWork(w, j) /\ FitsWork(j)
<1>1. Changes({p}, {}) /\ Lives(p) /\ UNCHANGED auroraVars
  BY RebuildChanges
<1> DEFINE stages == <<Step("row", p), Step("build", p)>> \o Update(p)
           j      == Begun("rebuild", {p}, {}, stages, NoSnap)
<1>2. Starts(w, "rebuild", {p}, {}, stages, NoSnap) /\ awaited' = awaited
  BY DEF Rebuild
<1>3. stages \in Stages
  BY RebuildStages, Zenon
<1> HIDE DEF stages
<1>4. /\ j.stages = stages /\ j.ids = {p} /\ j.ending = {} /\ j.snap = NoSnap
  BY DEF Begun
<1> HIDE DEF j
<1>5. /\ Planned(j) /\ stages # <<>>
      /\ \A x : Has(j.stages, x) <=> x \in {<<"row", p>>, <<"build", p>>, <<"update", p>>}
  BY <1>4, RebuildPlanned DEF stages
<1>6. StartsWork(w, j)
  <2>1. j = Begun("rebuild", {p}, {}, stages, NoSnap) /\ "rebuild" \in Ops
    BY DEF j, Ops
  <2>2. awaited' \subseteq awaited /\ \A q \in awaited \ {p} : q \in awaited'
    BY <1>2
  <2> QED  BY <1>1, <1>2, <1>3, <1>5, NoSnapFacts, <2>1, <2>2, StartsFrom
<1>7. Grown(p)
  BY <1>1 DEF Changes
<1>8. /\ j.snap[p].at = 0 /\ j.snap[p].objs = {} /\ Has(j.stages, <<"update", p>>)
      /\ Has(j.stages, <<"row", p>>) /\ Has(j.stages, <<"build", p>>)
      /\ ~Has(j.stages, <<"clear", p>>) /\ \A s \in Away : ~Has(j.stages, <<s, p>>)
  BY <1>4, <1>5, NoSnapFacts DEF Away
<1>9. FitsWork(j)
  BY <1>1, <1>4, <1>7, <1>8 DEF FitsWork, Grown
<1> QED  BY <1>6, <1>9

\* So does DeleteProfile.
LEMMA EraseStarts ==
    ASSUME AllTypes, AuroraOK, NEW w \in Workers, NEW p \in ProfileIds, Erase(w, p)
    PROVE  \E j : StartsWork(w, j) /\ FitsWork(j)
<1>1. PICK c : c = connect[p]
  OBVIOUS
<1>2. c \in ProfileIds /\ Changes({c}, {c}) /\ Lives(c) /\ ~Lives(c)'
  BY <1>1, EraseChanges
<1> DEFINE stages == Clear(c) \o <<Step("remove", c)>>
           j      == Begun("erase", {c}, {c}, stages, NoSnap)
<1>3. /\ Starts(w, "erase", {c}, {c}, stages, NoSnap) /\ awaited' = awaited \ {c}
      /\ Prompt => ~Queued(c)
  BY <1>1 DEF Erase
<1>4. stages \in Stages
  BY <1>2, EraseStages, Zenon
<1> HIDE DEF stages
<1>5. /\ j.stages = stages /\ j.ids = {c} /\ j.ending = {c} /\ j.snap = NoSnap
  BY DEF Begun
<1> HIDE DEF j
<1>6. /\ Planned(j) /\ stages # <<>>
      /\ \A x : Has(j.stages, x) <=> x \in {<<"find", c>>, <<"clear", c>>, <<"remove", c>>}
  BY <1>2, <1>5, ErasePlanned DEF stages
<1>7. StartsWork(w, j)
  <2>1. j = Begun("erase", {c}, {c}, stages, NoSnap) /\ "erase" \in Ops
    BY DEF j, Ops
  <2>2. awaited' \subseteq awaited /\ \A q \in awaited \ {c} : q \in awaited'
    BY <1>3
  <2>3. {c} \in SUBSET ProfileIds
    BY <1>2
  <2> QED  BY <1>2, <1>3, <1>4, <1>6, NoSnapFacts, <2>1, <2>2, <2>3, StartsFrom
<1>8. /\ j.snap[c].at = 0 /\ j.snap[c].objs = {} /\ Has(j.stages, <<"clear", c>>)
      /\ Has(j.stages, <<"find", c>>) /\ Has(j.stages, <<"remove", c>>)
      /\ \A s \in Up : ~Has(j.stages, <<s, c>>)
  BY <1>2, <1>5, <1>6, NoSnapFacts DEF Up
<1>9. FitsWork(j)
  BY <1>2, <1>3, <1>5, <1>8 DEF FitsWork
<1> QED  BY <1>7, <1>9

\* So does MergeProfiles.
LEMMA MergeStarts ==
    ASSUME AllTypes, AuroraOK, NEW w \in Workers, NEW a \in ProfileIds, NEW b \in ProfileIds,
           Merge(w, a, b)
    PROVE  \E j : StartsWork(w, j) /\ FitsWork(j)
<1>1. Changes({a, b}, {b}) /\ Lives(a) /\ Lives(b) /\ a # b /\ ~Lives(b)'
  BY MergeChanges
<1> DEFINE stages == <<Step("row", a), Step("build", a)>> \o Update(a)
                     \o <<Step("withdraw", b)>> \o Clear(b)
           j      == Begun("merge", {a, b}, {b}, stages, NoSnap)
<1>2. Starts(w, "merge", {a, b}, {b}, stages, NoSnap) /\ awaited' = awaited \ {a, b}
  BY DEF Merge
<1>3. stages \in Stages
  BY MergeStages, Zenon
<1> HIDE DEF stages
<1>4. /\ j.stages = stages /\ j.ids = {a, b} /\ j.ending = {b} /\ j.snap = NoSnap
  BY DEF Begun
<1> HIDE DEF j
<1>5. /\ Planned(j) /\ stages # <<>>
      /\ \A x : Has(j.stages, x) <=>
           x \in {<<"row", a>>, <<"build", a>>, <<"update", a>>,
                  <<"withdraw", b>>, <<"find", b>>, <<"clear", b>>}
  <2>1. j.stages = <<Step("row", a), Step("build", a)>> \o Update(a)
                     \o <<Step("withdraw", b)>> \o Clear(b)
    BY <1>4, Zenon DEF stages
  <2>2. /\ Planned(j) /\ j.stages # <<>>
        /\ \A x : Has(j.stages, x) <=>
             x \in {<<"row", a>>, <<"build", a>>, <<"update", a>>,
                    <<"withdraw", b>>, <<"find", b>>, <<"clear", b>>}
    BY <1>1, <1>4, <2>1, MergePlanned, Zenon
  <2> QED  BY <1>4, <2>2, Zenon
<1>6. StartsWork(w, j)
  <2>1. j = Begun("merge", {a, b}, {b}, stages, NoSnap) /\ "merge" \in Ops
    BY DEF j, Ops
  <2>2. awaited' \subseteq awaited /\ \A q \in awaited \ {a, b} : q \in awaited'
    BY <1>2
  <2>3. {b} \in SUBSET ProfileIds /\ {a, b} \in SUBSET ProfileIds
    OBVIOUS
  <2> QED  BY <1>1, <1>2, <1>3, <1>5, NoSnapFacts, <2>1, <2>2, <2>3, StartsFrom
<1>7. Grown(a)
  BY <1>1 DEF Changes
<1>8. /\ \A q \in {a, b} : j.snap[q].at = 0 /\ j.snap[q].objs = {}
      /\ Has(j.stages, <<"row", a>>) /\ Has(j.stages, <<"build", a>>)
      /\ Has(j.stages, <<"update", a>>) /\ ~Has(j.stages, <<"clear", a>>)
      /\ \A s \in Away : ~Has(j.stages, <<s, a>>)
      /\ Has(j.stages, <<"withdraw", b>>) /\ Has(j.stages, <<"find", b>>)
      /\ Has(j.stages, <<"clear", b>>) /\ \A s \in Up : ~Has(j.stages, <<s, b>>)
  BY <1>1, <1>4, <1>5, NoSnapFacts DEF Away, Up
<1>9. FitsWork(j)
  BY <1>1, <1>4, <1>7, <1>8 DEF FitsWork, Grown
<1> QED  BY <1>6, <1>9

\* So does UnmergeProfiles.
LEMMA UnmergeStarts ==
    ASSUME AllTypes, AuroraOK, NEW w \in Workers, NEW a \in ProfileIds, NEW b \in ProfileIds,
           Unmerge(w, a, b)
    PROVE  \E j : StartsWork(w, j) /\ FitsWork(j)
<1>1. /\ Changes({a, b}, {a, b}) /\ Lives(a) /\ ~Lives(b) /\ a # b
      /\ \A p \in {a, b} : Lives(p)' /\ row'[p] = Newest(p)'
  BY UnmergeChanges
<1> DEFINE stages == <<Step("build", a), Step("build", b)>> \o Clear(a) \o Update(a) \o Update(b)
           j      == Begun("unmerge", {a, b}, {a, b}, stages, NoSnap)
<1>2. /\ Starts(w, "unmerge", {a, b}, {a, b}, stages, NoSnap) /\ awaited' = awaited
      /\ Prompt => ~Queued(a) /\ ~Queued(b)
  BY DEF Unmerge
<1>3. stages \in Stages
  BY UnmergeStages, Zenon
<1> HIDE DEF stages
<1>4. /\ j.stages = stages /\ j.ids = {a, b} /\ j.ending = {a, b} /\ j.snap = NoSnap
  BY DEF Begun
<1> HIDE DEF j
<1>5. /\ Planned(j) /\ stages # <<>>
      /\ \A x : Has(j.stages, x) <=>
           x \in {<<"build", a>>, <<"build", b>>, <<"find", a>>, <<"clear", a>>,
                  <<"update", a>>, <<"update", b>>}
  <2>1. j.stages = <<Step("build", a), Step("build", b)>> \o Clear(a) \o Update(a) \o Update(b)
    BY <1>4, Zenon DEF stages
  <2>2. /\ Planned(j) /\ j.stages # <<>>
        /\ \A x : Has(j.stages, x) <=>
             x \in {<<"build", a>>, <<"build", b>>, <<"find", a>>, <<"clear", a>>,
                    <<"update", a>>, <<"update", b>>}
    <3>1. a # b /\ j.ids = {a, b} /\ j.ending = {a, b}
      BY <1>1, <1>4
    <3> QED  BY <2>1, <3>1, UnmergePlanned, ZenonT(60)
  <2> QED  BY <1>4, <2>2, Zenon
<1>6. StartsWork(w, j)
  <2>1. j = Begun("unmerge", {a, b}, {a, b}, stages, NoSnap) /\ "unmerge" \in Ops
    BY DEF j, Ops
  <2>2. awaited' \subseteq awaited /\ \A q \in awaited \ {a, b} : q \in awaited'
    BY <1>2
  <2>3. {a, b} \in SUBSET ProfileIds
    OBVIOUS
  <2> QED  BY <1>1, <1>2, <1>3, <1>5, NoSnapFacts, <2>1, <2>2, <2>3, StartsFrom
<1>7. /\ \A q \in {a, b} : /\ j.snap[q].at = 0 /\ j.snap[q].objs = {}
                           /\ Has(j.stages, <<"build", q>>) /\ Has(j.stages, <<"update", q>>)
                           /\ \A s \in Away : ~Has(j.stages, <<s, q>>)
      /\ Has(j.stages, <<"find", a>>) /\ Has(j.stages, <<"clear", a>>)
      /\ ~Has(j.stages, <<"clear", b>>)
  BY <1>1, <1>4, <1>5, NoSnapFacts DEF Away
<1>8. FitsWork(j)
  BY <1>1, <1>2, <1>4, <1>7 DEF FitsWork
<1> QED  BY <1>6, <1>8

\* So does every operation.
LEMMA OperationStarts ==
    ASSUME AllTypes, AuroraOK, NEW w \in Workers, Operation(w)
    PROVE  \E j : StartsWork(w, j) /\ FitsWork(j)
  BY PutStarts, MergeStarts, UnmergeStarts, EraseStarts, RebuildStarts DEF Operation
----------------------------------------------------------------------------
(* Operations and the work under way *)

\* The work of all workers when w starts j.
LEMMA StartShape ==
    ASSUME AllTypes, NEW w \in Workers, Planned(worker[w]), NEW j, StartsWork(w, j)
    PROVE  /\ worker[w] = Idle /\ worker'[w] = j
           /\ \A v \in Workers \ {w} : worker'[v] = worker[v]
           /\ \A s, p : ~ToDo(w, s, p) /\ (ToDo(w, s, p)' <=> Has(j.stages, <<s, p>>))
           /\ \A v \in Workers \ {w} : \A s, p : ToDo(v, s, p)' <=> ToDo(v, s, p)
           /\ \A s \in Steps, p \in ProfileIds : Has(j.stages, <<s, p>>) => p \in j.ids
           /\ j.ids \subseteq ProfileIds /\ j.ending \subseteq j.ids
<1>1. IsIdle(w) /\ worker' = [worker EXCEPT ![w] = j] /\ j \in Busy /\ Planned(j)
  BY DEF StartsWork
<1>2. worker[w] = Idle
  BY <1>1 DEF Planned, IsIdle
<1>3. worker'[w] = j /\ \A v \in Workers \ {w} : worker'[v] = worker[v]
  BY <1>1 DEF AllTypes, WorkTypes
<1>4. \A s, p : ~ToDo(w, s, p) /\ (ToDo(w, s, p)' <=> Has(j.stages, <<s, p>>))
  BY <1>2, <1>3, IdlePlanned DEF ToDo
<1>5. \A v \in Workers \ {w} : \A s, p : ToDo(v, s, p)' <=> ToDo(v, s, p)
  BY <1>3 DEF ToDo
<1>6. \A s \in Steps, p \in ProfileIds : Has(j.stages, <<s, p>>) => p \in j.ids
  BY <1>1 DEF Planned
<1>7. j.ids \subseteq ProfileIds /\ j.ending \subseteq j.ids
  BY <1>1 DEF Planned, Busy
<1> QED  BY <1>2, <1>3, <1>4, <1>5, <1>6, <1>7

\* What the other workers work on, an operation that starts does not end.
LEMMA OthersApart ==
    ASSUME WorkInv, Apart, NEW w \in Workers, NEW j, StartsWork(w, j),
           NEW v \in Workers \ {w}
    PROVE  /\ worker[v].ids \cap j.ending = {} /\ j.ids \cap worker[v].ending = {}
           /\ worker[v].ids \subseteq ProfileIds
<1>1. CASE IsIdle(v)
  <2>1. worker[v] = Idle
    BY <1>1 DEF WorkInv, Planned, IsIdle
  <2> QED  BY <2>1, IdlePlanned
<1>2. CASE ~IsIdle(v)
  <2>1. worker[v].ids \cap j.ending = {} /\ j.ids \cap worker[v].ending = {}
    BY <1>2 DEF StartsWork
  <2> QED  BY <1>2, <2>1, BusyParts DEF WorkInv, AllTypes
<1> QED  BY <1>1, <1>2

\* An operation that starts keeps the invariant of the work under way.
LEMMA StartKeepsWork ==
    ASSUME WorkInv, Apart, NEW w \in Workers, NEW j, StartsWork(w, j), FitsWork(j)
    PROVE  WorkInv'
<1>1. /\ worker[w] = Idle /\ worker'[w] = j
      /\ \A v \in Workers \ {w} : worker'[v] = worker[v]
      /\ \A s, p : ~ToDo(w, s, p) /\ (ToDo(w, s, p)' <=> Has(j.stages, <<s, p>>))
      /\ \A v \in Workers \ {w} : \A s, p : ToDo(v, s, p)' <=> ToDo(v, s, p)
      /\ \A s \in Steps, p \in ProfileIds : Has(j.stages, <<s, p>>) => p \in j.ids
      /\ j.ids \subseteq ProfileIds /\ j.ending \subseteq j.ids
  BY StartShape DEF WorkInv
<1>2. Changes(j.ids, j.ending) /\ AllTypes' /\ Planned(j) /\ UNCHANGED dynamoVars
  BY DEF StartsWork
<1>3. AuroraOK'
  BY <1>2 DEF Changes
<1>4. \A v \in Workers \ {w} :
         worker[v].ids \cap j.ending = {} /\ j.ids \cap worker[v].ending = {}
         /\ worker[v].ids \subseteq ProfileIds
  BY OthersApart
<1>5. KeptApart'
  BY <1>1, <1>4 DEF WorkInv, KeptApart
<1>6. ASSUME NEW v \in Workers \ {w}  PROVE Planned(worker'[v]) /\ Abreast(v)'
  <2>1. Planned(worker'[v])
    BY <1>1 DEF WorkInv
  <2> SUFFICES ASSUME NEW p \in worker[v].ids
               PROVE  /\ Known(p)'
                      /\ worker[v].snap[p].at <= row'[p]
                      /\ worker[v].snap[p].objs \subseteq ObjectsOf(p)'
                      /\ ToDo(v, "clear", p) /\ ~ToDo(v, "find", p) =>
                            worker[v].found = Found(p)'
                      /\ \A s \in Up : ToDo(v, s, p) => Lives(p)'
                      /\ \A s \in Away : ToDo(v, s, p) => ~Lives(p)'
    BY <1>1, <2>1 DEF Abreast
  <2>2. p \in ProfileIds /\ p \notin j.ending
    BY <1>4
  <2>3. /\ Known(p)
        /\ worker[v].snap[p].at <= row[p] /\ worker[v].snap[p].objs \subseteq ObjectsOf(p)
        /\ ToDo(v, "clear", p) /\ ~ToDo(v, "find", p) => worker[v].found = Found(p)
        /\ \A s \in Up : ToDo(v, s, p) => Lives(p)
        /\ \A s \in Away : ToDo(v, s, p) => ~Lives(p)
    BY DEF WorkInv, Abreast
  <2>4. Known(p)'
    BY <1>2, <2>2, <2>3 DEF Changes
  <2>5. Found(p)' = Found(p)
    BY <1>2 DEF Found, dynamoVars
  <2>6. CASE p \notin j.ids
    <3>1. Untouched(p)
      BY <1>2, <2>2, <2>6 DEF Changes
    <3> QED  BY <2>3, <2>4, <2>5, <3>1 DEF Untouched
  <2>7. CASE p \in j.ids
    <3>1. Grown(p)
      BY <1>2, <2>2, <2>7 DEF Changes
    <3>2. \A s \in Away : ~ToDo(v, s, p)
      <4>1. p \notin worker[v].ending
        BY <1>4, <2>7
      <4> QED  BY <2>2, <4>1 DEF WorkInv, Planned, ToDo
    <3>3. worker[v].snap[p].at <= row'[p]
      <4>1. ~IsIdle(v)
        BY <2>3, IdlePlanned DEF WorkInv, Planned, IsIdle
      <4>2. worker[v].snap[p] \in Snaps
        BY <2>2, <4>1, BusyParts DEF WorkInv, AllTypes
      <4>3. {worker[v].snap[p].at, row[p], row'[p]} \subseteq Nat
        BY <1>2, <2>2, <4>2, TimesFacts DEF WorkInv, AllTypes, AuroraTypes, Snaps
      <4>4. row[p] <= row'[p]
        BY <3>1 DEF Grown
      <4> QED  BY <2>3, <4>3, <4>4
    <3> QED  BY <2>3, <2>4, <2>5, <3>1, <3>2, <3>3 DEF Grown
  <2> QED  BY <2>6, <2>7
<1>7. Planned(worker'[w]) /\ Abreast(w)'
  <2>1. Planned(worker'[w])
    BY <1>1, <1>2
  <2> SUFFICES ASSUME NEW p \in j.ids
               PROVE  /\ Known(p)'
                      /\ j.snap[p].at <= row'[p]
                      /\ j.snap[p].objs \subseteq ObjectsOf(p)'
                      /\ Has(j.stages, <<"clear", p>>) => Has(j.stages, <<"find", p>>)
                      /\ \A s \in Up : Has(j.stages, <<s, p>>) => Lives(p)'
                      /\ \A s \in Away : Has(j.stages, <<s, p>>) => ~Lives(p)'
    BY <1>1, <2>1 DEF Abreast, ToDo
  <2>2. Known(p)'
    BY <1>2 DEF Changes
  <2>3. row'[p] \in Nat
    BY <1>1, <1>2, TimesFacts DEF AllTypes, AuroraTypes
  <2>4. /\ j.snap[p].at = 0 /\ j.snap[p].objs \subseteq ObjectsOf(p)'
        /\ Has(j.stages, <<"clear", p>>) => Has(j.stages, <<"find", p>>)
    BY DEF FitsWork
  <2>5. /\ \A s \in Up : Has(j.stages, <<s, p>>) => Lives(p)'
        /\ \A s \in Away : Has(j.stages, <<s, p>>) => ~Lives(p)'
    BY Zenon DEF FitsWork
  <2>6. j.snap[p].at <= row'[p]
    BY <2>3, <2>4
  <2> QED  BY <2>2, <2>4, <2>5, <2>6
<1>8. \A v \in Workers : Planned(worker[v])' /\ Abreast(v)'
  BY <1>6, <1>7
<1> QED  BY <1>2, <1>3, <1>5, <1>8 DEF WorkInv
----------------------------------------------------------------------------
(* A step of a worker *)

\* The steps that the step s of p adds to its stage.
Joins(s, p, more) ==
    \/ more = {}
    \/ s = "update" /\ more = {<<"message", p>>, <<"record", p>>}
    \/ s = "record" /\ more = {<<"objects", p>>}

\* The worker w does the step s of p, steps more join its stage, and it is k then.
StepsTo(w, s, p, more, k) ==
    /\ worker' = [worker EXCEPT ![w] = k] /\ worker'[w] = k /\ Planned(k)
    /\ \A v \in Workers \ {w} : worker'[v] = worker[v]
    /\ k.ids \subseteq worker[w].ids /\ k.ending \subseteq worker[w].ending
    /\ ToDo(w, s, p) /\ p \in worker[w].ids /\ worker[w].ids \subseteq ProfileIds
    /\ \A x : Has(k.stages, x) => x \in more \/ Has(worker[w].stages, x)
    /\ \A x : x # <<s, p>> /\ Has(worker[w].stages, x) => Has(k.stages, x)
    /\ \A x \in more : Has(k.stages, x)
    /\ Joins(s, p, more)
    /\ s \in {"find", "clear"} => ~Has(k.stages, <<s, p>>)
    /\ s \in {"row", "build"} => Has(k.stages, <<"update", p>>)
    /\ s = "find" => ToDo(w, "clear", p)
    /\ s = "clear" => ~ToDo(w, "find", p)
    /\ s \in {"update", "record", "objects"} => Cleared(p)

\* What is in the first stage comes after nothing.
LEMMA FirstOfAll ==
    ASSUME NEW st \in Stages, st # <<>>, NEW x, x \in Head(st), NEW y, Precedes(st, y, x)
    PROVE  ~Has(st, y)
<1>1. Len(st) \in Nat /\ 1 \in 1 .. Len(st) /\ x \in st[1]
  BY EmptySeq, HeadTailProperties DEF Stages
<1> SUFFICES ASSUME NEW i \in 1 .. Len(st), y \in st[i]  PROVE FALSE
  BY DEF Has
<1>2. i < 1
  BY <1>1 DEF Precedes
<1> QED  BY <1>1, <1>2

\* What leads to a step that is not done leads to it still.
LEMMA LeadsHas ==
    ASSUME NEW st \in Stages, NEW x, NEW y, Has(st, x), Leads(st, x, y)
    PROVE  Has(st, y)
  BY DEF Has, Leads

\* What a step that is done leaves to do.
LEMMA StepShape ==
    ASSUME WorkInv, NEW w \in Workers, NEW s \in Steps, NEW p \in ProfileIds, Doing(w, s, p),
           NEW more \in SUBSET (Steps \X ProfileIds), Joins(s, p, more),
           NEW snap \in [ProfileIds -> Snaps],
           NEW found \in [record : BOOLEAN, objs : SUBSET Objects],
           Resume(w, After(w, s, p, more), snap, found), done' = done
    PROVE  \E k : /\ StepsTo(w, s, p, more, k) /\ WorkTypes'
                  /\ k = Idle \/ (k.snap = snap /\ k.found = found /\ k.ids = worker[w].ids)
<1> DEFINE j  == worker[w]
           st == j.stages
           x  == <<s, p>>
           new == Drop(st, (Head(st) \ {x}) \cup more)
           k  == Resumed(j, new, snap, found)
<1>1. /\ ~IsIdle(w) /\ j \in Busy /\ x \in Head(st) /\ st \in Stages /\ st # <<>>
      /\ After(w, s, p, more) = new /\ new \in Stages /\ ToDo(w, s, p)
  <2>1. AllTypes
    BY DEF WorkInv
  <2>2. /\ ~IsIdle(w) /\ worker[w] \in Busy
        /\ <<s, p>> \in Head(worker[w].stages)
        /\ worker[w].stages \in Stages /\ worker[w].stages # <<>> /\ ToDo(w, s, p)
    BY <2>1, DoingFacts
  <2>3. After(w, s, p, more) = new
    BY Zenon DEF After, Drop, Step
  <2>4. new \in Stages
    <3>1. st \in Stages /\ st # <<>> /\ x \in Head(st) /\ x \in Steps \X ProfileIds
      BY <2>2
    <3> HIDE DEF st, x
    <3>2. Dropped(st, x, more, new)
      BY <3>1, DropSteps
    <3> QED  BY <3>2 DEF Dropped
  <2> QED  BY <2>2, <2>3, <2>4, Zenon
<1>2. WorkTypes' /\ worker' = [worker EXCEPT ![w] = k]
  <2>1. Resume(w, new, snap, found)
    BY <1>1
  <2> HIDE DEF new
  <2> QED  BY <1>1, <2>1, Resumes DEF WorkInv
<1>3. /\ new \in Stages
      /\ \A y : Has(new, y) => y \in more \/ Has(st, y)
      /\ \A y : Has(st, y) /\ y # x => Has(new, y)
      /\ \A y \in more : Has(new, y)
      /\ Has(st, x)
      /\ Once(st, x) /\ x \notin more => ~Has(new, x)
  <2>1. st \in Stages /\ st # <<>> /\ x \in Head(st) /\ x \in Steps \X ProfileIds
    BY <1>1
  <2>2. PICK st1 : st1 = st
    OBVIOUS
  <2>3. PICK x1 : x1 = x
    OBVIOUS
  <2> HIDE DEF st, x
  <2>4. st1 \in Stages /\ st1 # <<>> /\ x1 \in Head(st1) /\ x1 \in Steps \X ProfileIds
    BY <2>1, <2>2, <2>3
  <2>5. PICK new1 : new1 = Drop(st1, (Head(st1) \ {x1}) \cup more)
    OBVIOUS
  <2>6. Dropped(st1, x1, more, new1)
    <3>1. Dropped(st1, x1, more, Drop(st1, (Head(st1) \ {x1}) \cup more))
      BY <2>4, DropSteps
    <3> QED  BY <2>5, <3>1
  <2>7. new = new1
    BY <2>2, <2>3, <2>5
  <2> HIDE DEF new
  <2> QED  BY <2>2, <2>3, <2>6, <2>7 DEF Dropped
<1>4. Planned(j) /\ worker \in [Workers -> Busy \cup {Idle}]
  BY DEF WorkInv, AllTypes, WorkTypes
<1>5. k.stages = new /\ (new = <<>> => k = Idle)
      /\ (new # <<>> => k.snap = snap /\ k.found = found /\ k.ids = j.ids /\ k.ending = j.ending)
  <2> HIDE DEF new
  <2>1. CASE new = <<>>
    BY <2>1, IdlePlanned DEF Resumed
  <2>2. CASE new # <<>>
    BY <1>1, <2>2 DEF Resumed, Busy
  <2> QED  BY <2>1, <2>2
<1> HIDE DEF k
<1>6. Planned(k) /\ k.ids \subseteq j.ids /\ k.ending \subseteq j.ending
  <2>1. CASE new = <<>>
    BY <1>5, <2>1, IdlePlanned
  <2>2. CASE new # <<>>
    <3>1. k.stages = Drop(j.stages, (Head(j.stages) \ {<<s, p>>}) \cup more)
          /\ k.stages # <<>> /\ k.ids = j.ids /\ k.ending = j.ending
      BY <1>5, <2>2
    <3>2. j.stages \in Stages /\ j.stages # <<>> /\ <<s, p>> \in Head(j.stages)
      BY <1>1
    <3> HIDE DEF j, st, x, new
    <3>3. Planned(k)
      BY <1>4, <3>1, <3>2, StepPlanned DEF Joins
    <3> QED  BY <3>1, <3>3
  <2> QED  BY <2>1, <2>2
<1>7. worker'[w] = k /\ \A v \in Workers \ {w} : worker'[v] = worker[v]
  BY <1>2, <1>4
<1>8. p \in j.ids /\ j.ids \subseteq ProfileIds
  <2>1. j.ids \subseteq ProfileIds
    BY <1>1 DEF Busy
  <2> QED  BY <1>1, <1>4, <2>1 DEF Planned, ToDo
<1>9. s \in {"find", "clear"} => ~Has(k.stages, <<s, p>>)
  <2> SUFFICES ASSUME s \in {"find", "clear"}  PROVE ~Has(k.stages, x)
    OBVIOUS
  <2>1. Once(st, x)
    BY <1>4 DEF Planned
  <2>2. x \notin more
    BY DEF Joins
  <2> HIDE DEF x, st, new
  <2> QED  BY <1>3, <1>5, <2>1, <2>2
<1>10. s \in {"row", "build"} => Has(k.stages, <<"update", p>>)
  <2> SUFFICES ASSUME s \in {"row", "build"}  PROVE Has(k.stages, <<"update", p>>)
    OBVIOUS
  <2>1. Leads(st, x, <<"update", p>>)
    BY <1>4 DEF Planned
  <2>2. <<"update", p>> # x
    OBVIOUS
  <2> HIDE DEF x, st, new
  <2>3. Has(st, <<"update", p>>)
    BY <1>1, <1>3, <2>1, LeadsHas
  <2> QED  BY <1>3, <1>5, <2>2, <2>3
<1>11. s = "find" => ToDo(w, "clear", p)
  <2> SUFFICES ASSUME s = "find"  PROVE Has(st, <<"clear", p>>)
    BY DEF ToDo
  <2>1. Leads(st, x, <<"clear", p>>)
    BY <1>4 DEF Planned
  <2> HIDE DEF x, st
  <2> QED  BY <1>1, <1>3, <2>1, LeadsHas
<1>12. s = "clear" => ~ToDo(w, "find", p)
  <2> SUFFICES ASSUME s = "clear"  PROVE ~Has(st, <<"find", p>>)
    BY DEF ToDo
  <2>1. Precedes(st, <<"find", p>>, x)
    BY <1>4 DEF Planned
  <2> HIDE DEF x, st
  <2> QED  BY <1>1, <2>1, FirstOfAll
<1>13. s \in {"update", "record", "objects"} => Cleared(p)
  <2> SUFFICES ASSUME s \in {"update", "record", "objects"}, NEW v \in Workers,
                      ToDo(v, "clear", p)
               PROVE  FALSE
    BY DEF Cleared
  <2>1. CASE v = w
    <3>1. Precedes(st, <<"clear", p>>, x)
      BY <1>4 DEF Planned
    <3>2. Has(st, <<"clear", p>>)
      BY <2>1 DEF ToDo
    <3> HIDE DEF x, st
    <3> QED  BY <1>1, <3>1, <3>2, FirstOfAll
  <2>2. CASE v # w
    <3>1. p \in worker[v].ending
      BY DEF WorkInv, Planned, ToDo
    <3> QED  BY <1>8, <2>2, <3>1 DEF WorkInv, KeptApart
  <2> QED  BY <2>1, <2>2
<1>14. StepsTo(w, s, p, more, k)
  <2>1. ToDo(w, s, p) /\ Joins(s, p, more)
    BY <1>1
  <2>2. /\ \A y : Has(k.stages, y) => y \in more \/ Has(worker[w].stages, y)
        /\ \A y : y # <<s, p>> /\ Has(worker[w].stages, y) => Has(k.stages, y)
        /\ \A y \in more : Has(k.stages, y)
    <3> HIDE DEF new
    <3> QED  BY <1>3, <1>5
  <2> HIDE DEF new
  <2> QED  BY <1>2, <1>6, <1>7, <1>8, <1>9, <1>10, <1>11, <1>12, <1>13, <2>1, <2>2 DEF StepsTo
<1>15. k = Idle \/ (k.snap = snap /\ k.found = found /\ k.ids = worker[w].ids)
  <2> HIDE DEF new
  <2> QED  BY <1>5
<1> QED  BY <1>2, <1>14, <1>15

\* Who works on the records of p that are to be deleted is alone with them.
LEMMA StepKeepsWork ==
    ASSUME WorkInv, NEW w \in Workers, NEW s \in Steps, NEW p \in ProfileIds, NEW more, NEW k,
           StepsTo(w, s, p, more, k), AllTypes', UNCHANGED auroraVars,
           \A q \in ProfileIds \ {p} : Found(q)' = Found(q),
           Found(p)' = Found(p) \/ s \in {"record", "objects", "clear"},
           k = Idle \/ k.found = (IF s = "find" THEN Found(p) ELSE worker[w].found),
           \A q \in k.ids : k.snap[q].at <= row[q] /\ k.snap[q].objs \subseteq ObjectsOf(q)
    PROVE  WorkInv'
<1>1. /\ \A q : Known(q)' <=> Known(q)
      /\ \A q : Lives(q)' <=> Lives(q)
      /\ \A q : ObjectsOf(q)' = ObjectsOf(q)
      /\ row' = row /\ stamp' = stamp
  BY DEF auroraVars, Known, Lives, ObjectsOf
<1>2. AuroraOK'
  BY <1>1 DEF WorkInv, AuroraOK, auroraVars
<1>3. /\ worker'[w] = k /\ Planned(k)
      /\ \A v \in Workers \ {w} : worker'[v] = worker[v]
      /\ k.ids \subseteq worker[w].ids /\ k.ending \subseteq worker[w].ending
      /\ p \in worker[w].ids /\ worker[w].ids \subseteq ProfileIds /\ ToDo(w, s, p)
  BY DEF StepsTo
<1>4. KeptApart'
  BY <1>3 DEF WorkInv, KeptApart
<1>5. ASSUME NEW v \in Workers \ {w}  PROVE Planned(worker'[v]) /\ Abreast(v)'
  <2>1. worker'[v] = worker[v] /\ \A x, q : ToDo(v, x, q)' <=> ToDo(v, x, q)
    BY <1>3 DEF ToDo
  <2>2. Planned(worker'[v])
    BY <2>1 DEF WorkInv
  <2> SUFFICES ASSUME NEW q \in worker[v].ids, ToDo(v, "clear", q)  PROVE Found(q)' = Found(q)
    BY <1>1, <2>1, <2>2 DEF WorkInv, Abreast
  <2>3. q \in ProfileIds
    <3>1. ~IsIdle(v)
      BY IdlePlanned DEF WorkInv, Planned, IsIdle
    <3> QED  BY <3>1, BusyParts DEF WorkInv, AllTypes
  <2>4. q \in worker[v].ending
    BY <2>3 DEF WorkInv, Planned, ToDo
  <2>5. q # p
    BY <1>3, <2>4 DEF WorkInv, KeptApart
  <2> QED  BY <2>3, <2>5
<1>6. Abreast(w)'
  <2>1. \A x, q : ToDo(w, x, q)' <=> Has(k.stages, <<x, q>>)
    BY <1>3 DEF ToDo
  <2> SUFFICES ASSUME NEW q \in k.ids
               PROVE  /\ Has(k.stages, <<"clear", q>>) /\ ~Has(k.stages, <<"find", q>>) =>
                            k.found = Found(q)'
                      /\ \A u \in Up : Has(k.stages, <<u, q>>) => Lives(q)
                      /\ \A u \in Away : Has(k.stages, <<u, q>>) => ~Lives(q)
    <3>1. \A q \in worker[w].ids : Known(q)
      BY DEF WorkInv, Abreast
    <3> QED  BY <1>1, <1>3, <2>1, <3>1 DEF Abreast
  <2>2. q \in worker[w].ids /\ q \in ProfileIds
    BY <1>3
  <2>3. /\ \A u \in Up : ToDo(w, u, q) => Lives(q)
        /\ \A u \in Away : ToDo(w, u, q) => ~Lives(q)
        /\ ToDo(w, "clear", q) /\ ~ToDo(w, "find", q) => worker[w].found = Found(q)
    BY <2>2 DEF WorkInv, Abreast
  <2>4. \A u : Has(k.stages, <<u, q>>) => ToDo(w, u, q) \/ (q = p /\ s \in Up /\ u \in Up)
    BY DEF StepsTo, Joins, ToDo, Up
  <2>5. Up \cap Away = {}
    BY DEF Up, Away
  <2>6. s \in Up => Lives(p)
    BY <1>3 DEF WorkInv, Abreast
  <2>7. /\ \A u \in Up : Has(k.stages, <<u, q>>) => Lives(q)
        /\ \A u \in Away : Has(k.stages, <<u, q>>) => ~Lives(q)
    BY <2>3, <2>4, <2>5, <2>6
  <2>8. ASSUME Has(k.stages, <<"clear", q>>), ~Has(k.stages, <<"find", q>>)
        PROVE  k.found = Found(q)'
    <3>1. ToDo(w, "clear", q)
      BY <2>4, <2>8 DEF Up
    <3>2. k # Idle
      BY <2>8, IdlePlanned
    <3>3. CASE s = "find"
      <4>1. ToDo(w, "clear", p)
        BY <3>3 DEF StepsTo
      <4>2. q = p
        BY <2>2, <3>1, <4>1 DEF WorkInv, Planned, ToDo
      <4>3. Found(p)' = Found(p)
        BY <3>3
      <4>4. ~ToDo(w, "find", p) => worker[w].found = Found(p)
        BY <2>3, <3>1, <4>2
      <4>5. ToDo(w, "find", p)
        BY <1>3, <3>3
      <4> QED  BY <3>2, <3>3, <4>2, <4>3
    <3>4. CASE s # "find"
      <4>1. ~ToDo(w, "find", q)
        BY <2>8, <3>4 DEF StepsTo, ToDo
      <4>2. k.found = Found(q)
        BY <2>3, <3>1, <3>2, <3>4, <4>1
      <4>3. q # p \/ s \notin {"record", "objects", "clear"}
        BY <2>8, <3>1 DEF StepsTo, Cleared
      <4> QED  BY <2>2, <4>2, <4>3
    <3> QED  BY <3>3, <3>4
  <2> QED  BY <2>7, <2>8
<1>7. \A v \in Workers : Planned(worker[v])' /\ Abreast(v)'
  BY <1>3, <1>5, <1>6
<1> QED  BY <1>2, <1>4, <1>7 DEF WorkInv
----------------------------------------------------------------------------
(* The steps one by one *)

\* What the step s of p leaves alone, and what it does to snapshots, tables and queue.
StepOf(w, s, p, more, k) ==
    /\ StepsTo(w, s, p, more, k) /\ AllTypes' /\ UNCHANGED auroraVars
    /\ awaited \subseteq awaited' /\ awaited' \subseteq awaited \cup {p}
    /\ failed \subseteq failed' /\ failed' \subseteq failed \cup {p}
    /\ UNCHANGED <<names, stream, index, reported, faults>>
    /\ k = Idle \/ /\ k.ids = worker[w].ids
                   /\ k.found = (IF s = "find" THEN Found(p) ELSE worker[w].found)
                   /\ \A q \in ProfileIds \ {p} : k.snap[q] = worker[w].snap[q]
    /\ \A q \in ProfileIds \ {p} :
         cached'[q] = cached[q] /\ items'[q] = items[q] /\ service'[q] = service[q]

SnapOf(w, s, p, k) ==
    /\ s = "row" => k.snap[p] = [at |-> row[p], objs |-> worker[w].snap[p].objs]
    /\ s = "build" => /\ k.snap[p].objs = ObjectsOf(p)
                      /\ k.snap[p].at = IF worker[w].snap[p].at # 0 THEN worker[w].snap[p].at
                                        ELSE Newest(p)
    /\ s \notin {"row", "build"} => k = Idle \/ k.snap[p] = worker[w].snap[p]

TablesOf(w, s, p, more) ==
    /\ s = "update" =>
         p \in Skipped \cup awaited' \/ more = {<<"message", p>>, <<"record", p>>}
    /\ s = "record" => more = {<<"objects", p>>}
    /\ cached'[p] = CASE s = "record" /\ cached[p] <= worker[w].snap[p].at -> worker[w].snap[p].at
                      [] s = "clear" -> 0
                      [] OTHER -> cached[p]
    /\ items'[p] = CASE s = "objects" -> items[p] \cup worker[w].snap[p].objs
                     [] s = "clear" -> {}
                     [] OTHER -> items[p]

QueueOf(s, p) ==
    /\ s = "message" => queue' = Append(queue, PutMessage(p))
    /\ s = "withdraw" => queue' = Append(queue, DeleteMessage(p, NumRetries))
    /\ s \notin {"message", "withdraw"} => queue' = queue
    /\ s = "remove" => p \in failed' \/ service'[p] = NoName
    /\ s # "remove" => service'[p] = service[p]

StepFacts(w, s, p, more, k) ==
    StepOf(w, s, p, more, k) /\ SnapOf(w, s, p, k) /\ TablesOf(w, s, p, more) /\ QueueOf(s, p)

\* A step that only goes on.
LEMMA ProceedShape ==
    ASSUME WorkInv, NEW w \in Workers, NEW s \in Steps, NEW p \in ProfileIds, Doing(w, s, p),
           NEW more \in SUBSET (Steps \X ProfileIds), Joins(s, p, more),
           Proceed(w, s, p, more), done' = done
    PROVE  \E k : /\ StepsTo(w, s, p, more, k) /\ WorkTypes'
                  /\ k = Idle \/ (k.snap = worker[w].snap /\ k.found = worker[w].found
                                  /\ k.ids = worker[w].ids)
<1>1. Resume(w, After(w, s, p, more), worker[w].snap, worker[w].found)
  BY DEF Proceed
<1>2. worker[w] \in Busy
  BY BusyParts DEF WorkInv, AllTypes, Doing
<1>3. /\ worker[w].snap \in [ProfileIds -> Snaps]
      /\ worker[w].found \in [record : BOOLEAN, objs : SUBSET Objects]
  BY <1>2 DEF Busy
<1>4. PICK snap, found : snap = worker[w].snap /\ found = worker[w].found
  OBVIOUS
<1>5. /\ snap \in [ProfileIds -> Snaps] /\ found \in [record : BOOLEAN, objs : SUBSET Objects]
      /\ Resume(w, After(w, s, p, more), snap, found)
  BY <1>1, <1>3, <1>4
<1> QED  BY <1>4, <1>5, StepShape

\* The messages of the store are messages.
LEMMA MessageTypes ==
    \A p \in ProfileIds : PutMessage(p) \in Messages /\ DeleteMessage(p, NumRetries) \in Messages
  BY DEF Messages, NumRetries

\* ReadRow, as a step.
LEMMA ReadRowFacts ==
    ASSUME WorkInv, NEW w \in Workers, NEW p \in ProfileIds, ReadRow(w, p)
    PROVE  \E s \in Steps : \E more, k : StepFacts(w, s, p, more, k)
<1>1. AllTypes /\ worker[w] \in Busy /\ Doing(w, "row", p) /\ ToDo(w, "row", p)
  <2>1. AllTypes /\ "row" \in Steps /\ {} \in SUBSET (Steps \X ProfileIds) /\ Doing(w, "row", p)
    BY DEF ReadRow, Steps, WorkInv
  <2> QED  BY <2>1, DoingFacts
<1>2. Lives(p)
  <2>1. Planned(worker[w]) /\ Abreast(w)
    BY DEF WorkInv
  <2>2. p \in worker[w].ids
    BY <1>1, <2>1 DEF Planned, ToDo, Steps
  <2> QED  BY <1>1, <2>1, <2>2 DEF Abreast, Up
<1>3. connect[p] = p /\ p # Nobody
  BY <1>2, TimesFacts DEF Lives
<1>4. PICK snap : snap = [worker[w].snap EXCEPT ![p].at = row[p]]
  OBVIOUS
<1>5. PICK found : found = worker[w].found
  OBVIOUS
<1>6. /\ worker[w].snap \in [ProfileIds -> Snaps] /\ row[p] \in Times
      /\ found \in [record : BOOLEAN, objs : SUBSET Objects]
  BY <1>1, <1>5 DEF Busy, AllTypes, AuroraTypes
<1>7. /\ snap[p] = [at |-> row[p], objs |-> worker[w].snap[p].objs]
      /\ \A q \in ProfileIds \ {p} : snap[q] = worker[w].snap[q]
      /\ snap \in [ProfileIds -> Snaps]
  BY <1>4, <1>6 DEF Snaps
<1>8. /\ Resume(w, After(w, "row", p, {}), snap, found) /\ done' = done
      /\ UNCHANGED <<failed, writerVars, dynamoVars, awaited, auroraVars>>
  BY <1>3, <1>4, <1>5 DEF ReadRow
<1>9. PICK k : /\ StepsTo(w, "row", p, {}, k) /\ WorkTypes'
               /\ k = Idle \/ (k.snap = snap /\ k.found = found /\ k.ids = worker[w].ids)
  <2>1. Joins("row", p, {}) /\ "row" \in Steps /\ {} \in SUBSET (Steps \X ProfileIds)
    BY DEF Joins, Steps
  <2> QED  BY <1>1, <1>6, <1>7, <1>8, <2>1, StepShape
<1>10. k # Idle
  BY <1>9, IdlePlanned DEF StepsTo
<1>11. AllTypes'
  BY <1>1, <1>8, <1>9 DEF AllTypes, WriterTypes, AuroraTypes, CacheTypes, writerVars, dynamoVars,
     auroraVars
<1>12. StepOf(w, "row", p, {}, k)
  BY <1>5, <1>7, <1>8, <1>9, <1>10, <1>11 DEF StepOf, writerVars, dynamoVars
<1>13. SnapOf(w, "row", p, k)
  BY <1>7, <1>9, <1>10 DEF SnapOf
<1>14. TablesOf(w, "row", p, {}) /\ QueueOf("row", p)
  BY <1>8 DEF TablesOf, QueueOf, dynamoVars, writerVars
<1> QED  BY <1>12, <1>13, <1>14 DEF StepFacts, Steps

\* Build, as a step.
LEMMA BuildFacts ==
    ASSUME WorkInv, NEW w \in Workers, NEW p \in ProfileIds, Build(w, p)
    PROVE  \E s \in Steps : \E more, k : StepFacts(w, s, p, more, k)
<1>1. AllTypes /\ worker[w] \in Busy /\ Doing(w, "build", p)
  <2>1. AllTypes /\ "build" \in Steps /\ {} \in SUBSET (Steps \X ProfileIds)
          /\ Doing(w, "build", p)
    BY DEF Build, Steps, WorkInv
  <2> QED  BY <2>1, DoingFacts
<1>2. PICK at : at = IF worker[w].snap[p].at # 0 THEN worker[w].snap[p].at ELSE Newest(p)
  OBVIOUS
<1>3. PICK snap : snap = [worker[w].snap EXCEPT ![p] = [at |-> at, objs |-> ObjectsOf(p)]]
  OBVIOUS
<1>4. PICK found : found = worker[w].found
  OBVIOUS
<1>5. /\ worker[w].snap \in [ProfileIds -> Snaps]
      /\ found \in [record : BOOLEAN, objs : SUBSET Objects]
  BY <1>1, <1>4 DEF Busy
<1>6. at \in Times
  <2>1. ObjectsOf(p) \in SUBSET Objects /\ stamp \in [Objects -> Times]
    BY <1>1 DEF AllTypes, AuroraTypes, ObjectsOf
  <2>2. Newest(p) \in Times
    BY <2>1, LatestStamp DEF Newest
  <2>3. worker[w].snap[p].at \in Times
    BY <1>5 DEF Snaps
  <2> QED  BY <1>2, <2>2, <2>3
<1>7. /\ snap[p] = [at |-> at, objs |-> ObjectsOf(p)]
      /\ \A q \in ProfileIds \ {p} : snap[q] = worker[w].snap[q]
      /\ snap \in [ProfileIds -> Snaps]
  <2>1. ObjectsOf(p) \in SUBSET Objects
    BY DEF ObjectsOf
  <2>2. [at |-> at, objs |-> ObjectsOf(p)] \in Snaps
    BY <1>6, <2>1 DEF Snaps
  <2> QED  BY <1>3, <1>5, <2>2
<1>8. /\ Resume(w, After(w, "build", p, {}), snap, found) /\ done' = done
      /\ UNCHANGED <<failed, writerVars, dynamoVars, awaited, auroraVars>>
  BY <1>2, <1>3, <1>4 DEF Build, Newest, Unchanged
<1>9. PICK k : /\ StepsTo(w, "build", p, {}, k) /\ WorkTypes'
               /\ k = Idle \/ (k.snap = snap /\ k.found = found /\ k.ids = worker[w].ids)
  <2>1. Joins("build", p, {}) /\ "build" \in Steps /\ {} \in SUBSET (Steps \X ProfileIds)
    BY DEF Joins, Steps
  <2> QED  BY <1>1, <1>5, <1>7, <1>8, <2>1, StepShape
<1>10. k # Idle
  BY <1>9, IdlePlanned DEF StepsTo
<1>11. AllTypes'
  BY <1>1, <1>8, <1>9 DEF AllTypes, WriterTypes, AuroraTypes, CacheTypes, writerVars, dynamoVars,
     auroraVars
<1>12. StepOf(w, "build", p, {}, k)
  BY <1>4, <1>7, <1>8, <1>9, <1>10, <1>11 DEF StepOf, writerVars, dynamoVars
<1>13. SnapOf(w, "build", p, k)
  BY <1>2, <1>7, <1>9, <1>10 DEF SnapOf
<1>14. TablesOf(w, "build", p, {}) /\ QueueOf("build", p)
  BY <1>8 DEF TablesOf, QueueOf, dynamoVars, writerVars
<1> QED  BY <1>12, <1>13, <1>14 DEF StepFacts, Steps

\* SaveRecord, as a step.
LEMMA SaveRecordFacts ==
    ASSUME WorkInv, NEW w \in Workers, NEW p \in ProfileIds, SaveRecord(w, p)
    PROVE  \E s \in Steps : \E more, k : StepFacts(w, s, p, more, k)
<1>1. /\ AllTypes /\ Doing(w, "record", p) /\ "record" \in Steps
           /\ Joins("record", p, {<<"objects", p>>})
      /\ {<<"objects", p>>} \in SUBSET (Steps \X ProfileIds) /\ worker[w] \in Busy
  <2>1. AllTypes /\ Doing(w, "record", p)
    BY DEF SaveRecord, WorkInv
  <2>2. worker[w] \in Busy
    BY <2>1, BusyParts DEF AllTypes, Doing
  <2> QED  BY <2>1, <2>2 DEF Joins, Steps
<1>2. /\ Proceed(w, "record", p, {<<"objects", p>>}) /\ done' = done
      /\ UNCHANGED <<failed, writerVars, items, awaited, auroraVars>>
      /\ cached' = IF cached[p] <= worker[w].snap[p].at
                   THEN [cached EXCEPT ![p] = worker[w].snap[p].at] ELSE cached
  BY DEF SaveRecord, Accepts, Unchanged, Step
<1>3. PICK k : /\ StepsTo(w, "record", p, {<<"objects", p>>}, k) /\ WorkTypes'
               /\ k = Idle \/ (k.snap = worker[w].snap /\ k.found = worker[w].found
                               /\ k.ids = worker[w].ids)
  BY <1>1, <1>2, ProceedShape
<1>4. AllTypes'
  <2>1. worker[w].snap[p].at \in Times
    BY <1>1 DEF Busy, Snaps
  <2>2. cached' \in [ProfileIds -> Times]
    BY <1>1, <1>2, <2>1 DEF AllTypes, CacheTypes
  <2> QED  BY <1>1, <1>2, <1>3, <2>2
       DEF AllTypes, WriterTypes, AuroraTypes, CacheTypes, writerVars, dynamoVars,
     auroraVars
<1>5. StepOf(w, "record", p, {<<"objects", p>>}, k)
  BY <1>1, <1>2, <1>3, <1>4 DEF StepOf, writerVars, dynamoVars, auroraVars
<1>6. SnapOf(w, "record", p, k)
  BY <1>3 DEF SnapOf
<1>7. TablesOf(w, "record", p, {<<"objects", p>>}) /\ QueueOf("record", p)
  <2>1. cached \in [ProfileIds -> Times]
    BY <1>1 DEF AllTypes, CacheTypes
  <2>2. cached'[p] = IF cached[p] <= worker[w].snap[p].at THEN worker[w].snap[p].at ELSE cached[p]
    BY <1>2, <2>1
  <2>3. CASE cached[p] <= worker[w].snap[p].at
    BY <1>2, <2>2, <2>3 DEF TablesOf, QueueOf, writerVars
  <2>4. CASE ~(cached[p] <= worker[w].snap[p].at)
    BY <1>2, <2>2, <2>4 DEF TablesOf, QueueOf, writerVars
  <2> QED  BY <2>3, <2>4
<1> QED  BY <1>1, <1>5, <1>6, <1>7 DEF StepFacts

\* SaveObjects, as a step.
LEMMA SaveObjectsFacts ==
    ASSUME WorkInv, NEW w \in Workers, NEW p \in ProfileIds, SaveObjects(w, p)
    PROVE  \E s \in Steps : \E more, k : StepFacts(w, s, p, more, k)
<1>1. /\ AllTypes /\ Doing(w, "objects", p) /\ "objects" \in Steps /\ Joins("objects", p, {})
      /\ {} \in SUBSET (Steps \X ProfileIds) /\ worker[w] \in Busy
  <2>1. AllTypes /\ Doing(w, "objects", p)
    BY DEF SaveObjects, WorkInv
  <2>2. worker[w] \in Busy
    BY <2>1, BusyParts DEF AllTypes, Doing
  <2> QED  BY <2>1, <2>2 DEF Joins, Steps
<1>2. /\ Proceed(w, "objects", p, {}) /\ done' = done
      /\ UNCHANGED <<failed, writerVars, cached, awaited, auroraVars>>
      /\ items' = [items EXCEPT ![p] = items[p] \cup worker[w].snap[p].objs]
  BY DEF SaveObjects, Unchanged
<1>3. PICK k : /\ StepsTo(w, "objects", p, {}, k) /\ WorkTypes'
               /\ k = Idle \/ (k.snap = worker[w].snap /\ k.found = worker[w].found
                               /\ k.ids = worker[w].ids)
  BY <1>1, <1>2, ProceedShape
<1>4. AllTypes'
  <2>1. worker[w].snap[p].objs \in SUBSET Objects
    BY <1>1 DEF Busy, Snaps
  <2>2. items' \in [ProfileIds -> SUBSET Objects]
    BY <1>1, <1>2, <2>1 DEF AllTypes, CacheTypes
  <2> QED  BY <1>1, <1>2, <1>3, <2>2
       DEF AllTypes, WriterTypes, AuroraTypes, CacheTypes, writerVars, dynamoVars,
     auroraVars
<1>5. StepOf(w, "objects", p, {}, k)
  BY <1>1, <1>2, <1>3, <1>4 DEF StepOf, writerVars, dynamoVars, auroraVars
<1>6. SnapOf(w, "objects", p, k)
  BY <1>3 DEF SnapOf
<1>7. TablesOf(w, "objects", p, {}) /\ QueueOf("objects", p)
  <2>1. items'[p] = items[p] \cup worker[w].snap[p].objs
    BY <1>1, <1>2 DEF AllTypes, CacheTypes
  <2> QED  BY <1>2, <2>1 DEF TablesOf, QueueOf, writerVars
<1> QED  BY <1>1, <1>5, <1>6, <1>7 DEF StepFacts

\* SendProfile, as a step.
LEMMA SendProfileFacts ==
    ASSUME WorkInv, NEW w \in Workers, NEW p \in ProfileIds, SendProfile(w, p)
    PROVE  \E s \in Steps : \E more, k : StepFacts(w, s, p, more, k)
<1>1. /\ AllTypes /\ Doing(w, "message", p) /\ "message" \in Steps /\ Joins("message", p, {})
      /\ {} \in SUBSET (Steps \X ProfileIds) /\ worker[w] \in Busy
  <2>1. AllTypes /\ Doing(w, "message", p)
    BY DEF SendProfile, WorkInv, Send
  <2>2. worker[w] \in Busy
    BY <2>1, BusyParts DEF AllTypes, Doing
  <2> QED  BY <2>1, <2>2 DEF Joins, Steps
<1>2. /\ Proceed(w, "message", p, {}) /\ done' = done /\ queue' = Append(queue, PutMessage(p))
      /\ UNCHANGED <<service, names, stream, index, reported, faults>>
      /\ UNCHANGED <<failed, dynamoVars, awaited, auroraVars>>
  BY DEF SendProfile, Send, Unchanged
<1>3. PICK k : /\ StepsTo(w, "message", p, {}, k) /\ WorkTypes'
               /\ k = Idle \/ (k.snap = worker[w].snap /\ k.found = worker[w].found
                               /\ k.ids = worker[w].ids)
  BY <1>1, <1>2, ProceedShape
<1>4. AllTypes'
  <2>1. PutMessage(p) \in Messages
    BY MessageTypes
  <2>2. PICK m : m = PutMessage(p)
    OBVIOUS
  <2>3. queue' \in Seq(Messages)
    BY <1>1, <1>2, <2>1, <2>2 DEF AllTypes, WriterTypes
  <2> QED  BY <1>1, <1>2, <1>3, <2>3
       DEF AllTypes, WriterTypes, AuroraTypes, CacheTypes, writerVars, dynamoVars,
     auroraVars
<1>5. StepOf(w, "message", p, {}, k)
  BY <1>1, <1>2, <1>3, <1>4 DEF StepOf, writerVars, dynamoVars, auroraVars
<1>6. SnapOf(w, "message", p, k)
  BY <1>3 DEF SnapOf
<1>7. TablesOf(w, "message", p, {}) /\ QueueOf("message", p)
  BY <1>2 DEF TablesOf, QueueOf, dynamoVars
<1> QED  BY <1>1, <1>5, <1>6, <1>7 DEF StepFacts

\* SendDeletion, as a step.
LEMMA SendDeletionFacts ==
    ASSUME WorkInv, NEW w \in Workers, NEW p \in ProfileIds, SendDeletion(w, p)
    PROVE  \E s \in Steps : \E more, k : StepFacts(w, s, p, more, k)
<1>1. /\ AllTypes /\ Doing(w, "withdraw", p) /\ "withdraw" \in Steps /\ Joins("withdraw", p, {})
      /\ {} \in SUBSET (Steps \X ProfileIds) /\ worker[w] \in Busy
  <2>1. AllTypes /\ Doing(w, "withdraw", p)
    BY DEF SendDeletion, WorkInv, Send
  <2>2. worker[w] \in Busy
    BY <2>1, BusyParts DEF AllTypes, Doing
  <2> QED  BY <2>1, <2>2 DEF Joins, Steps
<1>2. /\ Proceed(w, "withdraw", p, {}) /\ done' = done
           /\ queue' = Append(queue, DeleteMessage(p, NumRetries))
      /\ UNCHANGED <<service, names, stream, index, reported, faults>>
      /\ UNCHANGED <<failed, dynamoVars, awaited, auroraVars>>
  BY DEF SendDeletion, Send, Unchanged
<1>3. PICK k : /\ StepsTo(w, "withdraw", p, {}, k) /\ WorkTypes'
               /\ k = Idle \/ (k.snap = worker[w].snap /\ k.found = worker[w].found
                               /\ k.ids = worker[w].ids)
  BY <1>1, <1>2, ProceedShape
<1>4. AllTypes'
  <2>1. DeleteMessage(p, NumRetries) \in Messages
    BY MessageTypes
  <2>2. PICK m : m = DeleteMessage(p, NumRetries)
    OBVIOUS
  <2>3. queue' \in Seq(Messages)
    BY <1>1, <1>2, <2>1, <2>2 DEF AllTypes, WriterTypes
  <2> QED  BY <1>1, <1>2, <1>3, <2>3
       DEF AllTypes, WriterTypes, AuroraTypes, CacheTypes, writerVars, dynamoVars,
     auroraVars
<1>5. StepOf(w, "withdraw", p, {}, k)
  BY <1>1, <1>2, <1>3, <1>4 DEF StepOf, writerVars, dynamoVars, auroraVars
<1>6. SnapOf(w, "withdraw", p, k)
  BY <1>3 DEF SnapOf
<1>7. TablesOf(w, "withdraw", p, {}) /\ QueueOf("withdraw", p)
  BY <1>2 DEF TablesOf, QueueOf, dynamoVars
<1> QED  BY <1>1, <1>5, <1>6, <1>7 DEF StepFacts

\* RemoveFromService, as a step.
LEMMA RemoveFacts ==
    ASSUME WorkInv, NEW w \in Workers, NEW p \in ProfileIds, RemoveFromService(w, p)
    PROVE  \E s \in Steps : \E more, k : StepFacts(w, s, p, more, k)
<1>1. /\ AllTypes /\ Doing(w, "remove", p) /\ "remove" \in Steps /\ Joins("remove", p, {})
      /\ {} \in SUBSET (Steps \X ProfileIds) /\ worker[w] \in Busy
  <2>1. AllTypes /\ Doing(w, "remove", p)
    BY DEF RemoveFromService, WorkInv
  <2>2. worker[w] \in Busy
    BY <2>1, BusyParts DEF AllTypes, Doing
  <2> QED  BY <2>1, <2>2 DEF Joins, Steps
<1>2. /\ Proceed(w, "remove", p, {}) /\ done' = done
      /\ UNCHANGED <<queue, names, stream, index, reported, faults>>
      /\ UNCHANGED <<dynamoVars, awaited, auroraVars>>
      /\ \/ failed' = failed \cup {p} /\ service' = service
         \/ service' = [service EXCEPT ![p] = NoName] /\ failed' = failed
  BY DEF RemoveFromService
<1>3. PICK k : /\ StepsTo(w, "remove", p, {}, k) /\ WorkTypes'
               /\ k = Idle \/ (k.snap = worker[w].snap /\ k.found = worker[w].found
                               /\ k.ids = worker[w].ids)
  BY <1>1, <1>2, ProceedShape
<1>4. AllTypes'
  <2>1. service' \in [ProfileIds -> Names \cup {NoName}] /\ failed' \subseteq ProfileIds
    BY <1>1, <1>2 DEF AllTypes, WriterTypes, CacheTypes
  <2> QED  BY <1>1, <1>2, <1>3, <2>1
       DEF AllTypes, WriterTypes, AuroraTypes, CacheTypes, writerVars, dynamoVars,
     auroraVars
<1>5. StepOf(w, "remove", p, {}, k)
  <2>1. /\ \A q \in ProfileIds \ {p} : service'[q] = service[q]
        /\ failed \subseteq failed' /\ failed' \subseteq failed \cup {p}
    BY <1>1, <1>2 DEF AllTypes, WriterTypes
  <2>2. cached' = cached /\ items' = items
    BY <1>2 DEF dynamoVars
  <2> QED  BY <1>2, <1>3, <1>4, <2>1, <2>2 DEF StepOf
<1>6. SnapOf(w, "remove", p, k)
  BY <1>3 DEF SnapOf
<1>7. TablesOf(w, "remove", p, {}) /\ QueueOf("remove", p)
  <2>1. p \in failed' \/ service'[p] = NoName
    BY <1>1, <1>2 DEF AllTypes, WriterTypes
  <2> QED  BY <1>2, <2>1 DEF TablesOf, QueueOf, dynamoVars
<1> QED  BY <1>1, <1>5, <1>6, <1>7 DEF StepFacts

\* ClearRecords, as a step: it deletes what there is, because nobody else writes the records.
LEMMA ClearFacts ==
    ASSUME WorkInv, NEW w \in Workers, NEW p \in ProfileIds, ClearRecords(w, p)
    PROVE  \E s \in Steps : \E more, k : StepFacts(w, s, p, more, k)
<1>1. /\ AllTypes /\ Doing(w, "clear", p) /\ "clear" \in Steps /\ Joins("clear", p, {})
      /\ {} \in SUBSET (Steps \X ProfileIds) /\ worker[w] \in Busy
  <2>1. AllTypes /\ Doing(w, "clear", p)
    BY DEF ClearRecords, WorkInv
  <2>2. worker[w] \in Busy
    BY <2>1, BusyParts DEF AllTypes, Doing
  <2> QED  BY <2>1, <2>2 DEF Joins, Steps
<1>2. /\ Proceed(w, "clear", p, {}) /\ done' = done
      /\ UNCHANGED <<failed, writerVars, awaited, auroraVars>>
      /\ cached' = IF worker[w].found.record THEN [cached EXCEPT ![p] = 0] ELSE cached
      /\ items' = [items EXCEPT ![p] = items[p] \ worker[w].found.objs]
  BY DEF ClearRecords, Unchanged
<1>3. PICK k : /\ StepsTo(w, "clear", p, {}, k) /\ WorkTypes'
               /\ k = Idle \/ (k.snap = worker[w].snap /\ k.found = worker[w].found
                               /\ k.ids = worker[w].ids)
  BY <1>1, <1>2, ProceedShape
<1>4. AllTypes'
  <2>1. cached' \in [ProfileIds -> Times] /\ items' \in [ProfileIds -> SUBSET Objects]
    BY <1>1, <1>2, TimesFacts DEF AllTypes, CacheTypes
  <2> QED  BY <1>1, <1>2, <1>3, <2>1
       DEF AllTypes, WriterTypes, AuroraTypes, CacheTypes, writerVars, dynamoVars,
     auroraVars
<1>5. StepOf(w, "clear", p, {}, k)
  BY <1>1, <1>2, <1>3, <1>4 DEF StepOf, writerVars, dynamoVars, auroraVars
<1>6. SnapOf(w, "clear", p, k)
  BY <1>3 DEF SnapOf
<1>7. TablesOf(w, "clear", p, {}) /\ QueueOf("clear", p)
  <2>1. worker[w].found = Found(p)
    BY <1>3 DEF StepsTo, WorkInv, Abreast
  <2>2. worker[w].found.record = (cached[p] # 0) /\ worker[w].found.objs = items[p]
    BY <2>1 DEF Found
  <2>3. cached'[p] = 0 /\ items'[p] = {}
    <3>1. cached \in [ProfileIds -> Times] /\ items \in [ProfileIds -> SUBSET Objects]
      BY <1>1 DEF AllTypes, CacheTypes
    <3>2. CASE cached[p] = 0
      BY <1>2, <2>2, <3>1, <3>2
    <3>3. CASE cached[p] # 0
      BY <1>2, <2>2, <3>1, <3>3
    <3> QED  BY <3>2, <3>3
  <2> QED  BY <1>2, <2>3 DEF TablesOf, QueueOf, writerVars
<1> QED  BY <1>1, <1>5, <1>6, <1>7 DEF StepFacts

\* FindRecords, as a step.
LEMMA FindFacts ==
    ASSUME WorkInv, NEW w \in Workers, NEW p \in ProfileIds, FindRecords(w, p)
    PROVE  \E s \in Steps : \E more, k : StepFacts(w, s, p, more, k)
<1>1. /\ AllTypes /\ Doing(w, "find", p) /\ "find" \in Steps /\ Joins("find", p, {})
      /\ {} \in SUBSET (Steps \X ProfileIds) /\ worker[w] \in Busy
  <2>1. AllTypes /\ Doing(w, "find", p)
    BY DEF FindRecords, WorkInv
  <2>2. worker[w] \in Busy
    BY <2>1, BusyParts DEF AllTypes, Doing
  <2> QED  BY <2>1, <2>2 DEF Joins, Steps
<1>2. /\ Resume(w, After(w, "find", p, {}), worker[w].snap, Found(p)) /\ done' = done
      /\ UNCHANGED <<failed, writerVars, dynamoVars, awaited, auroraVars>>
  BY DEF FindRecords, Unchanged
<1>3. PICK snap, found : snap = worker[w].snap /\ found = Found(p)
  OBVIOUS
<1>4. snap \in [ProfileIds -> Snaps] /\ found \in [record : BOOLEAN, objs : SUBSET Objects]
  BY <1>1, <1>3 DEF Busy, Found, AllTypes, CacheTypes
<1>5. PICK k : /\ StepsTo(w, "find", p, {}, k) /\ WorkTypes'
               /\ k = Idle \/ (k.snap = snap /\ k.found = found /\ k.ids = worker[w].ids)
  <2>1. Resume(w, After(w, "find", p, {}), snap, found)
    BY <1>2, <1>3
  <2> QED  BY <1>1, <1>2, <1>4, <2>1, StepShape
<1>6. AllTypes'
  BY <1>1, <1>2, <1>5 DEF AllTypes, WriterTypes, AuroraTypes, CacheTypes, writerVars, dynamoVars,
     auroraVars
<1>7. StepOf(w, "find", p, {}, k)
  BY <1>2, <1>3, <1>5, <1>6 DEF StepOf, writerVars, dynamoVars
<1>8. SnapOf(w, "find", p, k)
  BY <1>3, <1>5 DEF SnapOf
<1>9. TablesOf(w, "find", p, {}) /\ QueueOf("find", p)
  BY <1>2 DEF TablesOf, QueueOf, dynamoVars, writerVars
<1> QED  BY <1>1, <1>7, <1>8, <1>9 DEF StepFacts

\* Updates, as a step.
LEMMA UpdatesFacts ==
    ASSUME WorkInv, NEW w \in Workers, NEW p \in ProfileIds, Updates(w, p)
    PROVE  \E s \in Steps : \E more, k : StepFacts(w, s, p, more, k)
<1>1. AllTypes /\ Doing(w, "update", p) /\ "update" \in Steps
  BY DEF Updates, WorkInv, Steps
<1>2. PICK more : /\ more \in SUBSET (Steps \X ProfileIds) /\ Joins("update", p, more)
                  /\ Proceed(w, "update", p, more)
                  /\ p \in Skipped \cup awaited' \/ more = {<<"message", p>>, <<"record", p>>}
                  /\ awaited' \in {awaited, awaited \cup {p}}
  <2>1. CASE /\ Proceed(w, "update", p, IF p \in Skipped THEN {}
                                        ELSE Step("message", p) \cup Step("record", p))
             /\ awaited' = awaited
    <3>1. CASE p \in Skipped
      <4>1. Proceed(w, "update", p, {})
        BY <2>1, <3>1
      <4> QED  BY <2>1, <3>1, <4>1 DEF Joins
    <3>2. CASE p \notin Skipped
      <4>1. Step("message", p) \cup Step("record", p) = {<<"message", p>>, <<"record", p>>}
        BY DEF Step
      <4>2. Proceed(w, "update", p, {<<"message", p>>, <<"record", p>>})
        BY <2>1, <3>2, <4>1
      <4>3. {<<"message", p>>, <<"record", p>>} \in SUBSET (Steps \X ProfileIds)
        BY DEF Steps
      <4> QED  BY <2>1, <4>2, <4>3 DEF Joins
    <3> QED  BY <3>1, <3>2
  <2>2. CASE Proceed(w, "update", p, {}) /\ awaited' = awaited \cup {p}
    BY <2>2 DEF Joins
  <2> QED  BY <2>1, <2>2 DEF Updates
<1>3. done' = done /\ UNCHANGED <<failed, writerVars, dynamoVars, auroraVars>>
  BY DEF Updates, Unchanged
<1>4. PICK k : /\ StepsTo(w, "update", p, more, k) /\ WorkTypes'
               /\ k = Idle \/ (k.snap = worker[w].snap /\ k.found = worker[w].found
                               /\ k.ids = worker[w].ids)
  BY <1>1, <1>2, <1>3, ProceedShape
<1>5. AllTypes'
  BY <1>1, <1>2, <1>3, <1>4 DEF AllTypes, WriterTypes, AuroraTypes, CacheTypes, writerVars,
     dynamoVars, auroraVars
<1>6. StepOf(w, "update", p, more, k)
  BY <1>2, <1>3, <1>4, <1>5 DEF StepOf, writerVars, dynamoVars
<1>7. SnapOf(w, "update", p, k)
  BY <1>4 DEF SnapOf
<1>8. TablesOf(w, "update", p, more) /\ QueueOf("update", p)
  BY <1>2, <1>3 DEF TablesOf, QueueOf, dynamoVars, writerVars
<1> QED  BY <1>1, <1>6, <1>7, <1>8 DEF StepFacts

\* Whatever a worker does next is a step with these facts.
LEMMA ContinueFacts ==
    ASSUME WorkInv, NEW w \in Workers, Continue(w)
    PROVE  \E s \in Steps, p \in ProfileIds : \E more, k : StepFacts(w, s, p, more, k)
  BY ReadRowFacts, BuildFacts, UpdatesFacts, SaveRecordFacts, SaveObjectsFacts, SendProfileFacts,
     SendDeletionFacts, FindFacts, ClearFacts, RemoveFacts DEF Continue

\* It keeps the invariant of the work under way.
LEMMA ContinueKeepsWork ==
    ASSUME WorkInv, NEW w \in Workers, NEW s \in Steps, NEW p \in ProfileIds, NEW more, NEW k,
           StepFacts(w, s, p, more, k)
    PROVE  WorkInv'
<1>1. StepOf(w, s, p, more, k) /\ SnapOf(w, s, p, k) /\ TablesOf(w, s, p, more)
  BY DEF StepFacts
<1>2. StepsTo(w, s, p, more, k) /\ AllTypes' /\ UNCHANGED auroraVars
  BY <1>1 DEF StepOf
<1>3. \A q \in ProfileIds \ {p} : Found(q)' = Found(q)
  BY <1>1 DEF StepOf, Found
<1>4. Found(p)' = Found(p) \/ s \in {"record", "objects", "clear"}
  BY <1>1, Zenon DEF TablesOf, Found
<1>5. k = Idle \/ k.found = (IF s = "find" THEN Found(p) ELSE worker[w].found)
  BY <1>1 DEF StepOf
<1>6. ASSUME NEW q \in k.ids
      PROVE  k.snap[q].at <= row[q] /\ k.snap[q].objs \subseteq ObjectsOf(q)
  <2>1. k # Idle
    BY IdlePlanned
  <2>2. q \in worker[w].ids /\ q \in ProfileIds
    BY <1>2 DEF StepsTo
  <2>3. /\ worker[w].snap[q].at <= row[q]
        /\ worker[w].snap[q].objs \subseteq ObjectsOf(q)
    BY <2>2 DEF WorkInv, Abreast
  <2>4. CASE q # p \/ s \notin {"row", "build"}
    <3>1. k.snap[q] = worker[w].snap[q]
      BY <1>1, <2>1, <2>2, <2>4 DEF StepOf, SnapOf
    <3> QED  BY <2>3, <3>1
  <2>5. CASE q = p /\ s = "row"
    <3>1. k.snap[p] = [at |-> row[p], objs |-> worker[w].snap[p].objs] /\ row[p] \in Nat
      BY <1>1, <2>5, TimesFacts DEF SnapOf, WorkInv, AllTypes, AuroraTypes
    <3> QED  BY <2>3, <2>5, <3>1
  <2>6. CASE q = p /\ s = "build"
    <3>1. /\ k.snap[p].objs = ObjectsOf(p)
          /\ k.snap[p].at = IF worker[w].snap[p].at # 0 THEN worker[w].snap[p].at ELSE Newest(p)
      BY <1>1, <2>6 DEF SnapOf
    <3>2. Newest(p) <= row[p]
      BY NewestBound DEF WorkInv
    <3> QED  BY <2>3, <2>6, <3>1, <3>2
  <2> QED  BY <2>4, <2>5, <2>6
<1> QED  BY <1>2, <1>3, <1>4, <1>5, <1>6, StepKeepsWork
----------------------------------------------------------------------------
(* Types of the steps, whatever other operations do *)

\* A worker that goes on keeps the types, kept apart or not.
LEMMA ResumeTypes ==
    ASSUME AllTypes, NEW w \in Workers, NEW s \in Steps, NEW p \in ProfileIds, Doing(w, s, p),
           NEW more \in SUBSET (Steps \X ProfileIds), NEW snap \in [ProfileIds -> Snaps],
           NEW found \in [record : BOOLEAN, objs : SUBSET Objects],
           Resume(w, After(w, s, p, more), snap, found), done' = done
    PROVE  WorkTypes'
<1>1. After(w, s, p, more) \in Stages /\ ~IsIdle(w)
  BY DoingFacts
<1>2. PICK stages : stages = After(w, s, p, more)
  OBVIOUS
<1>3. stages \in Stages /\ Resume(w, stages, snap, found)
  BY <1>1, <1>2
<1> QED  BY <1>1, <1>3, Resumes

\* The same of a step that reads nothing.
LEMMA ProceedTypes ==
    ASSUME AllTypes, NEW w \in Workers, NEW s \in Steps, NEW p \in ProfileIds, Doing(w, s, p),
           NEW more \in SUBSET (Steps \X ProfileIds), Proceed(w, s, p, more), done' = done
    PROVE  WorkTypes' /\ worker[w] \in Busy
<1>1. worker[w] \in Busy
  BY BusyParts DEF AllTypes, Doing
<1>2. PICK snap, found : snap = worker[w].snap /\ found = worker[w].found
  OBVIOUS
<1>3. /\ snap \in [ProfileIds -> Snaps] /\ found \in [record : BOOLEAN, objs : SUBSET Objects]
      /\ Resume(w, After(w, s, p, more), snap, found)
  BY <1>1, <1>2 DEF Busy, Proceed
<1> QED  BY <1>1, <1>3, ResumeTypes

\* A worker that ends with an error.
LEMMA EndTypes ==
    ASSUME AllTypes, NEW w \in Workers, worker' = [worker EXCEPT ![w] = Idle], done' = done
    PROVE  WorkTypes'
  BY DEF AllTypes, WorkTypes

\* ReadRow keeps the types.
LEMMA ReadRowTypes ==
    ASSUME AllTypes, NEW w \in Workers, NEW p \in ProfileIds, ReadRow(w, p)
    PROVE  AllTypes'
<1>1. /\ Doing(w, "row", p) /\ done' = done
      /\ UNCHANGED <<writerVars, dynamoVars, awaited, auroraVars>>
  BY DEF ReadRow
<1>2. worker[w] \in Busy
  BY <1>1, BusyParts DEF AllTypes, Doing
<1>3. CASE connect[p] = Nobody
  <2>1. worker' = [worker EXCEPT ![w] = Idle] /\ failed' = failed \cup {p}
    BY <1>3 DEF ReadRow
  <2>2. WorkTypes'
    BY <1>1, <2>1, EndTypes
  <2> QED  BY <1>1, <2>1, <2>2 DEF AllTypes, WriterTypes, AuroraTypes, CacheTypes, writerVars,
             dynamoVars, auroraVars
<1>4. CASE connect[p] # Nobody
  <2>1. PICK snap, found :
         /\ snap = [worker[w].snap EXCEPT ![p].at = row[connect[p]]]
         /\ found = worker[w].found
    OBVIOUS
  <2>2. row[connect[p]] \in Times
    BY <1>4 DEF AllTypes, AuroraTypes
  <2>3. /\ snap \in [ProfileIds -> Snaps] /\ found \in [record : BOOLEAN, objs : SUBSET Objects]
        /\ Resume(w, After(w, "row", p, {}), snap, found) /\ failed' = failed
    BY <1>2, <1>4, <2>1, <2>2 DEF Busy, Snaps, ReadRow
  <2>4. {} \in SUBSET (Steps \X ProfileIds) /\ "row" \in Steps
    BY DEF Steps
  <2>5. WorkTypes'
    BY <1>1, <2>3, <2>4, ResumeTypes
  <2> QED  BY <1>1, <2>3, <2>5 DEF AllTypes, WriterTypes, AuroraTypes, CacheTypes, writerVars,
             dynamoVars, auroraVars
<1> QED  BY <1>3, <1>4

\* Build keeps the types.
LEMMA BuildTypes ==
    ASSUME AllTypes, NEW w \in Workers, NEW p \in ProfileIds, Build(w, p)
    PROVE  AllTypes'
<1>1. /\ Doing(w, "build", p) /\ done' = done
      /\ UNCHANGED <<writerVars, dynamoVars, awaited, auroraVars, failed>>
  BY DEF Build, Unchanged
<1>2. worker[w] \in Busy
  BY <1>1, BusyParts DEF AllTypes, Doing
<1>3. PICK at : at = IF worker[w].snap[p].at # 0 THEN worker[w].snap[p].at ELSE Newest(p)
  OBVIOUS
<1>4. PICK snap, found :
         /\ snap = [worker[w].snap EXCEPT ![p] = [at |-> at, objs |-> ObjectsOf(p)]]
         /\ found = worker[w].found
  OBVIOUS
<1>5. worker[w].snap \in [ProfileIds -> Snaps]
        /\ found \in [record : BOOLEAN, objs : SUBSET Objects]
  BY <1>2, <1>4 DEF Busy
<1>6. at \in Times /\ ObjectsOf(p) \in SUBSET Objects
  <2>1. ObjectsOf(p) \in SUBSET Objects /\ stamp \in [Objects -> Times]
    BY DEF AllTypes, AuroraTypes, ObjectsOf
  <2>2. Newest(p) \in Times
    BY <2>1, LatestStamp DEF Newest
  <2>3. worker[w].snap[p].at \in Times
    BY <1>5 DEF Snaps
  <2> QED  BY <1>3, <2>1, <2>2, <2>3
<1>7. snap \in [ProfileIds -> Snaps]
  <2>1. [at |-> at, objs |-> ObjectsOf(p)] \in Snaps
    BY <1>6 DEF Snaps
  <2> QED  BY <1>4, <1>5, <2>1
<1>8. Resume(w, After(w, "build", p, {}), snap, found)
  BY <1>3, <1>4 DEF Build, Newest
<1>9. {} \in SUBSET (Steps \X ProfileIds) /\ "build" \in Steps
  BY DEF Steps
<1>10. WorkTypes'
  BY <1>1, <1>5, <1>7, <1>8, <1>9, ResumeTypes
<1> QED  BY <1>1, <1>10 DEF AllTypes, WriterTypes, AuroraTypes, CacheTypes, writerVars,
           dynamoVars, auroraVars

\* FindRecords keeps the types.
LEMMA FindTypes ==
    ASSUME AllTypes, NEW w \in Workers, NEW p \in ProfileIds, FindRecords(w, p)
    PROVE  AllTypes'
<1>1. /\ Doing(w, "find", p) /\ done' = done
      /\ UNCHANGED <<writerVars, dynamoVars, awaited, auroraVars, failed>>
      /\ Resume(w, After(w, "find", p, {}), worker[w].snap, Found(p))
  BY DEF FindRecords, Unchanged
<1>2. worker[w] \in Busy
  BY <1>1, BusyParts DEF AllTypes, Doing
<1>3. PICK snap, found : snap = worker[w].snap /\ found = Found(p)
  OBVIOUS
<1>4. /\ snap \in [ProfileIds -> Snaps] /\ found \in [record : BOOLEAN, objs : SUBSET Objects]
      /\ Resume(w, After(w, "find", p, {}), snap, found)
  BY <1>1, <1>2, <1>3 DEF Busy, Found, AllTypes, CacheTypes
<1>5. {} \in SUBSET (Steps \X ProfileIds) /\ "find" \in Steps
  BY DEF Steps
<1>6. WorkTypes'
  BY <1>1, <1>4, <1>5, ResumeTypes
<1> QED  BY <1>1, <1>6 DEF AllTypes, WriterTypes, AuroraTypes, CacheTypes, writerVars,
           dynamoVars, auroraVars

\* The other steps only go on.
LEMMA GoOnTypes ==
    ASSUME AllTypes, NEW w \in Workers, NEW p \in ProfileIds,
           \/ Updates(w, p) \/ SaveRecord(w, p) \/ SaveObjects(w, p) \/ SendProfile(w, p)
           \/ SendDeletion(w, p) \/ ClearRecords(w, p) \/ RemoveFromService(w, p)
    PROVE  AllTypes'
<1>1. done' = done /\ UNCHANGED auroraVars
  BY DEF Updates, SaveRecord, SaveObjects, SendProfile, SendDeletion, Send, ClearRecords,
     RemoveFromService, Unchanged
<1>2. \E s \in Steps, more \in SUBSET (Steps \X ProfileIds) :
         Doing(w, s, p) /\ Proceed(w, s, p, more)
  <2>1. /\ {} \in SUBSET (Steps \X ProfileIds)
        /\ {"update", "record", "objects", "message", "withdraw", "clear",
             "remove"} \subseteq Steps
        /\ \A s \in Steps : Step(s, p) \in SUBSET (Steps \X ProfileIds)
    BY DEF Steps, Step
  <2>2. CASE Updates(w, p)
    <3>1. PICK more : more = IF p \in Skipped THEN {} ELSE Step("message", p)
            \cup Step("record", p)
      OBVIOUS
    <3>2. more \in SUBSET (Steps \X ProfileIds)
      BY <3>1 DEF Steps, Step
    <3>3. Doing(w, "update", p) /\ (Proceed(w, "update", p, more) \/ Proceed(w, "update", p, {}))
      BY <2>2, <3>1 DEF Updates
    <3> QED  BY <2>1, <3>2, <3>3
  <2>3. CASE SaveRecord(w, p)
    <3>1. Step("objects", p) \in SUBSET (Steps \X ProfileIds)
      BY DEF Steps, Step
    <3> QED  BY <2>1, <2>3, <3>1 DEF SaveRecord
  <2> QED  BY <2>1, <2>2, <2>3 DEF SaveObjects, SendProfile, SendDeletion, Send, ClearRecords,
             RemoveFromService
<1>3. WorkTypes' /\ worker[w] \in Busy
  BY <1>1, <1>2, ProceedTypes
<1>4. /\ worker[w].snap[p].at \in Times /\ worker[w].snap[p].objs \in SUBSET Objects
      /\ worker[w].found.objs \in SUBSET Objects
  BY <1>3 DEF Busy, Snaps
<1>5. CacheTypes'
  <2>1. cached' \in [ProfileIds -> Times]
    <3>1. \/ cached' = cached \/ cached' = [cached EXCEPT ![p] = worker[w].snap[p].at]
          \/ cached' = [cached EXCEPT ![p] = 0]
      BY DEF Updates, SaveRecord, SaveObjects, SendProfile, SendDeletion, Send, ClearRecords,
         RemoveFromService, dynamoVars
    <3> QED  BY <1>4, <3>1, TimesFacts DEF AllTypes, CacheTypes
  <2>2. items' \in [ProfileIds -> SUBSET Objects]
    <3>1. \/ items' = items \/ items' = [items EXCEPT ![p] = @ \cup worker[w].snap[p].objs]
          \/ items' = [items EXCEPT ![p] = @ \ worker[w].found.objs]
      BY DEF Updates, SaveRecord, SaveObjects, SendProfile, SendDeletion, Send, ClearRecords,
         RemoveFromService, dynamoVars
    <3> QED  BY <1>4, <3>1 DEF AllTypes, CacheTypes
  <2>3. awaited' \in {awaited, awaited \cup {p}} /\ failed' \in {failed, failed \cup {p}}
    BY DEF Updates, SaveRecord, SaveObjects, SendProfile, SendDeletion, Send, ClearRecords,
       RemoveFromService, Unchanged
  <2> QED  BY <2>1, <2>2, <2>3 DEF AllTypes, CacheTypes
<1>6. WriterTypes'
  <2>1. /\ names' = names /\ stream' = stream /\ index' = index
        /\ reported' = reported /\ faults' = faults
        /\ service' = service \/ service' = [service EXCEPT ![p] = NoName]
        /\ \E m \in Messages : queue' = queue \/ queue' = Append(queue, m)
    BY MessageTypes DEF Updates, SaveRecord, SaveObjects, SendProfile, SendDeletion, Send,
       ClearRecords, RemoveFromService, writerVars
  <2>2. queue' \in Seq(Messages)
    BY <2>1 DEF AllTypes, WriterTypes
  <2> QED  BY <2>1, <2>2 DEF AllTypes, WriterTypes
<1> QED  BY <1>1, <1>3, <1>5, <1>6 DEF AllTypes, AuroraTypes, auroraVars

\* An operation that fails keeps the types.
LEMMA FailsTypes ==
    ASSUME AllTypes, NEW w \in Workers, Fails(w)
    PROVE  AllTypes'
<1>1. /\ worker' = [worker EXCEPT ![w] = Idle] /\ done' = done /\ Fault /\ ~IsIdle(w)
      /\ failed' \in {failed, failed \cup worker[w].ids}
      /\ UNCHANGED <<queue, service, names, stream, index, reported, dynamoVars, awaited>>
      /\ UNCHANGED auroraVars
  BY DEF Fails
<1>2. worker[w].ids \subseteq ProfileIds
  BY <1>1, BusyParts DEF AllTypes
<1>3. WorkTypes'
  BY <1>1, EndTypes
<1>4. faults' \in 0 .. MaxFaults
  BY <1>1, WriterBounds DEF Fault, AllTypes, WriterTypes
<1> QED  BY <1>1, <1>2, <1>3, <1>4 DEF AllTypes, WriterTypes, AuroraTypes, CacheTypes,
           dynamoVars, auroraVars
----------------------------------------------------------------------------
(* The queue *)

\* A sequence without its element i.
LEMMA RemoveShape ==
    ASSUME NEW S, NEW q \in Seq(S), NEW i \in 1 .. Len(q), NEW r, r = RemoveAt(q, i)
    PROVE  /\ r \in Seq(S) /\ Len(q) \in Nat /\ Len(r) \in Nat /\ Len(r) = Len(q) - 1
           /\ \A k \in 1 .. Len(q) - 1 : r[k] = IF k < i THEN q[k] ELSE q[k + 1]
<1>1. Len(q) \in Nat /\ \A k \in 1 .. Len(q) : q[k] \in S
  OBVIOUS
<1>2. PICK a, b, n : a = SubSeq(q, 1, i - 1) /\ b = SubSeq(q, i + 1, Len(q)) /\ n = Len(q)
  OBVIOUS
<1>3. /\ a \in Seq(S) /\ Len(a) = i - 1 /\ \A k \in 1 .. i - 1 : a[k] = q[k]
  <2>1. 1 \in Int /\ i - 1 \in Int /\ \A k \in 1 .. i - 1 : q[k] \in S
    BY <1>1
  <2>2. /\ a \in Seq(S) /\ Len(a) = IF 1 <= i - 1 THEN (i - 1) - 1 + 1 ELSE 0
        /\ \A k \in 1 .. (i - 1) - 1 + 1 : a[k] = q[1 + k - 1]
    BY <1>2, <2>1, SubSeqProperties
  <2>3. \A k \in 1 .. i - 1 : k \in 1 .. (i - 1) - 1 + 1 /\ 1 + k - 1 = k
    BY <1>1
  <2> QED  BY <1>1, <2>2, <2>3
<1>4. /\ b \in Seq(S) /\ Len(b) = n - i /\ \A k \in 1 .. n - i : b[k] = q[i + k]
  <2>1. i + 1 \in Int /\ n \in Int /\ \A k \in i + 1 .. n : q[k] \in S
    BY <1>1, <1>2
  <2>2. /\ b \in Seq(S) /\ Len(b) = IF i + 1 <= n THEN n - (i + 1) + 1 ELSE 0
        /\ \A k \in 1 .. n - (i + 1) + 1 : b[k] = q[(i + 1) + k - 1]
    BY <1>2, <2>1, SubSeqProperties
  <2>3. \A k \in 1 .. n - i : k \in 1 .. n - (i + 1) + 1 /\ (i + 1) + k - 1 = i + k
    BY <1>1, <1>2
  <2> QED  BY <1>1, <1>2, <2>2, <2>3
<1>5. r = a \o b
  BY <1>2 DEF RemoveAt
<1>6. /\ r \in Seq(S) /\ Len(r) = Len(a) + Len(b)
      /\ \A k \in 1 .. Len(a) + Len(b) : r[k] = IF k <= Len(a) THEN a[k] ELSE b[k - Len(a)]
  BY <1>3, <1>4, <1>5, ConcatProperties
<1>7. Len(r) = n - 1 /\ n \in Nat /\ n >= 1
  BY <1>1, <1>2, <1>3, <1>4, <1>6
<1>8. ASSUME NEW k \in 1 .. n - 1  PROVE r[k] = IF k < i THEN q[k] ELSE q[k + 1]
  <2>1. CASE k < i
    <3>1. k \in 1 .. i - 1 /\ k <= Len(a) /\ k \in 1 .. Len(a) + Len(b)
      BY <1>3, <1>4, <1>7, <2>1
    <3> QED  BY <1>3, <1>6, <2>1, <3>1
  <2>2. CASE ~(k < i)
    <3>1. /\ k - Len(a) \in 1 .. n - i /\ ~(k <= Len(a)) /\ k \in 1 .. Len(a) + Len(b)
          /\ i + (k - Len(a)) = k + 1
      BY <1>3, <1>4, <1>7, <2>2
    <3> QED  BY <1>4, <1>6, <2>2, <3>1
  <2> QED  BY <2>1, <2>2
<1>9. /\ r \in Seq(S) /\ Len(q) \in Nat /\ Len(r) \in Nat /\ Len(r) = Len(q) - 1
  <2>1. n = Len(q) /\ Len(r) = n - 1 /\ n \in Nat /\ n >= 1
    BY <1>2, <1>7
  <2>2. n - 1 \in Nat
    BY <2>1
  <2>3. r \in Seq(S)
    BY <1>6
  <2> QED  BY <2>1, <2>2, <2>3, Zenon
<1>10. \A k \in 1 .. Len(q) - 1 : r[k] = IF k < i THEN q[k] ELSE q[k + 1]
  BY <1>2, <1>8
<1> QED  BY <1>9, <1>10

\* What stays when a message is taken.
LEMMA QueueShrinks ==
    ASSUME NEW q \in Seq(Messages), NEW i \in 1 .. Len(q), NEW r, r = RemoveAt(q, i), NEW p
    PROVE  /\ r \in Seq(Messages)
           /\ AboutIn(r, p) => AboutIn(q, p)
           /\ \A m : WaitingIn(r, p, m) => WaitingIn(q, p, m)
           /\ \A m : WaitingIn(q, p, m) /\ ~(q[i].request = m /\ q[i].id = p) =>
                        WaitingIn(r, p, m)
           /\ DeletionLastIn(q, p) /\ ~(q[i].request = "delete_profile" /\ q[i].id = p) =>
                 DeletionLastIn(r, p)
           /\ DeletionLastIn(q, p) /\ i = 1 =>
                 DeletionLastIn(r, p) \/ ~WaitingIn(r, p, "put_profile")
<1>1. /\ r \in Seq(Messages) /\ Len(q) \in Nat /\ Len(r) \in Nat /\ Len(r) = Len(q) - 1
      /\ \A k \in 1 .. Len(q) - 1 : r[k] = IF k < i THEN q[k] ELSE q[k + 1]
  BY RemoveShape
<1>2. ASSUME NEW k \in 1 .. Len(r)
      PROVE  \E l \in 1 .. Len(q) : r[k] = q[l] /\ l = IF k < i THEN k ELSE k + 1
  <2>1. CASE k < i
    BY <1>1, <2>1
  <2>2. CASE ~(k < i)
    BY <1>1, <2>2
  <2> QED  BY <2>1, <2>2
<1>3. ASSUME NEW l \in 1 .. Len(q), l # i
      PROVE  \E k \in 1 .. Len(r) : r[k] = q[l] /\ l = IF k < i THEN k ELSE k + 1
  <2>1. CASE l < i
    BY <1>1, <2>1
  <2>2. CASE l > i
    <3>1. l - 1 \in 1 .. Len(r) /\ ~(l - 1 < i) /\ (l - 1) + 1 = l
      BY <1>1, <2>2
    <3> QED  BY <1>1, <3>1
  <2> QED  BY <1>1, <1>3, <2>1, <2>2
<1>4. AboutIn(r, p) => AboutIn(q, p)
  BY <1>2 DEF AboutIn
<1>5. \A m : WaitingIn(r, p, m) => WaitingIn(q, p, m)
  BY <1>2 DEF WaitingIn
<1>6. \A m : WaitingIn(q, p, m) /\ ~(q[i].request = m /\ q[i].id = p) => WaitingIn(r, p, m)
  BY <1>3 DEF WaitingIn
<1>7. ASSUME NEW k \in 1 .. Len(q), q[k].request = "delete_profile", q[k].id = p, k # i,
             \A l \in 1 .. Len(q) : q[l].request = "put_profile" /\ q[l].id = p => l < k
      PROVE  DeletionLastIn(r, p)
  <2>1. PICK j \in 1 .. Len(r) : r[j] = q[k] /\ k = IF j < i THEN j ELSE j + 1
    BY <1>3, <1>7
  <2>2. ASSUME NEW h \in 1 .. Len(r), r[h].request = "put_profile", r[h].id = p  PROVE h < j
    <3>1. PICK l \in 1 .. Len(q) : r[h] = q[l] /\ l = IF h < i THEN h ELSE h + 1
      BY <1>2
    <3>2. l < k
      BY <1>7, <2>2, <3>1
    <3> QED  BY <1>1, <2>1, <3>1, <3>2
  <2> QED  BY <1>7, <2>1, <2>2 DEF DeletionLastIn
<1>8. DeletionLastIn(q, p) /\ ~(q[i].request = "delete_profile" /\ q[i].id = p) =>
         DeletionLastIn(r, p)
  BY <1>7 DEF DeletionLastIn
<1>9. ASSUME DeletionLastIn(q, p), i = 1
      PROVE  DeletionLastIn(r, p) \/ ~WaitingIn(r, p, "put_profile")
  <2>1. PICK k \in 1 .. Len(q) :
           /\ q[k].request = "delete_profile" /\ q[k].id = p
           /\ \A l \in 1 .. Len(q) : q[l].request = "put_profile" /\ q[l].id = p => l < k
    BY <1>9 DEF DeletionLastIn
  <2>2. CASE k # i
    BY <1>7, <2>1, <2>2
  <2>3. CASE k = i
    <3>1. ~WaitingIn(q, p, "put_profile")
      <4> SUFFICES ASSUME NEW l \in 1 .. Len(q), q[l].request = "put_profile", q[l].id = p
                   PROVE  FALSE
        BY DEF WaitingIn
      <4> QED  BY <1>1, <1>9, <2>1, <2>3
    <3> QED  BY <1>5, <3>1
  <2> QED  BY <2>2, <2>3
<1> QED  BY <1>1, <1>4, <1>5, <1>6, <1>8, <1>9

\* What is there when a message is sent.
LEMMA QueueGrows ==
    ASSUME NEW q \in Seq(Messages), NEW m \in Messages, NEW r, r = Append(q, m), NEW p
    PROVE  /\ r \in Seq(Messages)
           /\ AboutIn(r, p) <=> AboutIn(q, p) \/ m.id = p
           /\ \A u : WaitingIn(r, p, u) <=> WaitingIn(q, p, u) \/ (m.request = u /\ m.id = p)
           /\ DeletionLastIn(q, p) /\ ~(m.request = "put_profile" /\ m.id = p) =>
                 DeletionLastIn(r, p)
           /\ m.request = "delete_profile" /\ m.id = p => DeletionLastIn(r, p)
<1>1. /\ r \in Seq(Messages) /\ Len(r) = Len(q) + 1 /\ Len(q) \in Nat
      /\ \A i \in 1 .. Len(q) : r[i] = q[i]
      /\ r[Len(q) + 1] = m
  BY AppendProperties
<1>2. \A i \in 1 .. Len(r) : i \in 1 .. Len(q) \/ i = Len(r)
  BY <1>1
<1>3. \A i \in 1 .. Len(q) : i \in 1 .. Len(r) /\ i < Len(r)
  BY <1>1
<1>4. Len(r) \in 1 .. Len(r) /\ r[Len(r)] = m
  BY <1>1
<1>5. AboutIn(r, p) <=> AboutIn(q, p) \/ m.id = p
  BY <1>1, <1>2, <1>3, <1>4 DEF AboutIn
<1>6. \A u : WaitingIn(r, p, u) <=> WaitingIn(q, p, u) \/ (m.request = u /\ m.id = p)
  BY <1>1, <1>2, <1>3, <1>4 DEF WaitingIn
<1>7. ASSUME DeletionLastIn(q, p), ~(m.request = "put_profile" /\ m.id = p)
      PROVE  DeletionLastIn(r, p)
  <2>1. PICK k \in 1 .. Len(q) :
           /\ q[k].request = "delete_profile" /\ q[k].id = p
           /\ \A l \in 1 .. Len(q) : q[l].request = "put_profile" /\ q[l].id = p => l < k
    BY <1>7 DEF DeletionLastIn
  <2>2. \A l \in 1 .. Len(r) : r[l].request = "put_profile" /\ r[l].id = p => l < k
    BY <1>1, <1>2, <1>4, <1>7, <2>1
  <2> QED  BY <1>1, <1>3, <2>1, <2>2 DEF DeletionLastIn
<1>8. ASSUME m.request = "delete_profile", m.id = p  PROVE DeletionLastIn(r, p)
  <2>1. \A l \in 1 .. Len(r) : r[l].request = "put_profile" => l < Len(r)
    BY <1>2, <1>3, <1>4, <1>8
  <2> QED  BY <1>4, <1>8, <2>1 DEF DeletionLastIn
<1> QED  BY <1>1, <1>5, <1>6, <1>7, <1>8

\* The parts of a message.
LEMMA MessageParts ==
    /\ \A p \in ProfileIds : \A n :
         /\ PutMessage(p).request = "put_profile" /\ PutMessage(p).id = p
         /\ DeleteMessage(p, n).request = "delete_profile" /\ DeleteMessage(p, n).id = p
    /\ \A m \in Messages :
         /\ m.id \in ProfileIds /\ m.request \in {"put_profile", "delete_profile"}
         /\ m.retries \in 0 .. NumRetries
  BY DEF PutMessage, DeleteMessage, Messages, NumRetries
----------------------------------------------------------------------------
(* The writer and the indexer *)

\* What the writer does with message i, as a whole.
LEMMA WriteShape ==
    ASSUME WriterTypes, NEW i \in 1 .. Len(queue), Write(i)
    PROVE  /\ queue[i] \in Messages /\ Rest(i) \in Seq(Messages) /\ index' = index
           /\ \/ queue' = queue \/ queue' = Rest(i)
              \/ /\ queue[i].request = "delete_profile"
                 /\ \E n \in 0 .. NumRetries :
                      queue' = Append(Rest(i), DeleteMessage(queue[i].id, n))
           /\ faults' \in Nat /\ faults <= faults' /\ faults' <= MaxFaults
           /\ reported' \in {reported, reported \cup {queue[i].id}}
<1>1. queue[i] \in Messages /\ faults \in Nat /\ faults <= MaxFaults /\ MaxFaults \in Nat
  BY WriterBounds DEF WriterTypes
<1>2. PICK rest : rest = RemoveAt(queue, i)
  OBVIOUS
<1>3. rest \in Seq(Messages)
  BY <1>2, QueueShrinks DEF WriterTypes
<1>4. Rest(i) \in Seq(Messages)
  BY <1>2, <1>3 DEF Rest
<1>5. CASE WriteProfile(i)
  BY <1>1, <1>4, <1>5 DEF WriteProfile, Fault
<1>6. CASE Refused(i)
  BY <1>1, <1>4, <1>6 DEF Refused, Fault, Filed, SentToDLQ
<1>7. CASE DeleteFromService(i)
  BY <1>1, <1>4, <1>7 DEF DeleteFromService, Filed, SentToDLQ
<1>8. CASE DeleteLater(i)
  <2>1. queue[i].retries \in 0 .. NumRetries /\ queue[i].retries > 0
    BY <1>1, <1>8, MessageParts DEF DeleteLater
  <2>2. RetriesAfter(queue[i].retries) \in 0 .. NumRetries
    BY <2>1 DEF RetriesAfter, OneLess, NumRetries
  <2> QED  BY <1>1, <1>4, <1>8, <2>2 DEF DeleteLater
<1>9. CASE GiveUp(i)
  BY <1>1, <1>4, <1>9 DEF GiveUp
<1> QED  BY <1>5, <1>6, <1>7, <1>8, <1>9 DEF Write

\* Nothing new is waiting after the writer's work.
LEMMA WriteQueue ==
    ASSUME WriterTypes, NEW i \in 1 .. Len(queue), Write(i)
    PROVE  /\ queue' \in Seq(Messages)
           /\ \A p : /\ AboutIn(queue', p) => AboutIn(queue, p)
                     /\ \A u : WaitingIn(queue', p, u) => WaitingIn(queue, p, u)
<1>1. /\ queue[i] \in Messages
      /\ \/ queue' = queue \/ queue' = Rest(i)
         \/ /\ queue[i].request = "delete_profile"
            /\ \E n \in 0 .. NumRetries :
                 queue' = Append(Rest(i), DeleteMessage(queue[i].id, n))
  BY WriteShape
<1>2. PICK rest : rest = RemoveAt(queue, i)
  OBVIOUS
<1>3. PICK q : q = queue
  OBVIOUS
<1>4. q \in Seq(Messages) /\ i \in 1 .. Len(q) /\ rest = RemoveAt(q, i)
  BY <1>2, <1>3 DEF WriterTypes
<1>5. /\ rest \in Seq(Messages)
      /\ \A p : /\ AboutIn(rest, p) => AboutIn(q, p)
                /\ \A u : WaitingIn(rest, p, u) => WaitingIn(q, p, u)
  BY <1>4, QueueShrinks
<1>6. CASE queue' = queue
  BY <1>3, <1>4, <1>6
<1>7. CASE queue' = Rest(i)
  BY <1>2, <1>3, <1>5, <1>7 DEF Rest
<1>8. ASSUME NEW n \in 0 .. NumRetries, queue[i].request = "delete_profile",
             queue' = Append(Rest(i), DeleteMessage(queue[i].id, n))
      PROVE  /\ queue' \in Seq(Messages)
             /\ \A p : /\ AboutIn(queue', p) => AboutIn(queue, p)
                       /\ \A u : WaitingIn(queue', p, u) => WaitingIn(queue, p, u)
  <2>1. PICK m : m = DeleteMessage(q[i].id, n)
    OBVIOUS
  <2>2. q[i].id \in ProfileIds /\ q[i].request = "delete_profile"
    BY <1>1, <1>3, <1>8, MessageParts
  <2>3. m \in Messages /\ m.request = "delete_profile" /\ m.id = q[i].id
    BY <2>1, <2>2, MessageParts DEF Messages
  <2>4. PICK r : r = Append(rest, m)
    OBVIOUS
  <2>5. r = queue'
    BY <1>2, <1>3, <1>8, <2>1, <2>4 DEF Rest
  <2>6. /\ r \in Seq(Messages)
        /\ \A p : /\ AboutIn(r, p) <=> AboutIn(rest, p) \/ m.id = p
                  /\ \A u : WaitingIn(r, p, u) <=>
                              WaitingIn(rest, p, u) \/ (m.request = u /\ m.id = p)
    BY <1>5, <2>3, <2>4, QueueGrows
  <2>7. /\ AboutIn(q, q[i].id) /\ WaitingIn(q, q[i].id, "delete_profile")
    BY <1>4, <2>2 DEF AboutIn, WaitingIn
  <2>8. \A p : /\ AboutIn(r, p) => AboutIn(q, p)
               /\ \A u : WaitingIn(r, p, u) => WaitingIn(q, p, u)
    BY <1>5, <2>3, <2>6, <2>7
  <2> QED  BY <1>3, <2>5, <2>6, <2>8
<1> QED  BY <1>1, <1>6, <1>7, <1>8

\* The writer keeps the types.
LEMMA WriteTypes ==
    ASSUME WriterTypes, NEW i \in 1 .. Len(queue), Write(i)
    PROVE  WriterTypes'
<1>1. /\ queue[i] \in Messages /\ index' = index /\ faults' \in 0 .. MaxFaults
      /\ reported' \in {reported, reported \cup {queue[i].id}}
  BY WriteShape, WriterBounds DEF WriterTypes
<1>2. queue' \in Seq(Messages) /\ queue[i].id \in ProfileIds
  BY <1>1, WriteQueue, MessageParts
<1>3. /\ service' \in [ProfileIds -> Names \cup {NoName}] /\ names' \in 0 .. MaxNames
      /\ stream' \in Seq(Events)
  <2>1. CASE WriteProfile(i) /\ service[queue[i].id] = NoName
    <3>1. /\ names < MaxNames /\ names' = names + 1
          /\ service' = [service EXCEPT ![queue[i].id] = names + 1]
          /\ stream' = Append(stream, [id |-> queue[i].id, name |-> names + 1, tries |-> 0])
      BY <2>1 DEF WriteProfile
    <3>2. names + 1 \in Names /\ names + 1 \in 0 .. MaxNames
      BY <3>1, WriterBounds DEF WriterTypes, Names
    <3>3. [id |-> queue[i].id, name |-> names + 1, tries |-> 0] \in Events
      BY <1>2, <3>2 DEF Events, RetryEvents
    <3>4. PICK e : e = [id |-> queue[i].id, name |-> names + 1, tries |-> 0]
      OBVIOUS
    <3>5. stream' \in Seq(Events)
      BY <3>1, <3>3, <3>4, AppendProperties DEF WriterTypes
    <3>6. service' \in [ProfileIds -> Names \cup {NoName}]
      BY <3>1, <3>2 DEF WriterTypes
    <3> QED  BY <3>1, <3>2, <3>5, <3>6
  <2>2. CASE ~(WriteProfile(i) /\ service[queue[i].id] = NoName)
    <3>1. /\ names' = names /\ stream' = stream
          /\ service' = service \/ service' = [service EXCEPT ![queue[i].id] = NoName]
      BY <2>2 DEF Write, WriteProfile, Refused, DeleteFromService, DeleteLater, GiveUp
    <3> QED  BY <3>1 DEF WriterTypes
  <2> QED  BY <2>1, <2>2
<1> QED  BY <1>1, <1>2, <1>3 DEF WriterTypes

\* The stream after the indexer's work.
LEMMA IndexShape ==
    ASSUME WriterTypes, IndexProfile \/ IndexFails
    PROVE  /\ UNCHANGED <<queue, service, names, reported>>
           /\ stream \in Seq(Events) /\ Len(stream) \in Nat /\ 1 \in 1 .. Len(stream)
           /\ stream[1] = Head(stream) /\ Head(stream) \in Events
           /\ \/ index' = index \/ index' = [index EXCEPT ![Head(stream).id] = Head(stream).name]
           /\ Tail(stream) \in Seq(Events) /\ Len(Tail(stream)) = Len(stream) - 1
           /\ \A i \in 1 .. Len(stream) - 1 : Tail(stream)[i] = stream[i + 1]
<1>1. stream # <<>> /\ stream \in Seq(Events)
  BY DEF IndexProfile, IndexFails, WriterTypes
<1>2. PICK s : s = stream
  OBVIOUS
<1>3. /\ s \in Seq(Events) /\ Len(s) \in Nat /\ Len(s) > 0 /\ Head(s) = s[1] /\ Head(s) \in Events
      /\ Tail(s) \in Seq(Events) /\ Len(Tail(s)) = Len(s) - 1
      /\ \A i \in 1 .. Len(s) - 1 : Tail(s)[i] = s[i + 1]
  BY <1>1, <1>2, EmptySeq, HeadTailProperties
<1>4. /\ UNCHANGED <<queue, service, names, reported>>
      /\ \/ index' = index \/ index' = [index EXCEPT ![Head(stream).id] = Head(stream).name]
  BY DEF IndexProfile, IndexFails
<1>5. 1 \in 1 .. Len(s)
  BY <1>3
<1> QED  BY <1>2, <1>3, <1>4, <1>5

\* An event that fails is put back with one try more.
Retried == [Head(stream) EXCEPT !.tries = @ + 1]

\* So does the indexer.
LEMMA IndexTypes ==
    ASSUME WriterTypes, IndexProfile \/ IndexFails
    PROVE  WriterTypes'
<1>1. /\ UNCHANGED <<queue, service, names, reported>> /\ Head(stream) \in Events
      /\ \/ index' = index \/ index' = [index EXCEPT ![Head(stream).id] = Head(stream).name]
      /\ Tail(stream) \in Seq(Events)
  BY IndexShape
<1>2. index' \in [ProfileIds -> Names \cup {NoName}]
  BY <1>1 DEF WriterTypes, Events
<1>3. faults' \in 0 .. MaxFaults
  BY WriterBounds DEF IndexProfile, IndexFails, Fault, WriterTypes
<1>4. stream' \in Seq(Events)
  <2>1. CASE stream' = Tail(stream)
    BY <1>1, <2>1
  <2>2. CASE stream' # Tail(stream)
    <3>1. Head(stream).tries < RetryEvents /\ stream' = <<Retried>> \o Tail(stream)
      BY <2>2 DEF IndexProfile, IndexFails, Retried
    <3>2. Retried \in Events
      <4>1. PICK h : h = Head(stream)
        OBVIOUS
      <4>2. h \in Events /\ h.tries < RetryEvents /\ Retried = [h EXCEPT !.tries = h.tries + 1]
        BY <1>1, <3>1, <4>1 DEF Retried
      <4>3. h.tries + 1 \in 0 .. RetryEvents
        BY <4>2 DEF Events, RetryEvents
      <4> QED  BY <4>2, <4>3 DEF Events
    <3>3. PICK e, t : e = <<Retried>> /\ t = Tail(stream)
      OBVIOUS
    <3>4. e \in Seq(Events) /\ t \in Seq(Events)
      BY <1>1, <3>2, <3>3
    <3> QED  BY <3>1, <3>3, <3>4, ConcatProperties
  <2> QED  BY <2>1, <2>2
<1> QED  BY <1>1, <1>2, <1>3, <1>4 DEF WriterTypes

\* So they do together.
LEMMA WriterKeepsTypes ==
    ASSUME AllTypes, WriterNext, UNCHANGED StoreVars
    PROVE  AllTypes'
<1>1. WriterTypes'
  BY WriteTypes, IndexTypes DEF WriterNext, AllTypes
<1> QED  BY <1>1 DEF AllTypes, StoreVars, auroraVars, dynamoVars, AuroraTypes, CacheTypes,
     WorkTypes

\* At first the types hold, and Aurora is empty.
LEMMA InitTypes == Init => AllTypes /\ AuroraOK
<1> SUFFICES ASSUME Init  PROVE AllTypes /\ AuroraOK
  OBVIOUS
<1>1. WriterTypes
  BY WriterBounds DEF Init, WriterInit, WriterTypes
<1>2. AuroraTypes /\ CacheTypes
  BY TimesFacts DEF Init, AuroraTypes, CacheTypes
<1>3. WorkTypes
  <2>1. worker \in [Workers -> Busy \cup {Idle}]
    BY DEF Init
  <2>2. done \in [Ops -> Nat] /\ \A o \in Ops : done[o] <= Limit[o]
    BY LimitType DEF Init
  <2> QED  BY <2>1, <2>2 DEF WorkTypes
<1>4. AuroraOK
  <2>1. \A q \in ProfileIds : connect[q] = Nobody /\ row[q] = 0 /\ ObjectsOf(q) = {}
    BY DEF Init, ObjectsOf
  <2>2. \A o \in Objects : owner[o] = Nobody
    BY DEF Init
  <2> QED  BY <2>1, <2>2 DEF AuroraOK
<1> QED  BY <1>1, <1>2, <1>3, <1>4 DEF AllTypes

----------------------------------------------------------------------------
\* The variables keep their types, however operations and faults come: the tables hold
\* ids, timestamps and objects, a message has no more retries than a deletion starts with
\* and an event no more than the source allows, and no operation is started too often.
(***************************************************************************)
(* Every state has the types of TypeOK: whatever the workers, the writer   *)
(* and the indexer do, in whatever order, kept apart or not, the queue     *)
(* holds messages with no more retries than a deletion starts with, and no *)
(* worker holds a list of stages that is empty but not idle.               *)
(***************************************************************************)
THEOREM TypeCorrect == Spec => []TypeOK
<1>1. Init => AllTypes /\ AuroraOK
  BY InitTypes
<1>2. AllTypes /\ AuroraOK /\ [Next]_vars => (AllTypes /\ AuroraOK)'
  <2> SUFFICES ASSUME AllTypes, AuroraOK, [Next]_vars  PROVE AllTypes' /\ AuroraOK'
    OBVIOUS
  <2>1. UNCHANGED auroraVars => AuroraOK'
    BY DEF AuroraOK, auroraVars, Lives, ObjectsOf
  <2>2. ASSUME NEW w \in Workers, Operation(w)  PROVE AllTypes' /\ AuroraOK'
    BY <2>2, OperationStarts DEF StartsWork, Changes
  <2>3. ASSUME NEW w \in Workers, Continue(w)  PROVE AllTypes' /\ AuroraOK'
    <3>1. AllTypes'
      BY <2>3, ReadRowTypes, BuildTypes, FindTypes, GoOnTypes DEF Continue
    <3>2. UNCHANGED auroraVars
      BY <2>3 DEF Continue, ReadRow, Build, Updates, SaveRecord, SaveObjects, SendProfile,
         SendDeletion, Send, FindRecords, ClearRecords, RemoveFromService, Unchanged
    <3> QED  BY <2>1, <3>1, <3>2
  <2>4. ASSUME NEW w \in Workers, Fails(w)  PROVE AllTypes' /\ AuroraOK'
    BY <2>1, <2>4, FailsTypes DEF Fails
  <2>5. CASE WriterNext /\ UNCHANGED StoreVars
    BY <2>1, <2>5, WriterKeepsTypes DEF StoreVars
  <2>6. CASE UNCHANGED vars
    BY <2>1, <2>6 DEF vars, writerVars, auroraVars, dynamoVars, AllTypes, WriterTypes,
       AuroraTypes,
       CacheTypes, WorkTypes
  <2> QED  BY <2>2, <2>3, <2>4, <2>5, <2>6 DEF Next
<1> QED  BY <1>1, <1>2, TypesOK, PTL DEF Spec
----------------------------------------------------------------------------
(* The work under way, when operations are kept apart *)

\* The end of an operation by an error.
LEMMA FailsShape ==
    ASSUME WorkInv, "merge" \notin Fallible, NEW w \in Workers, Fails(w)
    PROVE  /\ worker'[w] = Idle /\ \A v \in Workers \ {w} : worker'[v] = worker[v]
           /\ failed' = failed \cup worker[w].ids /\ ~IsIdle(w)
           /\ \A s \in Steps, p \in ProfileIds : ToDo(w, s, p) => p \in worker[w].ids
           /\ UNCHANGED <<queue, service, names, stream, index, reported, dynamoVars, awaited>>
           /\ UNCHANGED auroraVars
<1>1. Planned(worker[w]) /\ worker \in [Workers -> Busy \cup {Idle}]
  BY DEF WorkInv, AllTypes, WorkTypes
<1> QED  BY <1>1 DEF Fails, Planned, ToDo

\* An operation that fails keeps the invariant of the work under way.
LEMMA FailsKeepsWork ==
    ASSUME WorkInv, NEW w \in Workers, Fails(w)
    PROVE  WorkInv'
<1>1. AllTypes' /\ UNCHANGED <<auroraVars, dynamoVars>>
      /\ worker' = [worker EXCEPT ![w] = Idle]
  BY FailsTypes DEF Fails, WorkInv
<1>2. worker'[w] = Idle /\ \A v \in Workers \ {w} : worker'[v] = worker[v]
  BY <1>1 DEF WorkInv, AllTypes, WorkTypes
<1>3. /\ \A q : Known(q)' <=> Known(q)
      /\ \A q : Lives(q)' <=> Lives(q)
      /\ \A q : ObjectsOf(q)' = ObjectsOf(q)
      /\ \A q : Found(q)' = Found(q)
      /\ row' = row
  BY <1>1 DEF auroraVars, dynamoVars, Known, Lives, ObjectsOf, Found
<1>4. AuroraOK'
  BY <1>1, <1>3 DEF WorkInv, AuroraOK, auroraVars
<1>5. KeptApart'
  BY <1>2, IdlePlanned DEF WorkInv, KeptApart
<1>6. ASSUME NEW v \in Workers \ {w}  PROVE Planned(worker'[v]) /\ Abreast(v)'
  <2>1. \A x, q : ToDo(v, x, q)' <=> ToDo(v, x, q)
    BY <1>2 DEF ToDo
  <2> QED  BY <1>2, <1>3, <2>1 DEF WorkInv, Abreast
<1>7. Planned(worker'[w]) /\ Abreast(w)'
  BY <1>2, IdlePlanned DEF Abreast
<1>8. \A v \in Workers : Planned(worker[v])' /\ Abreast(v)'
  BY <1>6, <1>7
<1> QED  BY <1>1, <1>4, <1>5, <1>8 DEF WorkInv

\* A step that leaves the store alone.
LEMMA StoreKeepsWork ==
    ASSUME WorkInv, AllTypes', UNCHANGED StoreVars
    PROVE  WorkInv'
<1>1. /\ \A q : Known(q)' <=> Known(q)
      /\ \A q : Lives(q)' <=> Lives(q)
      /\ \A q : ObjectsOf(q)' = ObjectsOf(q)
      /\ \A q : Found(q)' = Found(q)
      /\ \A v, x, q : ToDo(v, x, q)' <=> ToDo(v, x, q)
      /\ row' = row /\ stamp' = stamp /\ worker' = worker /\ UNCHANGED auroraVars
  BY DEF StoreVars, auroraVars, dynamoVars, Known, Lives, ObjectsOf, Found, ToDo
<1>2. AuroraOK'
  BY <1>1 DEF WorkInv, AuroraOK, auroraVars
<1>3. KeptApart'
  BY <1>1 DEF WorkInv, KeptApart
<1>4. \A v \in Workers : Planned(worker[v])' /\ Abreast(v)'
  BY <1>1 DEF WorkInv, Abreast
<1> QED  BY <1>2, <1>3, <1>4 DEF WorkInv

\* At first nobody works.
LEMMA InitKeepsWork == Init => WorkInv
<1> SUFFICES ASSUME Init  PROVE WorkInv
  OBVIOUS
<1>1. AllTypes /\ AuroraOK
  BY InitTypes
<1>2. \A w \in Workers : worker[w] = Idle
  BY DEF Init
<1>3. KeptApart
  BY <1>2, IdlePlanned DEF KeptApart
<1>4. \A w \in Workers : Planned(worker[w]) /\ Abreast(w)
  BY <1>2, IdlePlanned DEF Abreast
<1> QED  BY <1>1, <1>3, <1>4 DEF WorkInv

\* The invariant of the work under way is inductive when operations are kept apart.
LEMMA WorkKept ==
    ASSUME Apart, WorkInv, [Next]_vars
    PROVE  WorkInv'
<1>1. ASSUME NEW w \in Workers, Operation(w)  PROVE WorkInv'
  BY <1>1, OperationStarts, StartKeepsWork DEF WorkInv
<1>2. ASSUME NEW w \in Workers, Continue(w)  PROVE WorkInv'
  BY <1>2, ContinueFacts, ContinueKeepsWork
<1>3. ASSUME NEW w \in Workers, Fails(w)  PROVE WorkInv'
  BY <1>3, FailsKeepsWork
<1>4. CASE WriterNext /\ UNCHANGED StoreVars
  BY <1>4, WriterKeepsTypes, StoreKeepsWork DEF WorkInv
<1>5. CASE UNCHANGED vars
  <2>1. UNCHANGED StoreVars /\ UNCHANGED writerVars
    BY <1>5 DEF vars, StoreVars
  <2>2. AllTypes'
    BY <2>1 DEF StoreVars, writerVars, auroraVars, dynamoVars, WorkInv, AllTypes, WriterTypes,
       AuroraTypes, CacheTypes, WorkTypes
  <2> QED  BY <2>1, <2>2, StoreKeepsWork
<1> QED  BY <1>1, <1>2, <1>3, <1>4, <1>5 DEF Next

----------------------------------------------------------------------------
(* DynamoDB follows Aurora *)

\* The newest object of an id that a step does not touch is what it was.
LEMMA NewestKept ==
    ASSUME NEW p, Untouched(p)
    PROVE  Newest(p)' = Newest(p)
<1>1. {stamp'[o] : o \in ObjectsOf(p)'} = {stamp[o] : o \in ObjectsOf(p)}
  BY DEF Untouched
<1>2. Newest(p)' = Latest({0} \cup {stamp'[o] : o \in ObjectsOf(p)'})
  BY DEF Newest, Latest
<1>3. Newest(p) = Latest({0} \cup {stamp[o] : o \in ObjectsOf(p)})
  BY DEF Newest
<1> QED  BY <1>1, <1>2, <1>3

\* Of an id p that a step does not touch everything about DynamoDB stays.
LEMMA DynamoKept ==
    ASSUME NEW p \in ProfileIds, Bounded(p), Lives(p) => p \in Skipped \cup awaited \/ Brought(p),
           Untouched(p), cached'[p] = cached[p], items'[p] = items[p],
           p \in awaited => p \in awaited',
           \A w \in Workers : \A s \in Steps : ToDo(w, s, p)' <=> ToDo(w, s, p),
           \A w \in Workers : (\E s \in Steps : ToDo(w, s, p)) =>
               worker'[w].snap[p] = worker[w].snap[p]
    PROVE  Bounded(p)' /\ (Lives(p)' => p \in Skipped \cup awaited' \/ Brought(p)')
<1>1. /\ Lives(p)' <=> Lives(p)
      /\ row'[p] = row[p] /\ ObjectsOf(p)' = ObjectsOf(p)
  BY DEF Untouched
<1>2. Newest(p)' = Newest(p)
  BY NewestKept
<1>3. Cleared(p)' <=> Cleared(p)
  BY DEF Cleared, Steps
<1>4. Bounded(p)'
  BY <1>1, <1>3 DEF Bounded
<1>5. \A w \in Workers : BringsRow(w, p) => BringsRow(w, p)'
  <2> SUFFICES ASSUME NEW w \in Workers, BringsRow(w, p)  PROVE BringsRow(w, p)'
    OBVIOUS
  <2>1. \E s \in Steps : ToDo(w, s, p)
    BY DEF BringsRow, Steps
  <2> QED  BY <1>1, <1>2, <2>1 DEF BringsRow, Steps
<1>6. \A w \in Workers : \A o : BringsObject(w, p, o) => BringsObject(w, p, o)'
  <2> SUFFICES ASSUME NEW w \in Workers, NEW o, BringsObject(w, p, o)
        PROVE BringsObject(w, p, o)'
    OBVIOUS
  <2>1. \E s \in Steps : ToDo(w, s, p)
    BY DEF BringsObject, Steps
  <2> QED  BY <2>1 DEF BringsObject, Steps
<1>7. Brought(p) => Brought(p)'
  BY <1>1, <1>3, <1>5, <1>6 DEF Brought
<1> QED  BY <1>1, <1>4, <1>7

\* An operation that starts will bring what it has changed.
LEMMA StartKeepsDynamo ==
    ASSUME WorkInv, DynamoInv, NEW w \in Workers, NEW j, StartsWork(w, j), FitsWork(j)
    PROVE  DynamoInv'
<1>1. /\ worker'[w] = j /\ \A v \in Workers \ {w} : worker'[v] = worker[v]
      /\ \A s, p : ~ToDo(w, s, p) /\ (ToDo(w, s, p)' <=> Has(j.stages, <<s, p>>))
      /\ \A v \in Workers \ {w} : \A s, p : ToDo(v, s, p)' <=> ToDo(v, s, p)
      /\ \A s \in Steps, p \in ProfileIds : Has(j.stages, <<s, p>>) => p \in j.ids
      /\ j.ids \subseteq ProfileIds /\ j.ending \subseteq j.ids
  BY StartShape DEF WorkInv
<1>2. /\ Changes(j.ids, j.ending) /\ failed' = failed /\ cached' = cached /\ items' = items
      /\ awaited' \subseteq awaited /\ \A q \in awaited \ j.ids : q \in awaited'
  BY DEF StartsWork, dynamoVars
<1> SUFFICES ASSUME NEW p \in ProfileIds \ failed
             PROVE  Bounded(p)' /\ (Lives(p)' => p \in Skipped \cup awaited' \/ Brought(p)')
  BY <1>2 DEF DynamoInv
<1>3. Bounded(p) /\ (Lives(p) => p \in Skipped \cup awaited \/ Brought(p))
  BY DEF DynamoInv
<1>4. CASE p \notin j.ids
  <2>1. Untouched(p)
    BY <1>2, <1>4 DEF Changes
  <2>2. \A v \in Workers : \A s \in Steps : ToDo(v, s, p)' <=> ToDo(v, s, p)
    BY <1>1, <1>4
  <2>3. \A v \in Workers : (\E s \in Steps : ToDo(v, s, p))
          => worker'[v].snap[p] = worker[v].snap[p]
    BY <1>1
  <2>4. p \in awaited => p \in awaited'
    BY <1>2, <1>4
  <2> QED  BY <1>2, <1>3, <2>1, <2>2, <2>3, <2>4, DynamoKept
<1>5. CASE p \in j.ids
  <2>1. Cleared(p)' => Cleared(p) /\ ~Has(j.stages, <<"clear", p>>)
    BY <1>1 DEF Cleared
  <2>2. ~Has(j.stages, <<"clear", p>>) /\ Cleared(p) => Cleared(p)'
    BY <1>1 DEF Cleared
  <2>3. p \in j.ending => Has(j.stages, <<"clear", p>>) \/ ~Lives(p)
    BY <1>5 DEF FitsWork
  <2>4. row[p] \in Nat /\ row'[p] \in Nat /\ cached[p] \in Nat
    BY TimesFacts DEF Changes, StartsWork, WorkInv, AllTypes, AuroraTypes, CacheTypes
  <2>5. ~Lives(p) => row[p] = 0 /\ ObjectsOf(p) = {}
    <3>1. ~Lives(p) => ObjectsOf(p) = {}
      BY DEF WorkInv, AuroraOK, ObjectsOf, Lives, AllTypes, AuroraTypes
    <3> QED  BY <3>1 DEF WorkInv, AuroraOK
  <2>6. Bounded(p)'
    <3> SUFFICES ASSUME Cleared(p)'
          PROVE cached'[p] <= row'[p] /\ items'[p] \subseteq ObjectsOf(p)'
      BY DEF Bounded
    <3>1. cached[p] <= row[p] /\ items[p] \subseteq ObjectsOf(p) /\ ~Has(j.stages, <<"clear", p>>)
      BY <1>3, <2>1 DEF Bounded
    <3>2. CASE p \in j.ending
      <4>1. cached[p] = 0 /\ items[p] = {}
        BY <2>3, <2>4, <2>5, <3>1, <3>2
      <4> QED  BY <1>2, <2>4, <4>1
    <3>3. CASE p \notin j.ending
      <4>1. row[p] <= row'[p] /\ ObjectsOf(p) \subseteq ObjectsOf(p)'
        BY <1>2, <1>5, <3>3 DEF Changes, Grown
      <4>2. cached[p] <= row'[p]
        BY <2>4, <3>1, <4>1
      <4> QED  BY <1>2, <3>1, <4>1, <4>2
    <3> QED  BY <3>2, <3>3
  <2>7. ASSUME Lives(p)', p \notin Skipped \cup awaited'  PROVE Brought(p)'
    <3>1. /\ j.snap[p].at = 0
          /\ Has(j.stages, <<"update", p>>)
          /\ Has(j.stages, <<"row", p>>)
               \/ (Has(j.stages, <<"build", p>>) /\ row'[p] = Newest(p)')
          /\ Has(j.stages, <<"build", p>>)
               \/ /\ \A o \in ObjectsOf(p)' \ ObjectsOf(p) : o \in j.snap[p].objs
                  /\ p \in awaited => p \in awaited'
                  /\ ~Has(j.stages, <<"clear", p>>)
      BY <1>5, <2>7 DEF FitsWork
    <3>2. BringsRow(w, p)'
      BY <1>1, <3>1 DEF BringsRow
    <3>3. ASSUME NEW o \in ObjectsOf(p)'
          PROVE  (Cleared(p) /\ o \in items[p])' \/ \E v \in Workers : BringsObject(v, p, o)'
      <4>1. CASE Has(j.stages, <<"build", p>>)
        BY <1>1, <4>1 DEF BringsObject
      <4>2. CASE o \in j.snap[p].objs
        BY <1>1, <3>1, <4>2 DEF BringsObject
      <4>3. CASE ~Has(j.stages, <<"build", p>>) /\ o \notin j.snap[p].objs
        <5>1. o \in ObjectsOf(p)
          BY <3>1, <4>3
        <5>2. Lives(p)
          BY <2>5, <5>1
        <5>3. p \notin awaited
          BY <2>7, <3>1, <4>3
        <5>4. (Cleared(p) /\ o \in items[p]) \/ \E v \in Workers : BringsObject(v, p, o)
          BY <1>3, <2>7, <5>1, <5>2, <5>3 DEF Brought
        <5>5. ASSUME NEW v \in Workers, BringsObject(v, p, o)  PROVE BringsObject(v, p, o)'
          <6>1. v # w
            BY <1>1, <5>5 DEF BringsObject
          <6>2. worker'[v] = worker[v] /\ \A s : ToDo(v, s, p)' <=> ToDo(v, s, p)
            BY <1>1, <6>1
          <6> QED  BY <5>5, <6>2 DEF BringsObject
        <5>6. Cleared(p) => Cleared(p)'
          <6>1. ~Has(j.stages, <<"clear", p>>)
            BY <3>1, <4>3
          <6> QED  BY <2>2, <6>1
        <5> QED  BY <1>2, <5>4, <5>5, <5>6
      <4> QED  BY <4>1, <4>2, <4>3
    <3> QED  BY <3>2, <3>3 DEF Brought
  <2> QED  BY <2>6, <2>7
<1> QED  BY <1>4, <1>5

\* What the step s of p by w changes of the work to do.
LEMMA StepWork ==
    ASSUME WorkInv, NEW w \in Workers, NEW s \in Steps, NEW p \in ProfileIds, NEW more, NEW k,
           StepFacts(w, s, p, more, k)
    PROVE  /\ worker'[w] = k /\ \A v \in Workers \ {w} : worker'[v] = worker[v]
           /\ \A v \in Workers \ {w} : \A x, q : ToDo(v, x, q)' <=> ToDo(v, x, q)
           /\ \A x, q : ToDo(w, x, q)' => (<<x, q>> \in more /\ q = p) \/ ToDo(w, x, q)
           /\ \A x, q : ToDo(w, x, q) /\ (x # s \/ q # p) => ToDo(w, x, q)'
           /\ \A x \in more : Has(k.stages, x)
           /\ \A x, q : ToDo(w, x, q)' => k # Idle
           /\ \A x : <<x, p>> \in more => x \in {"message", "record", "objects"}
           /\ \A q : Untouched(q)
<1>1. StepsTo(w, s, p, more, k) /\ UNCHANGED auroraVars
  BY DEF StepFacts, StepOf
<1>2. /\ worker'[w] = k /\ \A v \in Workers \ {w} : worker'[v] = worker[v]
      /\ \A x : Has(k.stages, x) => x \in more \/ Has(worker[w].stages, x)
      /\ \A x : x # <<s, p>> /\ Has(worker[w].stages, x) => Has(k.stages, x)
      /\ \A x \in more : Has(k.stages, x)
      /\ Joins(s, p, more)
  BY <1>1 DEF StepsTo
<1>3. \A x, q : <<x, q>> \in more => q = p /\ x \in {"message", "record", "objects"}
  BY <1>2 DEF Joins
<1>4. \A v \in Workers \ {w} : \A x, q : ToDo(v, x, q)' <=> ToDo(v, x, q)
  BY <1>2 DEF ToDo
<1>5. \A x, q : ToDo(w, x, q)' <=> Has(k.stages, <<x, q>>)
  BY <1>2 DEF ToDo
<1>6. \A x, q : ToDo(w, x, q)' => (<<x, q>> \in more /\ q = p) \/ ToDo(w, x, q)
  BY <1>2, <1>3, <1>5 DEF ToDo
<1>7. \A x, q : ToDo(w, x, q) /\ (x # s \/ q # p) => ToDo(w, x, q)'
  BY <1>2, <1>5 DEF ToDo
<1>8. \A x, q : ToDo(w, x, q)' => k # Idle
  BY <1>5, IdlePlanned
<1>9. \A q : Untouched(q)
  BY <1>1 DEF auroraVars, Untouched, Lives, ObjectsOf
<1> QED  BY <1>2, <1>3, <1>4, <1>6, <1>7, <1>8, <1>9

\* The step of w brings the record of p to the timestamp of Aurora, or goes on to it.
LEMMA StepBringsRow ==
    ASSUME WorkInv, NEW w \in Workers, NEW s \in Steps, NEW p \in ProfileIds, NEW more, NEW k,
           StepFacts(w, s, p, more, k), Bounded(p), p \notin Skipped \cup awaited',
           BringsRow(w, p)
    PROVE  BringsRow(w, p)' \/ (Cleared(p) /\ cached'[p] = row[p])
<1>1. /\ worker'[w] = k
      /\ \A x, q : ToDo(w, x, q) /\ (x # s \/ q # p) => ToDo(w, x, q)'
      /\ \A x \in more : Has(k.stages, x)
      /\ \A x, q : ToDo(w, x, q)' => k # Idle
      /\ Untouched(p)
  BY StepWork
<1>2. row'[p] = row[p] /\ Newest(p)' = Newest(p)
  BY <1>1, NewestKept DEF Untouched
<1>3. SnapOf(w, s, p, k) /\ TablesOf(w, s, p, more) /\ StepsTo(w, s, p, more, k)
  BY DEF StepFacts, StepOf
<1>4. /\ row[p] \in Nat /\ cached[p] \in Nat /\ worker[w].snap[p].at \in Nat
      /\ Newest(p) \in Nat /\ Newest(p) <= row[p]
  <2>1. AllTypes /\ AuroraOK /\ ~IsIdle(w)
    BY <1>3, IdlePlanned DEF WorkInv, StepsTo, Planned, IsIdle
  <2>2. worker[w].snap[p] \in Snaps
    BY <2>1, BusyParts DEF AllTypes
  <2> QED  BY <2>1, <2>2, TimesFacts, NewestBound DEF AllTypes, AuroraTypes, CacheTypes, Snaps
<1>5. CASE s = "row"
  <2>1. k.snap[p].at = row[p] /\ Has(k.stages, <<"update", p>>)
    BY <1>3, <1>5 DEF SnapOf, StepsTo
  <2> QED  BY <1>1, <1>2, <2>1 DEF BringsRow, ToDo
<1>6. CASE s = "build"
  <2>1. /\ Has(k.stages, <<"update", p>>)
        /\ k.snap[p].at = IF worker[w].snap[p].at # 0 THEN worker[w].snap[p].at ELSE Newest(p)
    BY <1>3, <1>6 DEF SnapOf, StepsTo
  <2>2. CASE ToDo(w, "row", p)
    BY <1>1, <1>6, <2>2 DEF BringsRow
  <2>3. CASE ~ToDo(w, "row", p)
    <3>1. k.snap[p].at = row[p]
      BY <1>4, <2>1, <2>3 DEF BringsRow
    <3> QED  BY <1>1, <1>2, <2>1, <3>1 DEF BringsRow, ToDo
  <2> QED  BY <2>2, <2>3
<1>7. CASE s \notin {"row", "build"}
  <2>1. k = Idle \/ k.snap[p] = worker[w].snap[p]
    BY <1>3, <1>7 DEF SnapOf
  <2>2. CASE ToDo(w, "row", p)
    BY <1>1, <1>7, <2>2 DEF BringsRow
  <2>3. CASE ToDo(w, "build", p) /\ worker[w].snap[p].at = 0 /\ row[p] = Newest(p)
    <3>1. ToDo(w, "build", p)' /\ k # Idle
      BY <1>1, <1>7, <2>3
    <3> QED  BY <1>1, <1>2, <2>1, <2>3, <3>1 DEF BringsRow
  <2>4. CASE worker[w].snap[p].at = row[p] /\ ToDo(w, "update", p)
    <3>1. CASE s # "update"
      <4>1. ToDo(w, "update", p)' /\ k # Idle
        BY <1>1, <2>4, <3>1
      <4> QED  BY <1>1, <1>2, <2>1, <2>4, <4>1 DEF BringsRow
    <3>2. CASE s = "update"
      <4>1. more = {<<"message", p>>, <<"record", p>>}
        BY <1>3, <3>2 DEF TablesOf
      <4>2. ToDo(w, "record", p)' /\ k # Idle
        BY <1>1, <4>1 DEF ToDo
      <4> QED  BY <1>1, <1>2, <2>1, <2>4, <4>2 DEF BringsRow
    <3> QED  BY <3>1, <3>2
  <2>5. CASE worker[w].snap[p].at = row[p] /\ ToDo(w, "record", p)
    <3>1. CASE s # "record"
      <4>1. ToDo(w, "record", p)' /\ k # Idle
        BY <1>1, <2>5, <3>1
      <4> QED  BY <1>1, <1>2, <2>1, <2>5, <4>1 DEF BringsRow
    <3>2. CASE s = "record"
      <4>1. Cleared(p)
        BY <1>3, <3>2 DEF StepsTo
      <4>2. cached[p] <= worker[w].snap[p].at
        BY <2>5, <4>1 DEF Bounded
      <4>3. cached'[p] = worker[w].snap[p].at
        BY <1>3, <3>2, <4>2, Zenon DEF TablesOf
      <4> QED  BY <2>5, <4>1, <4>3
    <3> QED  BY <3>1, <3>2
  <2> QED  BY <2>2, <2>3, <2>4, <2>5 DEF BringsRow
<1> QED  BY <1>5, <1>6, <1>7

\* The step of w brings the object o to the table, or goes on to it.
LEMMA StepBringsObject ==
    ASSUME WorkInv, NEW w \in Workers, NEW s \in Steps, NEW p \in ProfileIds, NEW more, NEW k,
           StepFacts(w, s, p, more, k), p \notin Skipped \cup awaited',
           NEW o \in ObjectsOf(p), BringsObject(w, p, o)
    PROVE  BringsObject(w, p, o)' \/ (Cleared(p) /\ o \in items'[p])
<1>1. /\ worker'[w] = k
      /\ \A x, q : ToDo(w, x, q) /\ (x # s \/ q # p) => ToDo(w, x, q)'
      /\ \A x \in more : Has(k.stages, x)
      /\ \A x, q : ToDo(w, x, q)' => k # Idle
  BY StepWork
<1>2. SnapOf(w, s, p, k) /\ TablesOf(w, s, p, more) /\ StepsTo(w, s, p, more, k)
  BY DEF StepFacts, StepOf
<1>3. CASE s = "build"
  <2>1. k.snap[p].objs = ObjectsOf(p) /\ Has(k.stages, <<"update", p>>)
    BY <1>2, <1>3 DEF SnapOf, StepsTo
  <2> QED  BY <1>1, <2>1 DEF BringsObject, ToDo
<1>4. CASE s # "build"
  <2>1. k = Idle \/ k.snap[p].objs = worker[w].snap[p].objs
    <3>1. CASE s = "row"
      BY <1>2, <3>1 DEF SnapOf
    <3>2. CASE s # "row"
      BY <1>2, <1>4, <3>2 DEF SnapOf
    <3> QED  BY <3>1, <3>2
  <2>2. CASE ToDo(w, "build", p)
    BY <1>1, <1>4, <2>2 DEF BringsObject
  <2>3. ASSUME o \in worker[w].snap[p].objs, NEW x \in {"update", "record", "objects"},
               ToDo(w, x, p)
        PROVE  BringsObject(w, p, o)' \/ (Cleared(p) /\ o \in items'[p])
    <3>1. ASSUME NEW y \in {"update", "record", "objects"}, ToDo(w, y, p)'
          PROVE  BringsObject(w, p, o)'
      <4>1. k # Idle
        BY <1>1, <3>1
      <4> QED  BY <1>1, <2>1, <2>3, <3>1, <4>1 DEF BringsObject
    <3>2. CASE s # x
      BY <1>1, <2>3, <3>1, <3>2
    <3>3. CASE s = "update" /\ x = s
      <4>1. more = {<<"message", p>>, <<"record", p>>}
        BY <1>2, <3>3 DEF TablesOf
      <4>2. ToDo(w, "record", p)'
        BY <1>1, <4>1 DEF ToDo
      <4> QED  BY <3>1, <4>2
    <3>4. CASE s = "record" /\ x = s
      <4>1. more = {<<"objects", p>>}
        BY <1>2, <3>4 DEF TablesOf
      <4>2. ToDo(w, "objects", p)'
        BY <1>1, <4>1 DEF ToDo
      <4> QED  BY <3>1, <4>2
    <3>5. CASE s = "objects" /\ x = s
      <4>1. Cleared(p)
        BY <1>2, <3>5 DEF StepsTo
      <4>2. items'[p] = items[p] \cup worker[w].snap[p].objs
        BY <1>2, <3>5, Zenon DEF TablesOf
      <4> QED  BY <2>3, <4>1, <4>2
    <3> QED  BY <2>3, <3>2, <3>3, <3>4, <3>5
  <2> QED  BY <2>2, <2>3 DEF BringsObject
<1> QED  BY <1>3, <1>4

\* A step that is not the deletion of the records of p undoes nothing about them.
LEMMA StepAddsOnly ==
    ASSUME WorkInv, NEW w \in Workers, NEW s \in Steps, NEW p \in ProfileIds, NEW more, NEW k,
           StepFacts(w, s, p, more, k), Bounded(p), Cleared(p)
    PROVE  /\ Cleared(p)' /\ items[p] \subseteq items'[p] /\ cached[p] <= cached'[p]
           /\ cached'[p] <= row[p] /\ items'[p] \subseteq ObjectsOf(p)
<1>1. /\ \A v \in Workers \ {w} : \A x, q : ToDo(v, x, q)' <=> ToDo(v, x, q)
      /\ \A x, q : ToDo(w, x, q)' => (<<x, q>> \in more /\ q = p) \/ ToDo(w, x, q)
      /\ \A x : <<x, p>> \in more => x \in {"message", "record", "objects"}
  BY StepWork
<1>2. Cleared(p)'
  <2>1. ~ToDo(w, "clear", p)'
    <3>1. <<"clear", p>> \notin more
      BY <1>1
    <3> QED  BY <1>1, <3>1 DEF Cleared
  <2>2. \A v \in Workers \ {w} : ~ToDo(v, "clear", p)'
    BY <1>1 DEF Cleared
  <2> QED  BY <2>1, <2>2 DEF Cleared
<1>3. TablesOf(w, s, p, more) /\ StepsTo(w, s, p, more, k)
  BY DEF StepFacts, StepOf
<1>4. s # "clear" /\ p \in worker[w].ids
  BY <1>3 DEF StepsTo, Cleared
<1>5. /\ row[p] \in Nat /\ cached[p] \in Nat
      /\ worker[w].snap[p].at <= row[p] /\ worker[w].snap[p].objs \subseteq ObjectsOf(p)
      /\ cached[p] <= row[p] /\ items[p] \subseteq ObjectsOf(p)
  BY <1>4, TimesFacts DEF WorkInv, Abreast, AllTypes, AuroraTypes, CacheTypes, Bounded
<1>6. cached'[p] = cached[p] \/ (cached'[p] = worker[w].snap[p].at /\ cached[p] <= cached'[p])
  <2>1. CASE s = "record" /\ cached[p] <= worker[w].snap[p].at
    <3>1. cached'[p] = worker[w].snap[p].at
      BY <1>3, <2>1, Zenon DEF TablesOf
    <3> QED  BY <2>1, <3>1
  <2>2. CASE ~(s = "record" /\ cached[p] <= worker[w].snap[p].at)
    <3>1. cached'[p] = cached[p]
      BY <1>3, <1>4, <2>2, Zenon DEF TablesOf
    <3> QED  BY <3>1
  <2> QED  BY <2>1, <2>2
<1>7. items'[p] = items[p] \/ items'[p] = items[p] \cup worker[w].snap[p].objs
  BY <1>3, <1>4, Zenon DEF TablesOf
<1> QED  BY <1>2, <1>5, <1>6, <1>7

\* No step loses what is there or on its way.
LEMMA StepKeepsDynamo ==
    ASSUME WorkInv, DynamoInv, NEW w \in Workers, NEW s \in Steps, NEW p \in ProfileIds,
           NEW more, NEW k, StepFacts(w, s, p, more, k)
    PROVE  DynamoInv'
<1>1. /\ worker'[w] = k /\ \A v \in Workers \ {w} : worker'[v] = worker[v]
      /\ \A v \in Workers \ {w} : \A x, q : ToDo(v, x, q)' <=> ToDo(v, x, q)
      /\ \A x, q : ToDo(w, x, q)' => (<<x, q>> \in more /\ q = p) \/ ToDo(w, x, q)
      /\ \A x, q : ToDo(w, x, q) /\ (x # s \/ q # p) => ToDo(w, x, q)'
      /\ \A x, q : ToDo(w, x, q)' => k # Idle
      /\ \A x : <<x, p>> \in more => x \in {"message", "record", "objects"}
      /\ \A q : Untouched(q)
  BY StepWork
<1>2. /\ awaited \subseteq awaited' /\ failed \subseteq failed'
      /\ k = Idle \/ \A q \in ProfileIds \ {p} : k.snap[q] = worker[w].snap[q]
      /\ \A q \in ProfileIds \ {p} : cached'[q] = cached[q] /\ items'[q] = items[q]
      /\ TablesOf(w, s, p, more) /\ StepsTo(w, s, p, more, k)
  BY DEF StepFacts, StepOf
<1> SUFFICES ASSUME NEW q \in ProfileIds \ failed
             PROVE  Bounded(q)' /\ (Lives(q)' => q \in Skipped \cup awaited' \/ Brought(q)')
  BY <1>2 DEF DynamoInv
<1>3. Bounded(q) /\ (Lives(q) => q \in Skipped \cup awaited \/ Brought(q))
  BY DEF DynamoInv
<1>4. CASE q # p
  <2>1. \A v \in Workers : \A x \in Steps : ToDo(v, x, q)' <=> ToDo(v, x, q)
    BY <1>1, <1>4
  <2>2. \A v \in Workers : (\E x \in Steps : ToDo(v, x, q))
          => worker'[v].snap[q] = worker[v].snap[q]
    BY <1>1, <1>2, <1>4
  <2>3. cached'[q] = cached[q] /\ items'[q] = items[q] /\ Untouched(q)
          /\ (q \in awaited => q \in awaited')
    BY <1>1, <1>2, <1>4
  <2> QED  BY <1>3, <2>1, <2>2, <2>3, DynamoKept
<1>5. CASE q = p
  <2>1. /\ Lives(p)' <=> Lives(p)
        /\ row'[p] = row[p] /\ ObjectsOf(p)' = ObjectsOf(p)
    BY <1>1 DEF Untouched
  <2>2. row[p] \in Nat /\ cached[p] \in Nat
    BY TimesFacts DEF WorkInv, AllTypes, AuroraTypes, CacheTypes
  <2>3. CASE Cleared(p)
    <3>1. /\ Cleared(p)' /\ items[p] \subseteq items'[p] /\ cached[p] <= cached'[p]
          /\ cached'[p] <= row[p] /\ items'[p] \subseteq ObjectsOf(p)
      BY <1>3, <1>5, <2>3, StepAddsOnly
    <3>2. Bounded(p)'
      BY <2>1, <3>1 DEF Bounded
    <3>3. cached[p] = row[p] => cached'[p] = row[p]
      <4>1. cached'[p] \in Nat
        BY TimesFacts DEF StepFacts, StepOf, AllTypes, CacheTypes
      <4> QED  BY <2>2, <3>1, <4>1
    <3>4. ASSUME Lives(p)', p \notin Skipped \cup awaited'  PROVE Brought(p)'
      <4>1. Brought(p)
        BY <1>2, <1>3, <1>5, <2>1, <3>4
      <4>2. (Cleared(p) /\ cached[p] = row[p])' \/ \E v \in Workers : BringsRow(v, p)'
        <5>1. CASE cached[p] = row[p]
          BY <2>1, <3>1, <3>3, <5>1
        <5>2. ASSUME NEW v \in Workers, BringsRow(v, p)
              PROVE  BringsRow(v, p)' \/ (Cleared(p) /\ cached[p] = row[p])'
          <6>1. CASE v = w
            BY <1>3, <1>5, <2>1, <3>1, <3>4, <5>2, <6>1, StepBringsRow
          <6>2. CASE v # w
            <7>1. Newest(p)' = Newest(p)
              BY <1>1, NewestKept
            <7> QED  BY <1>1, <2>1, <5>2, <6>2, <7>1 DEF BringsRow
          <6> QED  BY <6>1, <6>2
        <5> QED  BY <4>1, <5>1, <5>2 DEF Brought
      <4>3. ASSUME NEW o \in ObjectsOf(p)
            PROVE  (Cleared(p) /\ o \in items[p])' \/ \E v \in Workers : BringsObject(v, p, o)'
        <5>1. CASE o \in items[p]
          BY <3>1, <5>1
        <5>2. ASSUME NEW v \in Workers, BringsObject(v, p, o)
              PROVE  BringsObject(v, p, o)' \/ (Cleared(p) /\ o \in items[p])'
          <6>1. CASE v = w
            BY <3>1, <3>4, <5>2, <6>1, StepBringsObject
          <6>2. CASE v # w
            BY <1>1, <5>2, <6>2 DEF BringsObject
          <6> QED  BY <6>1, <6>2
        <5> QED  BY <4>1, <5>1, <5>2 DEF Brought
      <4> QED  BY <2>1, <4>2, <4>3 DEF Brought
    <3> QED  BY <1>5, <3>2, <3>4
  <2>4. CASE ~Cleared(p)
    <3>1. Bounded(p)'
      <4>1. CASE s = "clear"
        <5>1. cached'[p] = 0 /\ items'[p] = {}
          BY <1>2, <4>1, Zenon DEF TablesOf
        <5> QED  BY <2>1, <2>2, <5>1 DEF Bounded
      <4>2. CASE s # "clear"
        <5>1. ~Cleared(p)'
          BY <1>1, <2>4, <4>2 DEF Cleared
        <5> QED  BY <5>1 DEF Bounded
      <4> QED  BY <4>1, <4>2
    <3>2. ASSUME Lives(p)', p \notin Skipped \cup awaited'  PROVE Brought(p)'
      <4>1. Brought(p)
        BY <1>2, <1>3, <1>5, <2>1, <3>2
      <4>2. ASSUME NEW v \in Workers, BringsRow(v, p)
            PROVE  BringsRow(v, p)'
        <5>1. CASE v = w
          BY <1>3, <1>5, <2>4, <3>2, <4>2, <5>1, StepBringsRow
        <5>2. CASE v # w
          <6>1. Newest(p)' = Newest(p)
            BY <1>1, NewestKept
          <6> QED  BY <1>1, <2>1, <4>2, <5>2, <6>1 DEF BringsRow
        <5> QED  BY <5>1, <5>2
      <4>3. ASSUME NEW o \in ObjectsOf(p), NEW v \in Workers, BringsObject(v, p, o)
            PROVE  BringsObject(v, p, o)'
        <5>1. CASE v = w
          BY <2>4, <3>2, <4>3, <5>1, StepBringsObject
        <5>2. CASE v # w
          BY <1>1, <4>3, <5>2 DEF BringsObject
        <5> QED  BY <5>1, <5>2
      <4> QED  BY <2>1, <2>4, <4>1, <4>2, <4>3 DEF Brought
    <3> QED  BY <1>5, <3>1, <3>2
  <2> QED  BY <2>3, <2>4
<1> QED  BY <1>4, <1>5

\* An operation that fails leaves its profiles to its caller.
LEMMA FailsKeepsDynamo ==
    ASSUME WorkInv, DynamoInv, "merge" \notin Fallible, NEW w \in Workers, Fails(w)
    PROVE  DynamoInv'
<1>1. /\ worker'[w] = Idle /\ \A v \in Workers \ {w} : worker'[v] = worker[v]
      /\ failed' = failed \cup worker[w].ids
      /\ \A s \in Steps, p \in ProfileIds : ToDo(w, s, p) => p \in worker[w].ids
      /\ UNCHANGED <<dynamoVars, awaited, auroraVars>>
  BY FailsShape
<1> SUFFICES ASSUME NEW q \in ProfileIds \ failed'
             PROVE  Bounded(q)' /\ (Lives(q)' => q \in Skipped \cup awaited' \/ Brought(q)')
  BY DEF DynamoInv
<1>2. Bounded(q) /\ (Lives(q) => q \in Skipped \cup awaited \/ Brought(q))
  BY <1>1 DEF DynamoInv
<1>3. \A v \in Workers : \A s \in Steps : ToDo(v, s, q)' <=> ToDo(v, s, q)
  <2>1. \A s \in Steps : ~ToDo(w, s, q) /\ ~ToDo(w, s, q)'
    BY <1>1, IdlePlanned DEF ToDo
  <2>2. \A v \in Workers \ {w} : \A s \in Steps : ToDo(v, s, q)' <=> ToDo(v, s, q)
    BY <1>1 DEF ToDo
  <2> QED  BY <2>1, <2>2
<1>4. \A v \in Workers : (\E s \in Steps : ToDo(v, s, q))
        => worker'[v].snap[q] = worker[v].snap[q]
  BY <1>1
<1>5. Untouched(q) /\ cached'[q] = cached[q] /\ items'[q] = items[q] /\ awaited' = awaited
  BY <1>1 DEF auroraVars, dynamoVars, Untouched, Lives, ObjectsOf
<1> QED  BY <1>2, <1>3, <1>4, <1>5, DynamoKept

\* The writer and the indexer do not touch DynamoDB.
LEMMA StoreKeepsDynamo ==
    ASSUME DynamoInv, UNCHANGED StoreVars
    PROVE  DynamoInv'
<1>1. UNCHANGED <<dynamoVars, awaited, auroraVars, worker, failed>>
  BY DEF StoreVars
<1> SUFFICES ASSUME NEW q \in ProfileIds \ failed
             PROVE  Bounded(q)' /\ (Lives(q)' => q \in Skipped \cup awaited' \/ Brought(q)')
  BY <1>1 DEF DynamoInv
<1>2. Bounded(q) /\ (Lives(q) => q \in Skipped \cup awaited \/ Brought(q))
  BY DEF DynamoInv
<1>3. \A v \in Workers : \A s \in Steps : ToDo(v, s, q)' <=> ToDo(v, s, q)
  BY <1>1 DEF ToDo
<1>4. Untouched(q) /\ cached'[q] = cached[q] /\ items'[q] = items[q] /\ awaited' = awaited
  BY <1>1 DEF auroraVars, dynamoVars, Untouched, Lives, ObjectsOf
<1> QED  BY <1>1, <1>2, <1>3, <1>4, DynamoKept

\* The invariant of DynamoDB is inductive.
LEMMA DynamoInvKept ==
    ASSUME Apart, "merge" \notin Fallible, WorkInv, DynamoInv, [Next]_vars
    PROVE  DynamoInv'
<1>1. ASSUME NEW w \in Workers, Operation(w)  PROVE DynamoInv'
  BY <1>1, OperationStarts, StartKeepsDynamo DEF WorkInv
<1>2. ASSUME NEW w \in Workers, Continue(w)  PROVE DynamoInv'
  BY <1>2, ContinueFacts, StepKeepsDynamo
<1>3. ASSUME NEW w \in Workers, Fails(w)  PROVE DynamoInv'
  BY <1>3, FailsKeepsDynamo
<1>4. CASE UNCHANGED StoreVars
  BY <1>4, StoreKeepsDynamo
<1>5. UNCHANGED vars => UNCHANGED StoreVars
  BY DEF vars, StoreVars
<1> QED  BY <1>1, <1>2, <1>3, <1>4, <1>5 DEF Next

\* It holds at first.
LEMMA InitDynamo == Init => DynamoInv
<1> SUFFICES ASSUME Init, NEW p \in ProfileIds  PROVE Bounded(p) /\ ~Lives(p)
  BY DEF DynamoInv
<1>1. connect[p] = Nobody /\ cached[p] = 0 /\ row[p] = 0 /\ items[p] = {}
  BY DEF Init
<1> QED  BY <1>1, TimesFacts DEF Bounded, Lives

\* Nothing is to do when nobody works.
LEMMA WhenSettled ==
    ASSUME WorkInv, Settled
    PROVE  \A w \in Workers : \A s, p : ~ToDo(w, s, p)
<1>1. \A w \in Workers : worker[w] = Idle
  BY DEF WorkInv, Planned, Settled, IsIdle
<1> QED  BY <1>1, IdlePlanned DEF ToDo

\* Then DynamoDB shows what Aurora holds.
LEMMA DynamoSettles ==
    ASSUME WorkInv, DynamoInv
    PROVE  DynamoInSync
<1> SUFFICES ASSUME Settled, NEW p \in ProfileIds \ failed
             PROVE  IF Lives(p)
                    THEN p \in Skipped \cup awaited
                         \/ (cached[p] = row[p] /\ items[p] = ObjectsOf(p))
                    ELSE cached[p] = 0 /\ items[p] = {}
  BY DEF DynamoInSync
<1>1. \A w \in Workers : \A s, q : ~ToDo(w, s, q)
  BY WhenSettled
<1>2. Cleared(p)
  BY <1>1 DEF Cleared
<1>3. /\ cached[p] <= row[p] /\ items[p] \subseteq ObjectsOf(p)
      /\ Lives(p) => p \in Skipped \cup awaited \/ Brought(p)
  BY <1>2 DEF DynamoInv, Bounded
<1>4. CASE Lives(p)
  <2>1. Brought(p) => cached[p] = row[p] /\ \A o \in ObjectsOf(p) : o \in items[p]
    BY <1>1 DEF Brought, BringsRow, BringsObject
  <2> QED  BY <1>3, <1>4, <2>1
<1>5. CASE ~Lives(p)
  <2>1. row[p] = 0 /\ cached[p] \in Nat
    BY <1>5, TimesFacts DEF WorkInv, AuroraOK, AllTypes, CacheTypes
  <2>2. ObjectsOf(p) = {}
    BY <1>5 DEF WorkInv, AuroraOK, ObjectsOf, Lives, AllTypes, AuroraTypes
  <2> QED  BY <1>3, <1>5, <2>1, <2>2
<1> QED  BY <1>4, <1>5

(***************************************************************************)
(* When no worker is busy, the DynamoDB table shows of every profile the   *)
(* latest timestamp and all objects that Aurora holds, and nothing of an   *)
(* id that is no profile: for any number of workers, profiles, objects and *)
(* operations.  Any two updates of one profile may be under way at a time; *)
(* assumed is that no operation works on a profile that another one is     *)
(* merging away, unmerging or erasing, and that the cache calls of a merge *)
(* do not fail (such a merge is redelivered and acknowledged without being *)
(* finished).  Left out are ids whose operation failed, those whose update *)
(* was left to a merge, and those a cache rule skips.                      *)
(***************************************************************************)
THEOREM DynamoStaysInSync ==
    ASSUME Apart, "merge" \notin Fallible
    PROVE  Spec => []DynamoInSync
<1>1. Init => WorkInv /\ DynamoInv
  BY InitKeepsWork, InitDynamo
<1>2. WorkInv /\ DynamoInv /\ [Next]_vars => (WorkInv /\ DynamoInv)'
  BY WorkKept, DynamoInvKept
<1>3. WorkInv /\ DynamoInv => DynamoInSync
  BY DynamoSettles
<1> QED  BY <1>1, <1>2, <1>3, PTL DEF Spec
----------------------------------------------------------------------------
(* The queue *)

\* Two ways to say that a message about p is on the queue.
LEMMA QueuedIs == \A p : (Queued(p) <=> AboutIn(queue, p)) /\ (Queued(p)' <=> AboutIn(queue', p))
  BY DEF Queued, AboutIn

\* What the step s of p does to the queue.
LEMMA StepQueue ==
    ASSUME WorkInv, NEW w \in Workers, NEW s \in Steps, NEW p \in ProfileIds, NEW more, NEW k,
           StepFacts(w, s, p, more, k), NEW q \in ProfileIds
    PROVE  /\ AboutIn(queue', q) => AboutIn(queue, q) \/ q = p
           /\ Waiting(q, "delete_profile")' =>
                 Waiting(q, "delete_profile") \/ (q = p /\ s = "withdraw")
           /\ Waiting(q, "put_profile")' => Waiting(q, "put_profile") \/ (q = p /\ s = "message")
           /\ Waiting(q, "put_profile") => Waiting(q, "put_profile")'
           /\ s = "message" => Waiting(p, "put_profile")'
           /\ s = "withdraw" => DeletionLast(p)'
           /\ DeletionLast(q) => DeletionLast(q)' \/ (q = p /\ s = "message")
<1>1. QueueOf(s, p) /\ queue \in Seq(Messages)
  BY DEF StepFacts, WorkInv, AllTypes, WriterTypes
<1>2. PICK a, b : a = queue /\ b = queue'
  OBVIOUS
<1>3. CASE s = "message"
  <2>1. PICK m : m = PutMessage(p)
    OBVIOUS
  <2>2. /\ m \in Messages /\ m.request = "put_profile" /\ m.id = p
        /\ a \in Seq(Messages) /\ b = Append(a, m)
    BY <1>1, <1>2, <1>3, <2>1, MessageTypes, MessageParts DEF QueueOf
  <2>3. /\ AboutIn(b, q) <=> AboutIn(a, q) \/ m.id = q
        /\ \A u : WaitingIn(b, q, u) <=> WaitingIn(a, q, u) \/ (m.request = u /\ m.id = q)
        /\ DeletionLastIn(a, q) /\ ~(m.request = "put_profile" /\ m.id = q) =>
             DeletionLastIn(b, q)
    BY <2>2, QueueGrows
  <2>4. \A u : WaitingIn(b, p, u) <=> WaitingIn(a, p, u) \/ (m.request = u /\ m.id = p)
    BY <2>2, QueueGrows
  <2> QED  BY <1>2, <1>3, <2>2, <2>3, <2>4 DEF Waiting, DeletionLast
<1>4. CASE s = "withdraw"
  <2>1. PICK m : m = DeleteMessage(p, NumRetries)
    OBVIOUS
  <2>2. /\ m \in Messages /\ m.request = "delete_profile" /\ m.id = p
        /\ a \in Seq(Messages) /\ b = Append(a, m)
    BY <1>1, <1>2, <1>4, <2>1, MessageTypes, MessageParts DEF QueueOf
  <2>3. /\ AboutIn(b, q) <=> AboutIn(a, q) \/ m.id = q
        /\ \A u : WaitingIn(b, q, u) <=> WaitingIn(a, q, u) \/ (m.request = u /\ m.id = q)
        /\ DeletionLastIn(a, q) /\ ~(m.request = "put_profile" /\ m.id = q) =>
             DeletionLastIn(b, q)
    BY <2>2, QueueGrows
  <2>4. DeletionLastIn(b, p)
    BY <2>2, QueueGrows
  <2> QED  BY <1>2, <1>4, <2>2, <2>3, <2>4 DEF Waiting, DeletionLast
<1>5. CASE s \notin {"message", "withdraw"}
  <2>1. queue' = queue
    BY <1>1, <1>5 DEF QueueOf
  <2> QED  BY <1>5, <2>1 DEF Waiting, DeletionLast
<1> QED  BY <1>3, <1>4, <1>5

\* Steps only write messages about ids that are known; a put of one that lives, a
\* deletion of one that does not.
LEMMA StepFits ==
    ASSUME WorkInv, NEW w \in Workers, NEW s \in Steps, NEW p \in ProfileIds, NEW more, NEW k,
           StepFacts(w, s, p, more, k)
    PROVE  Known(p) /\ (s \in Up => Lives(p)) /\ (s \in Away => ~Lives(p))
<1>1. ToDo(w, s, p) /\ p \in worker[w].ids
  BY DEF StepFacts, StepOf, StepsTo
<1> QED  BY <1>1 DEF WorkInv, Abreast

\* No deletion of a profile that lives is ever on the queue.
LEMMA QueueKept ==
    ASSUME Apart, Prompt, WorkInv, QueueOK, [Next]_vars
    PROVE  QueueOK'
<1>1. ASSUME NEW w \in Workers, Operation(w)  PROVE QueueOK'
  <2>1. PICK j : StartsWork(w, j) /\ FitsWork(j)
    BY <1>1, OperationStarts DEF WorkInv
  <2>2. Changes(j.ids, j.ending) /\ queue' = queue
    BY <2>1 DEF StartsWork, writerVars
  <2> SUFFICES ASSUME NEW p \in ProfileIds
               PROVE  /\ Queued(p)' => Known(p)'
                      /\ Lives(p)' => ~Waiting(p, "delete_profile")'
    BY DEF QueueOK
  <2>3. (Queued(p)' <=> Queued(p))
          /\ (Waiting(p, "delete_profile")' <=> Waiting(p, "delete_profile"))
    BY <2>2 DEF Queued, Waiting
  <2>4. (Queued(p) => Known(p)) /\ (Lives(p) => ~Waiting(p, "delete_profile"))
    BY DEF QueueOK
  <2>5. Known(p) => Known(p)'
    BY <2>2 DEF Changes
  <2>6. Waiting(p, "delete_profile") => Queued(p)
    BY DEF Waiting, WaitingIn, Queued
  <2>7. Lives(p)' => Lives(p) \/ ~Queued(p)
    <3>1. CASE p \notin j.ids
      BY <2>2, <3>1 DEF Changes, Untouched
    <3>2. CASE p \in j.ids
      <4>1. Lives(p)' => (~Lives(p) => ~Known(p) \/ ~Queued(p))
        BY <2>1, <3>2 DEF FitsWork
      <4> QED  BY <2>4, <4>1
    <3> QED  BY <3>1, <3>2
  <2> QED  BY <2>3, <2>4, <2>5, <2>6, <2>7
<1>2. ASSUME NEW w \in Workers, Continue(w)  PROVE QueueOK'
  <2>a. PICK s \in Steps, p \in ProfileIds : \E more, k : StepFacts(w, s, p, more, k)
    BY <1>2, ContinueFacts
  <2>1. PICK more, k : StepFacts(w, s, p, more, k)
    BY <2>a
  <2>2. \A q : (Known(q)' <=> Known(q)) /\ (Lives(q)' <=> Lives(q))
    BY <2>1 DEF StepFacts, StepOf, auroraVars, Known, Lives
  <2>3. Known(p) /\ (s \in Away => ~Lives(p))
    BY <2>1, StepFits
  <2>4. ASSUME NEW q \in ProfileIds
        PROVE  /\ Queued(q)' => Known(q)'
               /\ Lives(q)' => ~Waiting(q, "delete_profile")'
    <3>1. /\ AboutIn(queue', q) => AboutIn(queue, q) \/ q = p
          /\ Waiting(q, "delete_profile")' =>
               Waiting(q, "delete_profile") \/ (q = p /\ s = "withdraw")
      BY <2>1, StepQueue
    <3> QED  BY <2>2, <2>3, <3>1, QueuedIs DEF QueueOK, Away
  <2> QED  BY <2>4 DEF QueueOK
<1>3. ASSUME NEW w \in Workers, Fails(w)  PROVE QueueOK'
  BY <1>3 DEF Fails, auroraVars, QueueOK, Queued, Waiting, Known, Lives
<1>4. CASE WriterNext /\ UNCHANGED StoreVars
  <2>1. \A q : (Known(q)' <=> Known(q)) /\ (Lives(q)' <=> Lives(q))
    BY <1>4 DEF StoreVars, auroraVars, Known, Lives
  <2>2. \A q : (AboutIn(queue', q) => AboutIn(queue, q))
               /\ (Waiting(q, "delete_profile")' => Waiting(q, "delete_profile"))
    <3>1. CASE \E i \in 1 .. Len(queue) : Write(i)
      <4>1. \A q : /\ AboutIn(queue', q) => AboutIn(queue, q)
                   /\ \A u : WaitingIn(queue', q, u) => WaitingIn(queue, q, u)
        BY <3>1, WriteQueue DEF WorkInv, AllTypes
      <4> QED  BY <4>1 DEF Waiting
    <3>2. CASE IndexProfile \/ IndexFails
      BY <3>2 DEF IndexProfile, IndexFails, Waiting
    <3> QED  BY <1>4, <3>1, <3>2 DEF WriterNext
  <2> QED  BY <2>1, <2>2, QueuedIs DEF QueueOK
<1>5. CASE UNCHANGED vars
  BY <1>5 DEF vars, writerVars, auroraVars, QueueOK, Queued, Waiting, Known, Lives
<1> QED  BY <1>1, <1>2, <1>3, <1>4, <1>5 DEF Next
----------------------------------------------------------------------------
(* Customer Profiles has what lives *)

\* A deletion with fewer retries is a message.
LEMMA DeletionTypes ==
    \A p \in ProfileIds : \A n \in 0 .. NumRetries : DeleteMessage(p, n) \in Messages
<1> SUFFICES ASSUME NEW p \in ProfileIds, NEW n \in 0 .. NumRetries
             PROVE  DeleteMessage(p, n) \in Messages
  OBVIOUS
<1> QED  BY DEF Messages

\* What the writer's work on message i does to the profile q.
LEMMA WriteEffect ==
    ASSUME WriterTypes, NEW i \in 1 .. Len(queue), Write(i), NEW q \in ProfileIds
    PROVE  /\ reported \subseteq reported'
           /\ Waiting(q, "put_profile") =>
                Waiting(q, "put_profile")' \/ service'[q] # NoName \/ q \in reported'
           /\ service[q] # NoName =>
                service'[q] # NoName \/ Waiting(q, "delete_profile")
           /\ service'[q] # NoName => service[q] # NoName \/ Waiting(q, "put_profile")
<1>1. PICK a, b, r, m : a = queue /\ b = queue' /\ r = RemoveAt(queue, i) /\ m = queue[i]
  OBVIOUS
<1>2. /\ a \in Seq(Messages) /\ r = RemoveAt(a, i) /\ r = Rest(i) /\ m = a[i]
           /\ r \in Seq(Messages)
      /\ m \in Messages /\ m.id \in ProfileIds
      /\ service \in [ProfileIds -> Names \cup {NoName}] /\ names + 1 # NoName
  BY <1>1, WriteShape, MessageParts, WriterBounds DEF WriterTypes, Rest, NoName
<1>3. /\ WaitingIn(a, q, "put_profile") /\ ~(m.request = "put_profile" /\ m.id = q) =>
           WaitingIn(r, q, "put_profile")
      /\ m.id = q => WaitingIn(a, q, m.request)
  <2>1. WaitingIn(a, q, "put_profile") /\ ~(a[i].request = "put_profile" /\ a[i].id = q) =>
           WaitingIn(r, q, "put_profile")
    <3>1. i \in 1 .. Len(a)
      BY <1>1
    <3>2. \A x : WaitingIn(a, q, x) /\ ~(a[i].request = x /\ a[i].id = q) => WaitingIn(r, q, x)
      BY <1>2, <3>1, QueueShrinks
    <3> QED  BY <3>2, Zenon
  <2>2. m.id = q => WaitingIn(a, q, m.request)
    BY <1>1 DEF WaitingIn
  <2> QED  BY <1>2, <2>1, <2>2
<1>4. CASE WriteProfile(i)
  <2>1. /\ m.request = "put_profile" /\ reported' = reported /\ (b = r \/ b = a)
        /\ service' = IF service[m.id] = NoName THEN [service EXCEPT ![m.id] = names + 1]
                      ELSE service
    BY <1>1, <1>2, <1>4 DEF WriteProfile
  <2>2. service'[m.id] # NoName /\ \A x \in ProfileIds \ {m.id} : service'[x] = service[x]
    BY <1>2, <2>1
  <2>3. CASE q = m.id
    BY <1>1, <1>3, <2>1, <2>2, <2>3 DEF Waiting
  <2>4. CASE q # m.id
    BY <1>1, <1>3, <2>1, <2>2, <2>4 DEF Waiting
  <2> QED  BY <2>3, <2>4
<1>5. CASE Refused(i)
  BY <1>1, <1>2, <1>3, <1>5 DEF Refused, Filed, SentToDLQ, Waiting
<1>6. CASE DeleteFromService(i)
  <2>1. /\ m.request = "delete_profile" /\ reported \subseteq reported' /\ b = r
        /\ service' = service \/ service' = [service EXCEPT ![m.id] = NoName]
    BY <1>1, <1>2, <1>6 DEF DeleteFromService, Filed, SentToDLQ
  <2>2. \A x \in ProfileIds \ {m.id} : service'[x] = service[x]
    BY <1>2, <2>1
  <2>3. service'[q] # NoName => service[q] # NoName
    BY <1>2, <2>1
  <2>4. WaitingIn(a, q, "put_profile") => WaitingIn(b, q, "put_profile")
    BY <1>3, <2>1
  <2>5. service[q] # NoName => service'[q] # NoName \/ WaitingIn(a, q, "delete_profile")
    BY <1>3, <2>1, <2>2
  <2> QED  BY <1>1, <2>1, <2>3, <2>4, <2>5 DEF Waiting
<1>7. CASE DeleteLater(i)
  <2>1. PICK d : d = DeleteMessage(m.id, RetriesAfter(m.retries))
    OBVIOUS
  <2>2. /\ m.request = "delete_profile" /\ b = Append(r, d)
        /\ service' = service /\ reported' = reported
    BY <1>1, <1>2, <1>7, <2>1 DEF DeleteLater
  <2>3. d \in Messages
    <3>1. m.retries \in 0 .. NumRetries /\ m.retries > 0
      BY <1>1, <1>2, <1>7, MessageParts DEF DeleteLater
    <3>2. RetriesAfter(m.retries) \in 0 .. NumRetries
      BY <3>1 DEF RetriesAfter, OneLess, NumRetries
    <3> QED  BY <1>2, <2>1, <3>2, DeletionTypes
  <2>4. r \in Seq(Messages)
    BY <1>2
  <2>5. WaitingIn(r, q, "put_profile") => WaitingIn(b, q, "put_profile")
    BY <2>2, <2>3, <2>4, QueueGrows
  <2> QED  BY <1>1, <1>3, <2>2, <2>5 DEF Waiting
<1>8. CASE GiveUp(i)
  BY <1>1, <1>2, <1>3, <1>8 DEF GiveUp, Waiting
<1> QED  BY <1>4, <1>5, <1>6, <1>7, <1>8 DEF Write

\* The profile p of an operation or a step is in the service, or on its way there.
Served(p) ==
    \/ p \in Skipped \cup awaited \cup reported \cup failed
    \/ service[p] # NoName
    \/ Waiting(p, "put_profile")
    \/ \E w \in Workers, s \in {"row", "build", "update", "message"} : ToDo(w, s, p)

\* What lives is served, or on its way.
LEMMA ServedKept ==
    ASSUME Apart, Prompt, "merge" \notin Fallible, WorkInv, QueueOK, ServedInv, [Next]_vars
    PROVE  ServedInv'
<1> SUFFICES ASSUME NEW q \in ProfileIds, Lives(q)'  PROVE Served(q)'
  BY DEF ServedInv, Served
<1>1. Lives(q) => Served(q)
  BY DEF ServedInv, Served
<1>2. ASSUME NEW w \in Workers, Operation(w)  PROVE Served(q)'
  <2>1. PICK j : StartsWork(w, j) /\ FitsWork(j)
    BY <1>2, OperationStarts DEF WorkInv
  <2>2. /\ worker'[w] = j /\ \A v \in Workers \ {w} : worker'[v] = worker[v]
        /\ \A s, p : ~ToDo(w, s, p) /\ (ToDo(w, s, p)' <=> Has(j.stages, <<s, p>>))
        /\ \A v \in Workers \ {w} : \A s, p : ToDo(v, s, p)' <=> ToDo(v, s, p)
    BY <2>1, StartShape DEF WorkInv
  <2>3. /\ Changes(j.ids, j.ending) /\ UNCHANGED <<writerVars, failed>>
        /\ \A p \in awaited \ j.ids : p \in awaited'
    BY <2>1 DEF StartsWork
  <2>4. CASE q \in j.ids
    <3>1. Has(j.stages, <<"update", q>>)
      BY <2>1, <2>4 DEF FitsWork
    <3> QED  BY <2>2, <3>1 DEF Served
  <2>5. CASE q \notin j.ids
    <3>1. Served(q)
      BY <1>1, <2>3, <2>5 DEF Changes, Untouched
    <3>2. \A v \in Workers : \A s : ToDo(v, s, q) => ToDo(v, s, q)'
      BY <2>2
    <3> QED  BY <2>3, <2>5, <3>1, <3>2 DEF Served, writerVars, Waiting
  <2> QED  BY <2>4, <2>5
<1>3. ASSUME NEW w \in Workers, Continue(w)  PROVE Served(q)'
  <2>a. PICK s \in Steps, p \in ProfileIds : \E more, k : StepFacts(w, s, p, more, k)
    BY <1>3, ContinueFacts
  <2>1. PICK more, k : StepFacts(w, s, p, more, k)
    BY <2>a
  <2>2. /\ worker'[w] = k
        /\ \A v \in Workers \ {w} : \A x, y : ToDo(v, x, y)' <=> ToDo(v, x, y)
        /\ \A x, y : ToDo(w, x, y) /\ (x # s \/ y # p) => ToDo(w, x, y)'
        /\ \A x \in more : Has(k.stages, x)
        /\ \A y : Untouched(y)
    BY <2>1, StepWork
  <2>3. /\ awaited \subseteq awaited' /\ failed \subseteq failed' /\ reported' = reported
        /\ \A y \in ProfileIds \ {p} : service'[y] = service[y]
        /\ TablesOf(w, s, p, more) /\ QueueOf(s, p) /\ StepsTo(w, s, p, more, k)
    BY <2>1 DEF StepFacts, StepOf
  <2>4. Lives(q) /\ Served(q)
    BY <1>1, <2>2 DEF Untouched
  <2>5. Waiting(q, "put_profile") => Waiting(q, "put_profile")'
    BY <2>1, StepQueue
  <2>6. CASE q \in Skipped \cup awaited \cup reported \cup failed \/ Waiting(q, "put_profile")
    BY <2>3, <2>5, <2>6 DEF Served
  <2>7. CASE service[q] # NoName
    <3>1. q = p => s # "remove"
      BY <2>1, <2>4, StepFits DEF Away
    <3>2. service'[q] = service[q]
      BY <2>3, <3>1 DEF QueueOf
    <3> QED  BY <2>7, <3>2 DEF Served
  <2>8. ASSUME NEW v \in Workers, NEW x \in {"row", "build", "update", "message"}, ToDo(v, x, q)
        PROVE  Served(q)'
    <3>1. CASE v # w \/ x # s \/ q # p
      <4>1. ToDo(v, x, q)'
        BY <2>2, <2>8, <3>1
      <4> QED  BY <4>1 DEF Served
    <3>2. CASE v = w /\ q = p /\ x = s /\ s \in {"row", "build"}
      <4>1. ToDo(w, "update", q)'
        BY <2>2, <2>3, <3>2 DEF StepsTo, ToDo
      <4> QED  BY <4>1 DEF Served
    <3>3. CASE v = w /\ q = p /\ x = s /\ s = "update"
      <4>1. CASE p \in Skipped \cup awaited'
        BY <3>3, <4>1 DEF Served
      <4>2. CASE more = {<<"message", p>>, <<"record", p>>}
        <5>1. ToDo(w, "message", q)'
          BY <2>2, <3>3, <4>2 DEF ToDo
        <5> QED  BY <5>1 DEF Served
      <4> QED  BY <2>3, <3>3, <4>1, <4>2 DEF TablesOf
    <3>4. CASE v = w /\ q = p /\ x = s /\ s = "message"
      <4>1. Waiting(q, "put_profile")'
        BY <2>1, <3>4, StepQueue
      <4> QED  BY <4>1 DEF Served
    <3> QED  BY <2>8, <3>1, <3>2, <3>3, <3>4
  <2> QED  BY <2>4, <2>6, <2>7, <2>8 DEF Served
<1>4. ASSUME NEW w \in Workers, Fails(w)  PROVE Served(q)'
  <2>1. /\ \A v \in Workers \ {w} : worker'[v] = worker[v]
        /\ failed' = failed \cup worker[w].ids
        /\ \A s \in Steps, p \in ProfileIds : ToDo(w, s, p) => p \in worker[w].ids
        /\ UNCHANGED <<queue, service, reported, awaited>> /\ UNCHANGED auroraVars
    BY <1>4, FailsShape
  <2>2. Served(q)
    BY <1>1, <2>1 DEF auroraVars, Lives
  <2>3. \A v \in Workers, s \in Steps : ToDo(v, s, q) => ToDo(v, s, q)' \/ q \in failed'
    BY <2>1 DEF ToDo
  <2>4. {"row", "build", "update", "message"} \subseteq Steps
    BY DEF Steps
  <2>5. Waiting(q, "put_profile") => Waiting(q, "put_profile")'
    BY <2>1 DEF Waiting
  <2> QED  BY <2>1, <2>2, <2>3, <2>4, <2>5 DEF Served
<1>5. CASE WriterNext /\ UNCHANGED StoreVars
  <2>1. /\ Lives(q)' <=> Lives(q)
        /\ \A v, s : ToDo(v, s, q)' <=> ToDo(v, s, q)
        /\ awaited' = awaited /\ failed' = failed
    BY <1>5 DEF StoreVars, auroraVars, Lives, ToDo
  <2>2. Served(q) /\ ~Waiting(q, "delete_profile")
    BY <1>1, <2>1 DEF QueueOK
  <2>3. CASE \E i \in 1 .. Len(queue) : Write(i)
    <3>1. /\ reported \subseteq reported'
          /\ Waiting(q, "put_profile") =>
               Waiting(q, "put_profile")' \/ service'[q] # NoName \/ q \in reported'
          /\ service[q] # NoName => service'[q] # NoName
      BY <2>2, <2>3, WriteEffect DEF WorkInv, AllTypes
    <3> QED  BY <2>1, <2>2, <3>1 DEF Served
  <2>4. CASE IndexProfile \/ IndexFails
    <3>1. UNCHANGED <<queue, service, reported>>
      BY <2>4 DEF IndexProfile, IndexFails
    <3> QED  BY <2>1, <2>2, <3>1 DEF Served, Waiting
  <2> QED  BY <1>5, <2>3, <2>4 DEF WriterNext
<1>6. CASE UNCHANGED vars
  BY <1>1, <1>6 DEF vars, writerVars, auroraVars, Served, Waiting, Lives, ToDo
<1> QED  BY <1>2, <1>3, <1>4, <1>5, <1>6 DEF Next

\* At first nothing lives.
LEMMA InitServed == Init => QueueOK /\ ServedInv
<1> SUFFICES ASSUME Init, NEW p \in ProfileIds
             PROVE  ~Queued(p) /\ ~Lives(p)
  BY DEF QueueOK, ServedInv
<1>1. connect[p] = Nobody /\ queue = <<>>
  BY DEF Init, WriterInit
<1> QED  BY <1>1, TimesFacts DEF Lives, Queued

\* When nobody works and the queue is empty it is served.
LEMMA ServedSettles ==
    ASSUME WorkInv, ServedInv
    PROVE  ProfilesAreServed
<1> SUFFICES ASSUME Drained, NEW p \in ProfileIds, Lives(p)
             PROVE  p \in Skipped \cup awaited \cup reported \cup failed \/ service[p] # NoName
  BY DEF ProfilesAreServed
<1>1. \A w \in Workers : \A s, q : ~ToDo(w, s, q)
  BY WhenSettled DEF Drained
<1>2. ~Waiting(p, "put_profile")
  BY DEF Drained, Waiting, WaitingIn
<1> QED  BY <1>1, <1>2 DEF ServedInv

(***************************************************************************)
(* When the queue and the stream are empty too, Customer Profiles has      *)
(* every profile that lives, or a failure was reported; for any order of   *)
(* the queue, and any number of faults and duplicates.  Beyond what the    *)
(* DynamoDB table needs it is assumed that an id is not unmerged or erased *)
(* while a message about it is still on the queue: a deletion on its way   *)
(* would take the profile that came back.                                  *)
(***************************************************************************)
THEOREM AllAreServed ==
    ASSUME Apart, Prompt, "merge" \notin Fallible
    PROVE  Spec => []ProfilesAreServed
<1>1. Init => WorkInv /\ QueueOK /\ ServedInv
  BY InitKeepsWork, InitServed
<1>2. WorkInv /\ QueueOK /\ ServedInv /\ [Next]_vars => (WorkInv /\ QueueOK /\ ServedInv)'
  BY WorkKept, QueueKept, ServedKept
<1>3. WorkInv /\ ServedInv => ProfilesAreServed
  BY ServedSettles
<1> QED  BY <1>1, <1>2, <1>3, PTL DEF Spec
----------------------------------------------------------------------------
(* Customer Profiles has nothing else *)

\* Operations leave the writer and the indexer alone.
LEMMA OperationUnchanged ==
    ASSUME NEW w, Operation(w)
    PROVE  UNCHANGED writerVars
<1>1. ASSUME NEW p, NEW o, NEW t, Put(w, p, o, t)  PROVE UNCHANGED writerVars
  BY <1>1 DEF Put, Starts
<1>2. ASSUME NEW a, NEW b, Merge(w, a, b)  PROVE UNCHANGED writerVars
  BY <1>2 DEF Merge, Starts
<1>3. ASSUME NEW a, NEW b, Unmerge(w, a, b)  PROVE UNCHANGED writerVars
  BY <1>3 DEF Unmerge, Starts
<1>4. ASSUME NEW p, Erase(w, p)  PROVE UNCHANGED writerVars
  BY <1>4 DEF Erase, Starts
<1>5. ASSUME NEW p, Rebuild(w, p)  PROVE UNCHANGED writerVars
  BY <1>5 DEF Rebuild, Starts
<1> QED  BY <1>1, <1>2, <1>3, <1>4, <1>5 DEF Operation

\* A profile of the service is in the table of the indexer, or its event is on the way;
\* an event is only tried again after a fault.
LEMMA StreamKept ==
    ASSUME MaxFaults <= RetryEvents, AllTypes, StreamOK, [Next]_vars, AllTypes'
    PROVE  StreamOK'
<1>1. /\ service \in [ProfileIds -> Names \cup {NoName}]
      /\ index \in [ProfileIds -> Names \cup {NoName}]
      /\ stream \in Seq(Events) /\ faults \in Nat /\ faults' \in Nat /\ faults <= MaxFaults
      /\ names + 1 # NoName /\ MaxFaults \in Nat
  BY WriterBounds DEF AllTypes, WriterTypes, NoName
<1>2. ASSUME service' = service \/ \E p : service' = [service EXCEPT ![p] = NoName],
             UNCHANGED <<stream, index>>, faults <= faults'
      PROVE  StreamOK'
  <2>1. \A p \in ProfileIds : service'[p] # NoName => service[p] # NoName
    BY <1>1, <1>2
  <2>2. \A i \in 1 .. Len(stream) : stream[i].tries <= faults'
    <3> SUFFICES ASSUME NEW i \in 1 .. Len(stream)  PROVE stream[i].tries <= faults'
      OBVIOUS
    <3>1. stream[i] \in Events
      BY <1>1
    <3>2. stream[i].tries <= faults /\ stream[i].tries \in Nat
      BY <3>1 DEF StreamOK, Events, RetryEvents
    <3> QED  BY <1>1, <1>2, <3>2
  <2> QED  BY <1>2, <2>1, <2>2 DEF StreamOK, Indexed
<1>3. ASSUME NEW w \in Workers, Operation(w)  PROVE StreamOK'
  <2>1. UNCHANGED writerVars
    BY <1>3, OperationUnchanged
  <2> QED  BY <1>1, <1>2, <2>1 DEF writerVars
<1>4. ASSUME NEW w \in Workers, Continue(w)  PROVE StreamOK'
  <2>1. PICK p \in ProfileIds :
          \/ ReadRow(w, p) \/ Build(w, p) \/ Updates(w, p)
          \/ SaveRecord(w, p) \/ SaveObjects(w, p) \/ SendProfile(w, p) \/ SendDeletion(w, p)
          \/ FindRecords(w, p) \/ ClearRecords(w, p) \/ RemoveFromService(w, p)
    BY <1>4 DEF Continue
  <2>2. /\ UNCHANGED <<stream, index, faults>>
        /\ service' = service \/ service' = [service EXCEPT ![p] = NoName]
    BY <2>1 DEF ReadRow, Build, Updates, SaveRecord, SaveObjects, SendProfile, SendDeletion, Send,
       FindRecords, ClearRecords, RemoveFromService, writerVars
  <2> QED  BY <1>1, <1>2, <2>2
<1>5. ASSUME NEW w \in Workers, Fails(w)  PROVE StreamOK'
  BY <1>1, <1>2, <1>5 DEF Fails, Fault
<1>6. ASSUME NEW i \in 1 .. Len(queue), Write(i)  PROVE StreamOK'
  <2>1. queue[i].id \in ProfileIds /\ index' = index /\ faults <= faults'
    BY <1>6, WriteShape, MessageParts DEF AllTypes
  <2>2. CASE WriteProfile(i) /\ service[queue[i].id] = NoName
    <3>1. PICK p, e : p = queue[i].id /\ e = [id |-> p, name |-> names + 1, tries |-> 0]
      OBVIOUS
    <3>2. /\ service' = [service EXCEPT ![p] = names + 1] /\ stream' = Append(stream, e)
          /\ p \in ProfileIds /\ names < MaxNames
      BY <2>1, <2>2, <3>1 DEF WriteProfile
    <3>3. e \in Events
      <4>1. names + 1 \in Names
        BY <3>2, WriterBounds DEF AllTypes, WriterTypes, Names
      <4> QED  BY <3>1, <3>2, <4>1 DEF Events, RetryEvents
    <3>4. PICK a, b : a = stream /\ b = stream'
      OBVIOUS
    <3>5. /\ Len(b) = Len(a) + 1 /\ Len(a) \in Nat /\ b[Len(a) + 1] = e
          /\ \A x \in 1 .. Len(a) : b[x] = a[x]
      BY <1>1, <3>2, <3>3, <3>4, AppendProperties
    <3>6. \A x \in 1 .. Len(b) : x \in 1 .. Len(a) \/ x = Len(a) + 1
      BY <3>5
    <3>7. Len(a) + 1 \in 1 .. Len(b) /\ \A x \in 1 .. Len(a) : x \in 1 .. Len(b)
      BY <3>5
    <3>8. ASSUME NEW x \in 1 .. Len(b)  PROVE b[x].tries <= faults'
      <4>1. CASE x \in 1 .. Len(a)
        <5>1. a[x] \in Events /\ a[x].tries <= faults /\ b[x] = a[x]
          BY <1>1, <3>4, <3>5, <4>1 DEF StreamOK
        <5>2. a[x].tries \in Nat
          BY <5>1 DEF Events, RetryEvents
        <5> QED  BY <1>1, <2>1, <5>1, <5>2
      <4>2. CASE x = Len(a) + 1
        BY <1>1, <3>1, <3>5, <4>2
      <4> QED  BY <3>6, <4>1, <4>2
    <3>9. ASSUME NEW q \in ProfileIds, service'[q] # NoName
          PROVE  index[q] # NoName \/ \E x \in 1 .. Len(b) : b[x].id = q
      <4>1. CASE q = p
        BY <3>1, <3>5, <3>7, <4>1
      <4>2. CASE q # p
        <5>1. service[q] # NoName
          BY <1>1, <3>2, <3>9, <4>2
        <5>2. index[q] # NoName \/ \E x \in 1 .. Len(a) : a[x].id = q
          BY <3>4, <5>1 DEF StreamOK, Indexed
        <5> QED  BY <3>5, <3>7, <5>2
      <4> QED  BY <4>1, <4>2
    <3> QED  BY <2>1, <3>4, <3>8, <3>9 DEF StreamOK, Indexed
  <2>3. CASE ~(WriteProfile(i) /\ service[queue[i].id] = NoName)
    <3>1. /\ stream' = stream
          /\ service' = service \/ service' = [service EXCEPT ![queue[i].id] = NoName]
      BY <1>6, <2>3 DEF Write, WriteProfile, Refused, DeleteFromService, DeleteLater, GiveUp
    <3> QED  BY <1>2, <2>1, <3>1
  <2> QED  BY <2>2, <2>3
<1>7. CASE IndexProfile \/ IndexFails
  <2>1. PICK a, b, t, h : a = stream /\ b = stream' /\ t = Tail(stream) /\ h = Head(stream)
    OBVIOUS
  <2>2. /\ service' = service /\ Len(a) \in Nat /\ 1 \in 1 .. Len(a) /\ a[1] = h /\ h \in Events
        /\ index' = index \/ index' = [index EXCEPT ![h.id] = h.name]
        /\ t \in Seq(Events) /\ Len(t) = Len(a) - 1
        /\ \A x \in 1 .. Len(a) - 1 : t[x] = a[x + 1]
    BY <1>7, <2>1, IndexShape DEF AllTypes
  <2>3. h.id \in ProfileIds /\ h.name # NoName /\ h.tries \in Nat /\ h.tries <= faults
    BY <2>1, <2>2 DEF Events, Names, NoName, RetryEvents, StreamOK
  <2>4. faults <= faults'
    BY <1>1, <1>7 DEF IndexProfile, IndexFails, Fault
  <2>5. ASSUME NEW x \in 1 .. Len(a) - 1
        PROVE  t[x].tries <= faults' /\ t[x].tries \in Nat
    <3>1. x + 1 \in 1 .. Len(a) /\ t[x] = a[x + 1]
      BY <2>2
    <3>2. a[x + 1] \in Events /\ a[x + 1].tries <= faults
      BY <1>1, <2>1, <3>1 DEF StreamOK
    <3> QED  BY <1>1, <2>4, <3>1, <3>2 DEF Events, RetryEvents
  <2>6. \A q \in ProfileIds : index[q] # NoName => index'[q] # NoName
    BY <1>1, <2>2, <2>3
  <2>7. ASSUME NEW x \in 1 .. Len(a)
        PROVE  x = 1 \/ \E y \in 1 .. Len(a) - 1 : t[y] = a[x]
    <3>1. CASE x # 1
      <4>1. x - 1 \in 1 .. Len(a) - 1 /\ (x - 1) + 1 = x
        BY <2>2, <3>1
      <4> QED  BY <2>2, <4>1
    <3> QED  BY <3>1
  <2>8. CASE b = t /\ index' = [index EXCEPT ![h.id] = h.name]
    <3>1. index'[h.id] # NoName
      BY <1>1, <2>3, <2>8
    <3>2. ASSUME NEW q \in ProfileIds, service[q] # NoName
          PROVE  index'[q] # NoName \/ \E x \in 1 .. Len(b) : b[x].id = q
      <4>1. index[q] # NoName \/ \E x \in 1 .. Len(a) : a[x].id = q
        BY <2>1, <3>2 DEF StreamOK, Indexed
      <4>2. ASSUME NEW x \in 1 .. Len(a), a[x].id = q
            PROVE  index'[q] # NoName \/ \E y \in 1 .. Len(b) : b[y].id = q
        <5>1. CASE x = 1
          BY <2>2, <3>1, <4>2, <5>1
        <5>2. CASE x # 1
          <6>1. PICK y \in 1 .. Len(a) - 1 : t[y] = a[x]
            BY <2>7, <5>2
          <6> QED  BY <2>2, <2>8, <4>2, <6>1
        <5> QED  BY <5>1, <5>2
      <4> QED  BY <2>6, <4>1, <4>2, <3>2
    <3> QED  BY <2>1, <2>2, <2>5, <2>8, <3>2 DEF StreamOK, Indexed
  <2>9. CASE IndexFails
    <3>1. /\ faults' = faults + 1 /\ faults < MaxFaults
          /\ b = IF h.tries < RetryEvents THEN <<[h EXCEPT !.tries = h.tries + 1]>> \o t ELSE t
      BY <2>1, <2>9 DEF IndexFails, Fault
    <3>2. h.tries < RetryEvents
      BY <1>1, <2>3, <3>1 DEF RetryEvents
    <3>3. PICK g : g = [h EXCEPT !.tries = h.tries + 1]
      OBVIOUS
    <3>4. g \in Events /\ g.id = h.id /\ g.tries = h.tries + 1
      BY <2>2, <2>3, <3>2, <3>3 DEF Events, RetryEvents
    <3>5. /\ Len(b) = Len(a) /\ b[1] = g
          /\ \A x \in 1 .. Len(a) - 1 : b[x + 1] = t[x]
      <4>1. b = <<g>> \o t /\ <<g>> \in Seq(Events) /\ Len(<<g>>) = 1 /\ <<g>>[1] = g
        BY <3>1, <3>2, <3>3, <3>4
      <4>2. PICK o : o = <<g>>
        OBVIOUS
      <4>3. /\ Len(b) = Len(o) + Len(t)
            /\ \A x \in 1 .. Len(o) + Len(t) : b[x] = IF x <= Len(o) THEN o[x] ELSE t[x - Len(o)]
        BY <2>2, <4>1, <4>2, ConcatProperties
      <4>4. Len(o) = 1 /\ o[1] = g
        BY <4>1, <4>2
      <4>5. Len(b) = Len(a) /\ b[1] = g
        BY <2>2, <4>3, <4>4
      <4>6. ASSUME NEW x \in 1 .. Len(a) - 1  PROVE b[x + 1] = t[x]
        BY <2>2, <4>3, <4>4
      <4> QED  BY <4>5, <4>6
    <3>6. ASSUME NEW x \in 1 .. Len(b)  PROVE b[x].tries <= faults'
      <4>1. CASE x = 1
        BY <1>1, <2>3, <3>1, <3>4, <3>5, <4>1
      <4>2. CASE x # 1
        <5>1. x - 1 \in 1 .. Len(a) - 1 /\ (x - 1) + 1 = x
          BY <2>2, <3>5, <4>2
        <5>2. b[x] = t[x - 1]
          BY <3>5, <5>1
        <5> QED  BY <2>5, <5>1, <5>2
      <4> QED  BY <4>1, <4>2
    <3>7. ASSUME NEW q \in ProfileIds, service[q] # NoName
          PROVE  index'[q] # NoName \/ \E x \in 1 .. Len(b) : b[x].id = q
      <4>1. index[q] # NoName \/ \E x \in 1 .. Len(a) : a[x].id = q
        BY <2>1, <3>7 DEF StreamOK, Indexed
      <4>2. ASSUME NEW x \in 1 .. Len(a)  PROVE b[x].id = a[x].id
        <5>1. CASE x = 1
          BY <2>2, <3>4, <3>5, <5>1
        <5>2. CASE x # 1
          <6>1. x - 1 \in 1 .. Len(a) - 1 /\ (x - 1) + 1 = x
            BY <2>2, <5>2
          <6>2. b[(x - 1) + 1] = t[x - 1] /\ t[x - 1] = a[(x - 1) + 1]
            BY <2>2, <3>5, <6>1
          <6> QED  BY <6>1, <6>2
        <5> QED  BY <5>1, <5>2
      <4> QED  BY <2>6, <3>5, <4>1, <4>2
    <3> QED  BY <2>1, <2>2, <3>6, <3>7 DEF StreamOK, Indexed
  <2> QED  BY <1>7, <2>1, <2>8, <2>9 DEF IndexProfile
<1>8. CASE UNCHANGED vars
  BY <1>1, <1>2, <1>8 DEF vars, writerVars
<1> QED  BY <1>3, <1>4, <1>5, <1>6, <1>7, <1>8 DEF Next, WriterNext

\* A message to delete the profile q waits behind every other message about it, or what
\* it was to do is done or reported.
LEMMA WriteDeletes ==
    ASSUME MaxFaults <= RetryEvents, Ordered, Prompt, WriterTypes, StreamOK,
           NEW i \in 1 .. Len(queue), Write(i), NEW q \in ProfileIds, DeletionLast(q)
    PROVE  \/ DeletionLast(q)' \/ q \in reported'
           \/ (service'[q] = NoName /\ ~Waiting(q, "put_profile")')
<1>1. PICK a, b, r, m : a = queue /\ b = queue' /\ r = RemoveAt(queue, i) /\ m = queue[i]
  OBVIOUS
<1>2. /\ a \in Seq(Messages) /\ r = RemoveAt(a, i) /\ r = Rest(i) /\ m = a[i]
           /\ r \in Seq(Messages)
      /\ m \in Messages /\ m.id \in ProfileIds /\ m.retries \in 0 .. NumRetries
      /\ service \in [ProfileIds -> Names \cup {NoName}] /\ i = 1
  BY <1>1, WriteShape, MessageParts DEF WriterTypes, Rest, Write, Taken
<1>3. DeletionLastIn(a, q)
  BY <1>1 DEF DeletionLast
<1>4. /\ ~(m.request = "delete_profile" /\ m.id = q) => DeletionLastIn(r, q)
      /\ DeletionLastIn(r, q) \/ ~WaitingIn(r, q, "put_profile")
  <2>1. DeletionLastIn(a, q) /\ ~(a[i].request = "delete_profile" /\ a[i].id = q) =>
           DeletionLastIn(r, q)
    BY <1>1, <1>2, QueueShrinks
  <2>2. DeletionLastIn(a, q) /\ i = 1 => DeletionLastIn(r, q) \/ ~WaitingIn(r, q, "put_profile")
    BY <1>1, <1>2, QueueShrinks
  <2> QED  BY <1>2, <1>3, <2>1, <2>2
<1>5. CASE WriteProfile(i)
  <2>1. m.request = "put_profile" /\ (b = r \/ b = a)
    BY <1>1, <1>2, <1>5 DEF WriteProfile
  <2> QED  BY <1>1, <1>3, <1>4, <2>1 DEF DeletionLast
<1>6. CASE Refused(i)
  <2>1. b = r /\ m.id \in reported'
    BY <1>1, <1>2, <1>6 DEF Refused, Filed, SentToDLQ
  <2> QED  BY <1>1, <1>4, <2>1 DEF DeletionLast
<1>7. CASE DeleteFromService(i)
  <2>1. /\ b = r
        /\ m.id \in reported' \/ service' = [service EXCEPT ![m.id] = NoName]
    BY <1>1, <1>2, <1>7 DEF DeleteFromService, Filed, SentToDLQ
  <2>2. CASE m.id = q
    BY <1>1, <1>2, <1>4, <2>1, <2>2 DEF DeletionLast, Waiting
  <2>3. CASE m.id # q
    BY <1>1, <1>4, <2>1, <2>3 DEF DeletionLast
  <2> QED  BY <2>2, <2>3
<1>8. CASE DeleteLater(i)
  <2>1. PICK d : d = DeleteMessage(m.id, RetriesAfter(m.retries))
    OBVIOUS
  <2>2. m.request = "delete_profile" /\ b = Append(r, d) /\ m.retries > 0
    BY <1>1, <1>2, <1>8, <2>1 DEF DeleteLater
  <2>3. RetriesAfter(m.retries) \in 0 .. NumRetries
    BY <1>2, <2>2 DEF RetriesAfter, OneLess, NumRetries
  <2>4. d \in Messages /\ d.request = "delete_profile" /\ d.id = m.id
    BY <1>2, <2>1, <2>3, DeletionTypes, MessageParts
  <2>5. /\ DeletionLastIn(r, q) /\ ~(d.request = "put_profile" /\ d.id = q)
             => DeletionLastIn(b, q)
        /\ d.request = "delete_profile" /\ d.id = q => DeletionLastIn(b, q)
    BY <1>2, <2>2, <2>4, QueueGrows
  <2>6. DeletionLastIn(b, q)
    BY <1>4, <2>4, <2>5
  <2> QED  BY <1>1, <2>6 DEF DeletionLast
<1>9. CASE GiveUp(i)
  <2>1. b = r /\ index[m.id] = NoName /\ Indexed(m.id) /\ service' = service
    BY <1>1, <1>2, <1>9 DEF GiveUp
  <2>2. service[m.id] = NoName
    BY <1>2, <2>1 DEF StreamOK
  <2> QED  BY <1>1, <1>4, <2>1, <2>2 DEF DeletionLast, Waiting
<1> QED  BY <1>5, <1>6, <1>7, <1>8, <1>9 DEF Write

\* The profile p is not in the service, or on its way out of it.
Leaving(p) ==
    p \in reported \cup failed
    \/ (service[p] = NoName /\ ~Waiting(p, "put_profile"))
    \/ Leaves(p) \/ DeletionLast(p)

\* What does not live is not served, or on its way out.
LEMMA GhostKept ==
    ASSUME MaxFaults <= RetryEvents, Ordered, Prompt, Apart, "merge" \notin Fallible,
           WorkInv, StreamOK, GhostInv, [Next]_vars
    PROVE  GhostInv'
<1> SUFFICES ASSUME NEW q \in ProfileIds, ~Lives(q)'  PROVE Leaving(q)'
  BY DEF GhostInv, Leaving
<1>1. ~Lives(q) => Leaving(q)
  BY DEF GhostInv, Leaving
<1>2. ASSUME NEW w \in Workers, Operation(w)  PROVE Leaving(q)'
  <2>1. PICK j : StartsWork(w, j) /\ FitsWork(j)
    BY <1>2, OperationStarts DEF WorkInv
  <2>2. /\ \A s, p : ~ToDo(w, s, p) /\ (ToDo(w, s, p)' <=> Has(j.stages, <<s, p>>))
        /\ \A v \in Workers \ {w} : \A s, p : ToDo(v, s, p)' <=> ToDo(v, s, p)
    BY <2>1, StartShape DEF WorkInv
  <2>3. Changes(j.ids, j.ending) /\ UNCHANGED <<writerVars, failed>>
    BY <2>1 DEF StartsWork
  <2>4. /\ Waiting(q, "put_profile")' <=> Waiting(q, "put_profile")
        /\ DeletionLast(q)' <=> DeletionLast(q)
        /\ service' = service /\ reported' = reported /\ failed' = failed
    BY <2>3 DEF writerVars, Waiting, DeletionLast
  <2>5. CASE q \in j.ids
    <3>1. Has(j.stages, <<"withdraw", q>>) \/ (Has(j.stages, <<"remove", q>>) /\ ~Queued(q))
      BY <2>1, <2>5 DEF FitsWork
    <3>2. Waiting(q, "put_profile") => Queued(q)
      BY DEF Waiting, WaitingIn, Queued
    <3>3. Leaves(q)'
      BY <2>2, <2>4, <3>1, <3>2 DEF Leaves
    <3> QED  BY <3>3 DEF Leaving
  <2>6. CASE q \notin j.ids
    <3>1. Leaving(q)
      BY <1>1, <2>3, <2>6 DEF Changes, Untouched
    <3>2. Leaves(q) => Leaves(q)'
      <4>1. \A v \in Workers : \A s : ToDo(v, s, q) => ToDo(v, s, q)'
        BY <2>2
      <4> QED  BY <2>4, <4>1 DEF Leaves
    <3> QED  BY <2>4, <3>1, <3>2 DEF Leaving
  <2> QED  BY <2>5, <2>6
<1>3. ASSUME NEW w \in Workers, Continue(w)  PROVE Leaving(q)'
  <2>a. PICK s \in Steps, p \in ProfileIds : \E more, k : StepFacts(w, s, p, more, k)
    BY <1>3, ContinueFacts
  <2>1. PICK more, k : StepFacts(w, s, p, more, k)
    BY <2>a
  <2>2. /\ \A v \in Workers \ {w} : \A x, y : ToDo(v, x, y)' <=> ToDo(v, x, y)
        /\ \A x, y : ToDo(w, x, y) /\ (x # s \/ y # p) => ToDo(w, x, y)'
        /\ \A y : Untouched(y)
    BY <2>1, StepWork
  <2>3. /\ failed \subseteq failed' /\ reported' = reported
        /\ \A y \in ProfileIds \ {p} : service'[y] = service[y]
        /\ QueueOf(s, p)
    BY <2>1 DEF StepFacts, StepOf
  <2>4. Leaving(q) /\ (q = p => s # "message")
    <3>1. ~Lives(q)
      BY <2>2 DEF Untouched
    <3>2. s \in Up => Lives(p)
      BY <2>1, StepFits
    <3> QED  BY <1>1, <3>1, <3>2 DEF Up
  <2>5. /\ Waiting(q, "put_profile")' => Waiting(q, "put_profile")
        /\ DeletionLast(q) => DeletionLast(q)'
        /\ s = "withdraw" /\ q = p => DeletionLast(q)'
    BY <2>1, <2>4, StepQueue
  <2>6. service'[q] = service[q] \/ q \in failed' \/ service'[q] = NoName
    BY <2>3 DEF QueueOf
  <2>7. CASE q \in reported \cup failed \/ DeletionLast(q)
    BY <2>3, <2>5, <2>7 DEF Leaving
  <2>8. CASE service[q] = NoName /\ ~Waiting(q, "put_profile")
    BY <2>5, <2>6, <2>8 DEF Leaving
  <2>9. ASSUME NEW v \in Workers, ToDo(v, "withdraw", q)  PROVE Leaving(q)'
    <3>1. CASE v = w /\ s = "withdraw" /\ q = p
      BY <2>5, <3>1 DEF Leaving
    <3>2. CASE ~(v = w /\ s = "withdraw" /\ q = p)
      <4>1. ToDo(v, "withdraw", q)'
        BY <2>2, <2>9, <3>2
      <4> QED  BY <4>1 DEF Leaving, Leaves
    <3> QED  BY <3>1, <3>2
  <2>10. ASSUME NEW v \in Workers, ToDo(v, "remove", q), ~Waiting(q, "put_profile")
         PROVE  Leaving(q)'
    <3>1. CASE v = w /\ s = "remove" /\ q = p
      <4>1. q \in failed' \/ service'[q] = NoName
        BY <2>3, <3>1 DEF QueueOf
      <4> QED  BY <2>5, <2>10, <4>1 DEF Leaving
    <3>2. CASE ~(v = w /\ s = "remove" /\ q = p)
      <4>1. ToDo(v, "remove", q)'
        BY <2>2, <2>10, <3>2
      <4> QED  BY <2>5, <2>10, <4>1 DEF Leaving, Leaves
    <3> QED  BY <3>1, <3>2
  <2> QED  BY <2>4, <2>7, <2>8, <2>9, <2>10 DEF Leaving, Leaves
<1>4. ASSUME NEW w \in Workers, Fails(w)  PROVE Leaving(q)'
  <2>1. /\ \A v \in Workers \ {w} : worker'[v] = worker[v]
        /\ failed' = failed \cup worker[w].ids
        /\ \A s \in Steps, p \in ProfileIds : ToDo(w, s, p) => p \in worker[w].ids
        /\ UNCHANGED <<queue, service, reported>> /\ UNCHANGED auroraVars
    BY <1>4, FailsShape
  <2>2. Leaving(q)
    BY <1>1, <2>1 DEF auroraVars, Lives
  <2>3. \A v \in Workers, s \in Steps : ToDo(v, s, q) => ToDo(v, s, q)' \/ q \in failed'
    BY <2>1 DEF ToDo
  <2>4. "withdraw" \in Steps /\ "remove" \in Steps
    BY DEF Steps
  <2>5. /\ Waiting(q, "put_profile")' <=> Waiting(q, "put_profile")
        /\ DeletionLast(q)' <=> DeletionLast(q)
    BY <2>1 DEF Waiting, DeletionLast
  <2>6. Leaves(q) => Leaves(q)' \/ q \in failed'
    BY <2>3, <2>4, <2>5 DEF Leaves
  <2> QED  BY <2>1, <2>2, <2>5, <2>6 DEF Leaving
<1>5. CASE WriterNext /\ UNCHANGED StoreVars
  <2>1. /\ Lives(q)' <=> Lives(q)
        /\ \A v, s : ToDo(v, s, q)' <=> ToDo(v, s, q)
        /\ failed' = failed
    BY <1>5 DEF StoreVars, auroraVars, Lives, ToDo
  <2>2. Leaving(q) /\ WriterTypes
    BY <1>1, <2>1 DEF WorkInv, AllTypes
  <2>3. ASSUME NEW i \in 1 .. Len(queue), Write(i)  PROVE Leaving(q)'
    <3>1. /\ reported \subseteq reported'
          /\ service'[q] # NoName => service[q] # NoName \/ Waiting(q, "put_profile")
      BY <2>2, <2>3, WriteEffect
    <3>2. Waiting(q, "put_profile")' => Waiting(q, "put_profile")
      <4>1. \A u : WaitingIn(queue', q, u) => WaitingIn(queue, q, u)
        BY <2>2, <2>3, WriteQueue
      <4> QED  BY <4>1 DEF Waiting
    <3>3. Leaves(q) => Leaves(q)'
      BY <2>1, <3>2 DEF Leaves
    <3>4. DeletionLast(q) => Leaving(q)'
      BY <2>2, <2>3, WriteDeletes DEF Leaving
    <3> QED  BY <2>1, <2>2, <3>1, <3>2, <3>3, <3>4 DEF Leaving
  <2>4. CASE IndexProfile \/ IndexFails
    <3>1. UNCHANGED <<queue, service, reported>>
      BY <2>4 DEF IndexProfile, IndexFails
    <3> QED  BY <2>1, <2>2, <3>1 DEF Leaving, Leaves, Waiting, DeletionLast
  <2> QED  BY <1>5, <2>3, <2>4 DEF WriterNext
<1>6. CASE UNCHANGED vars
  BY <1>1, <1>6 DEF vars, writerVars, auroraVars, Leaving, Leaves, Waiting, DeletionLast, Lives,
     ToDo
<1> QED  BY <1>2, <1>3, <1>4, <1>5, <1>6 DEF Next

\* At first nothing is served.
LEMMA InitGhosts == Init => StreamOK /\ GhostInv
<1> SUFFICES ASSUME Init  PROVE StreamOK /\ GhostInv
  OBVIOUS
<1>1. /\ queue = <<>> /\ stream = <<>> /\ service = [p \in ProfileIds |-> NoName]
  BY DEF Init, WriterInit
<1>2. \A p \in ProfileIds : service[p] = NoName /\ ~Waiting(p, "put_profile")
  BY <1>1 DEF Waiting, WaitingIn
<1> QED  BY <1>1, <1>2 DEF StreamOK, GhostInv

\* When nobody works and the queue is empty it is gone.
LEMMA GhostsSettle ==
    ASSUME WorkInv, GhostInv
    PROVE  GhostsAreReported
<1> SUFFICES ASSUME Drained, NEW p \in ProfileIds, ~Lives(p)
             PROVE  service[p] = NoName \/ p \in reported \cup failed
  BY DEF GhostsAreReported
<1>1. \A w \in Workers : \A s, q : ~ToDo(w, s, q)
  BY WhenSettled DEF Drained
<1>2. ~DeletionLast(p)
  BY DEF Drained, DeletionLast, DeletionLastIn
<1> QED  BY <1>1, <1>2 DEF GhostInv, Leaves

(***************************************************************************)
(* And it has no profile of an id that was merged away or erased, or a     *)
(* failure was reported.  This needs a queue that keeps its order, so that *)
(* the deletion is behind the last put; an indexer that is in time for the *)
(* retries of the deletion; and fewer faults than the event source tries   *)
(* an event again, so that no name is lost.                                *)
(***************************************************************************)
THEOREM NoGhostUnreported ==
    ASSUME MaxFaults <= RetryEvents, Ordered, Prompt, Apart, "merge" \notin Fallible
    PROVE  Spec => []GhostsAreReported
<1>1. Init => WorkInv /\ StreamOK /\ GhostInv
  BY InitKeepsWork, InitGhosts
<1>2. WorkInv /\ StreamOK /\ GhostInv /\ [Next]_vars => (WorkInv /\ StreamOK /\ GhostInv)'
  <2> SUFFICES ASSUME WorkInv, StreamOK, GhostInv, [Next]_vars
               PROVE  WorkInv' /\ StreamOK' /\ GhostInv'
    OBVIOUS
  <2>1. WorkInv'
    BY WorkKept
  <2>2. StreamOK'
    BY <2>1, StreamKept DEF WorkInv
  <2> QED  BY <2>1, <2>2, GhostKept
<1>3. WorkInv /\ GhostInv => GhostsAreReported
  BY GhostsSettle
<1> QED  BY <1>1, <1>2, <1>3, PTL DEF Spec
----------------------------------------------------------------------------
(* The tasks that fill the caches anew *)

\* For the values 0 .. Parts - 1 the mask and the 32 bits take nothing away.
LEMMA BitsOf ==
  ASSUME PartsDivide, NEW i \in 0 .. Parts - 1
  PROVE  HighBits(i) = i * Shifted
  <1>1. i % Parts = i
    BY DEF PartsDivide
  <1>2. i * Shifted \in Nat /\ i * Shifted < Words
    <2>1. (i + 1) * Shifted <= Parts * Shifted
      BY DEF PartsDivide
    <2>. QED BY <2>1 DEF PartsDivide
  <1>3. (i * Shifted) % Words = i * Shifted
    BY <1>2 DEF PartsDivide
  <1>. QED BY <1>1, <1>3 DEF HighBits

(***************************************************************************)
(* Every connect id is read by exactly one of the tasks, whatever power of *)
(* two their number is.                                                    *)
(***************************************************************************)
THEOREM EveryIdOnce ==
  ASSUME PartsDivide, NEW u \in Uuids
  PROVE  /\ \E i \in 0 .. Parts - 1 : Between(u, i)
         /\ \A i, j \in 0 .. Parts - 1 : Between(u, i) /\ Between(u, j) => i = j
  <1>1. \A i \in 0 .. Parts - 1 :
           Between(u, i) <=> i * Shifted <= u.word /\ u.word < i * Shifted + Shifted
    BY BitsOf DEF Between, \preceq, Lower, Upper, Uuids, PartsDivide
  <1>2. \E i \in 0 .. Parts - 1 : Between(u, i)
    <2>. DEFINE q == u.word \div Shifted
    <2>1. /\ q \in Int /\ q * Shifted <= u.word /\ u.word < q * Shifted + Shifted
      BY DEF Uuids, PartsDivide
    <2>2. q \in 0 .. Parts - 1
      BY <2>1 DEF Uuids, PartsDivide
    <2>. QED BY <1>1, <2>1, <2>2
  <1>3. ASSUME NEW i \in 0 .. Parts - 1, NEW j \in 0 .. Parts - 1,
               Between(u, i), Between(u, j)
        PROVE  i = j
    BY <1>1, <1>3 DEF PartsDivide, Uuids
  <1>. QED BY <1>2, <1>3
=============================================================================
