------------------------- MODULE RuleMatchingProofs -------------------------
(***************************************************************************)
(* Proofs about RuleMatching, for any objects, fields, values, rule sets   *)
(* and bounds: the types with the primary key of the index, and that who   *)
(* is matched is meant and who is meant is found, for the rules of which   *)
(* that is true.                                                           *)
(***************************************************************************)
EXTENDS RuleMatching, FiniteSetTheorems, SequenceTheorems, WellFoundedInduction,
        TLAPS

-----------------------------------------------------------------------------
(* Positions in order *)

Rank(S, i) == Cardinality({j \in S : j < i})

\* Every place is taken: the positions of S have the ranks 0 to the size of S less one.
LEMMA Ranks ==
  ASSUME NEW S \in SUBSET Nat, IsFiniteSet(S)
  PROVE  /\ \A i \in S : Rank(S, i) \in 0 .. Cardinality(S) - 1
         /\ \A i, k \in S : Rank(S, i) = Rank(S, k) => i = k
         /\ \A n \in 0 .. Cardinality(S) - 1 : \E i \in S : Rank(S, i) = n
<1>. DEFINE Below(i) == {j \in S : j < i}
            T == 0 .. Cardinality(S) - 1
            f == [i \in S |-> Rank(S, i)]
<1>1. Cardinality(S) \in Nat
  BY FS_CardinalityType
<1>2. \A i \in S : IsFiniteSet(Below(i)) /\ Cardinality(Below(i)) \in Nat
  <2>1. \A i \in S : Below(i) \in SUBSET S
    OBVIOUS
  <2> QED  BY <2>1, FS_Subset, FS_CardinalityType
<1>3. ASSUME NEW i \in S, NEW k, IsFiniteSet(Below(k)), Below(i) \subseteq Below(k), i \in Below(k)
      PROVE  Cardinality(Below(i)) < Cardinality(Below(k))
  <2>1. Below(i) \in SUBSET Below(k) /\ i \notin Below(i)
    BY <1>3
  <2>2. Cardinality(Below(i)) <= Cardinality(Below(k)) /\ Cardinality(Below(i)) # Cardinality(Below(k))
    BY <1>3, <2>1, FS_Subset
  <2> QED  BY <1>2, <1>3, <2>2, FS_CardinalityType
<1>4. \A i \in S : Rank(S, i) \in T
  <2> SUFFICES ASSUME NEW i \in S  PROVE Rank(S, i) \in T
    OBVIOUS
  <2>1. Below(i) \in SUBSET S /\ Below(i) # S
    OBVIOUS
  <2>2. Cardinality(Below(i)) <= Cardinality(S) /\ Cardinality(Below(i)) # Cardinality(S)
    BY <2>1, FS_Subset
  <2> QED  BY <1>1, <1>2, <2>2 DEF Rank
<1>5. ASSUME NEW i \in S, NEW k \in S, i < k  PROVE Rank(S, i) < Rank(S, k)
  <2>1. \A j \in S : j < i => j < k
    <3>1. i \in Nat /\ k \in Nat /\ \A j \in S : j \in Nat
      OBVIOUS
    <3> QED  BY <1>5, <3>1
  <2>2. Below(i) \subseteq Below(k) /\ i \in Below(k)
    BY <1>5, <2>1
  <2> QED  BY <1>2, <1>3, <2>2 DEF Rank
<1>6. \A i, k \in S : Rank(S, i) = Rank(S, k) => i = k
  <2> SUFFICES ASSUME NEW i \in S, NEW k \in S, i # k  PROVE Rank(S, i) # Rank(S, k)
    OBVIOUS
  <2>1. i \in Nat /\ k \in Nat /\ Rank(S, i) \in Nat /\ Rank(S, k) \in Nat
    BY <1>1, <1>4
  <2>2. i < k \/ k < i
    BY <2>1
  <2> QED  BY <1>5, <2>1, <2>2
<1>7. f \in Injection(S, T)
  BY <1>4, <1>6 DEF Injection, IsInjective
<1>8. IsFiniteSet(T) /\ Cardinality(T) = Cardinality(S)
  <2>1. 0 \in Int /\ Cardinality(S) - 1 \in Int
    BY <1>1
  <2>2. IsFiniteSet(T) /\ Cardinality(T) = IF 0 > Cardinality(S) - 1 THEN 0 ELSE (Cardinality(S) - 1) - 0 + 1
    BY <2>1, FS_Interval
  <2> QED  BY <1>1, <2>2
<1>9. f \in Surjection(S, T)
  BY <1>7, <1>8, FS_Injection
<1> QED  BY <1>4, <1>6, <1>9 DEF Surjection

\* Nth enumerates S.
LEMMA NthFacts ==
  ASSUME NEW S \in SUBSET Nat, IsFiniteSet(S)
  PROVE  /\ Cardinality(S) \in Nat
         /\ \A k \in 1 .. Cardinality(S) : Nth(S, k) \in S
         /\ \A i \in S : \E k \in 1 .. Cardinality(S) : Nth(S, k) = i
<1>1. Cardinality(S) \in Nat
  BY FS_CardinalityType
<1>2. ASSUME NEW k \in 1 .. Cardinality(S)  PROVE Nth(S, k) \in S /\ Rank(S, Nth(S, k)) = k - 1
  <2>1. k - 1 \in 0 .. Cardinality(S) - 1
    BY <1>1
  <2>2. \E i \in S : Rank(S, i) = k - 1
    BY <2>1, Ranks
  <2> QED  BY <2>2 DEF Nth, Rank
<1>3. ASSUME NEW i \in S  PROVE \E k \in 1 .. Cardinality(S) : Nth(S, k) = i
  <2>1. Rank(S, i) \in 0 .. Cardinality(S) - 1
    BY Ranks
  <2>2. Rank(S, i) + 1 \in 1 .. Cardinality(S) /\ (Rank(S, i) + 1) - 1 = Rank(S, i)
    BY <1>1, <2>1
  <2>3. PICK k \in 1 .. Cardinality(S) : k - 1 = Rank(S, i)
    BY <2>2
  <2>4. Nth(S, k) \in S /\ Rank(S, Nth(S, k)) = Rank(S, i)
    BY <1>2, <2>3
  <2>5. \A j, l \in S : Rank(S, j) = Rank(S, l) => j = l
    BY Ranks
  <2>6. Nth(S, k) = i
    BY <2>4, <2>5
  <2> QED  BY <2>6
<1> QED  BY <1>1, <1>2, <1>3

\* A field that a side names is named a first time.
LEMMA FirstTime ==
  ASSUME NEW F \in Seq(Fields), NEW i \in DOMAIN F
  PROVE  \E k \in Firsts(F) : F[k] = F[i]
<1>1. DOMAIN F = 1 .. Len(F) /\ Len(F) \in Nat
  BY LenProperties
<1> DEFINE R == {ss \in Nat \X Nat : ss[1] < ss[2]}
           S == {k \in DOMAIN F : F[k] = F[i]}
<1>2. IsWellFoundedOn(R, Nat)
  BY NatLessThanWellFounded DEF OpToRel
<1>3. S \subseteq Nat /\ i \in S
  BY <1>1
<1>4. PICK k \in S : \A j \in S : <<j, k>> \notin R
  <2> HIDE DEF R, S
  <2> QED  BY <1>2, <1>3, WFMin
<1>5. \A j \in 1 .. (k - 1) : j \in DOMAIN F /\ j < k /\ j \in Nat /\ k \in Nat
  BY <1>1
<1>6. \A j \in 1 .. (k - 1) : j \notin S
  <2> SUFFICES ASSUME NEW j \in 1 .. (k - 1), j \in S  PROVE <<j, k>> \in R
    BY <1>4
  <2> QED  BY <1>5
<1> QED  BY <1>4, <1>5, <1>6 DEF Firsts
-----------------------------------------------------------------------------
(* The sides of a rule *)

Ins(r) == [i \in DOMAIN r.matches |-> Incoming(r.matches[i])]
Exs(r) == [i \in DOMAIN r.matches |-> Existing(r.matches[i])]

Full(F, v)  == \A i \in DOMAIN F : Value(v, F[i]) # Blank
Empty(F, v) == \A i \in DOMAIN F : Value(v, F[i]) = Blank

\* Two sides repeat their fields at the same places.
Alike(F, G) == Len(F) = Len(G) /\ \A i, k \in DOMAIN F : F[i] = F[k] <=> G[i] = G[k]

Used(F, v)     == {i \in Firsts(F) : Value(v, F[i]) # Blank}
Segments(F, v) == [k \in 1 .. Cardinality(Used(F, v)) |-> Norm[Value(v, F[Nth(Used(F, v), k)])]]

LEMMA UsedFacts ==
  ASSUME NEW F \in Seq(Fields), NEW S \in SUBSET Firsts(F)
  PROVE  /\ S \in SUBSET Nat /\ IsFiniteSet(S) /\ S \subseteq DOMAIN F
         /\ Cardinality(S) \in Nat
         /\ \A k \in 1 .. Cardinality(S) : Nth(S, k) \in S
         /\ \A i \in S : \E k \in 1 .. Cardinality(S) : Nth(S, k) = i
<1>1. DOMAIN F = 1 .. Len(F) /\ Len(F) \in Nat
  BY LenProperties
<1>2. S \in SUBSET (1 .. Len(F)) /\ IsFiniteSet(1 .. Len(F)) /\ 1 .. Len(F) \subseteq Nat
  BY <1>1, FS_Interval DEF Firsts
<1>3. IsFiniteSet(S)
  BY <1>2, FS_Subset
<1>4. S \in SUBSET Nat
  BY <1>2
<1> QED  BY <1>1, <1>2, <1>3, <1>4, NthFacts

LEMMA JoinedIs ==
  ASSUME NEW F, NEW v
  PROVE  Joined(F, v) = IF Segments(F, v) = <<Blank>> THEN <<>> ELSE Segments(F, v)
<1>1. DOMAIN UsedFields(F, v) = 1 .. Cardinality(Used(F, v))
  BY DEF UsedFields, Used
<1>2. \A k \in 1 .. Cardinality(Used(F, v)) : UsedFields(F, v)[k] = F[Nth(Used(F, v), k)]
  BY DEF UsedFields, Used
<1>3. [i \in DOMAIN UsedFields(F, v) |-> Norm[Value(v, UsedFields(F, v)[i])]] = Segments(F, v)
  BY <1>1, <1>2 DEF Segments
<1> QED  BY <1>3 DEF Joined

LEMMA ValueType ==
  ASSUME NEW v, v.val \in [Fields -> Values], NEW f \in Fields
  PROVE  Value(v, f) \in Values /\ Norm[Value(v, f)] \in Values
BY ValuesAssumption DEF Value

LEMMA JoinedType ==
  ASSUME NEW F \in Seq(Fields), NEW v, v.val \in [Fields -> Values]
  PROVE  Joined(F, v) \in Seq(Values)
<1>1. Used(F, v) \in SUBSET Firsts(F)
  BY DEF Used
<1> DEFINE n == Cardinality(Used(F, v))
<1>2. n \in Nat /\ \A k \in 1 .. n : Nth(Used(F, v), k) \in DOMAIN F
  BY <1>1, UsedFacts
<1>3. \A k \in 1 .. n : F[Nth(Used(F, v), k)] \in Fields
  BY <1>2, LenProperties
<1>4. \A k \in 1 .. n : Norm[Value(v, F[Nth(Used(F, v), k)])] \in Values
  BY <1>3, ValueType
<1>5. Segments(F, v) \in Seq(Values)
  BY <1>2, <1>4, IsASeq DEF Segments
<1> QED  BY <1>5, JoinedIs, EmptySeq

\* A side without a value is the empty string.
LEMMA EmptySide ==
  ASSUME NEW F \in Seq(Fields), NEW v, Empty(F, v)
  PROVE  Joined(F, v) = <<>>
<1>1. Used(F, v) = {}
  BY DEF Used, Firsts, Empty
<1>2. Cardinality(Used(F, v)) = 0
  BY <1>1, FS_EmptySet
<1>3. Segments(F, v) = <<>>
  BY <1>2 DEF Segments
<1> QED  BY <1>3, JoinedIs

(***************************************************************************)
(* Two sides that are full and alike join to the same index value if the   *)
(* fields agree one by one, and only if they do, unless normalization has  *)
(* left nothing of a value.                                                *)
(***************************************************************************)
LEMMA FullSides ==
  ASSUME NEW F \in Seq(Fields), NEW G \in Seq(Fields), Alike(F, G), F # <<>>,
         NEW a, NEW b, Full(F, a), Full(G, b)
  PROVE  /\ (\A i \in DOMAIN F : Norm[Value(a, F[i])] = Norm[Value(b, G[i])])
              => Joined(F, a) = Joined(G, b)
         /\ (\A i \in DOMAIN F : Norm[Value(a, F[i])] # Blank /\ Norm[Value(b, G[i])] # Blank)
              => /\ Joined(F, a) # <<>>
                 /\ Joined(F, a) = Joined(G, b)
                      => \A i \in DOMAIN F : Norm[Value(a, F[i])] = Norm[Value(b, G[i])]
<1> DEFINE P == Firsts(F)
           n == Cardinality(P)
<1>1. DOMAIN F = 1 .. Len(F) /\ DOMAIN G = 1 .. Len(F) /\ Len(F) \in Nat /\ Len(F) > 0
  BY LenProperties, EmptySeq DEF Alike
<1>2. Firsts(G) = P
  <2>1. \A i \in 1 .. Len(F) : \A k \in 1 .. (i - 1) : k \in 1 .. Len(F)
    BY <1>1
  <2> QED  BY <1>1, <2>1 DEF Firsts, Alike
<1>3. Used(F, a) = P /\ Used(G, b) = P
  BY <1>1, <1>2 DEF Used, Full, Firsts
<1>4. /\ n \in Nat /\ P \subseteq DOMAIN F
      /\ \A k \in 1 .. n : Nth(P, k) \in P
      /\ \A i \in P : \E k \in 1 .. n : Nth(P, k) = i
  BY UsedFacts
<1>5. /\ Segments(F, a) = [k \in 1 .. n |-> Norm[Value(a, F[Nth(P, k)])]]
      /\ Segments(G, b) = [k \in 1 .. n |-> Norm[Value(b, G[Nth(P, k)])]]
  BY <1>3 DEF Segments
<1> HIDE DEF n, P
<1>6. ASSUME \A i \in DOMAIN F : Norm[Value(a, F[i])] = Norm[Value(b, G[i])]
      PROVE  Joined(F, a) = Joined(G, b)
  <2>1. \A k \in 1 .. n : Norm[Value(a, F[Nth(P, k)])] = Norm[Value(b, G[Nth(P, k)])]
    BY <1>4, <1>6
  <2>2. Segments(F, a) = Segments(G, b)
    BY <1>5, <2>1
  <2> QED  BY <2>2, JoinedIs
<1>7. ASSUME \A i \in DOMAIN F : Norm[Value(a, F[i])] # Blank /\ Norm[Value(b, G[i])] # Blank
      PROVE  /\ Joined(F, a) # <<>>
             /\ Joined(F, a) = Joined(G, b)
                  => \A i \in DOMAIN F : Norm[Value(a, F[i])] = Norm[Value(b, G[i])]
  <2>1. 1 \in DOMAIN F
    BY <1>1
  <2>2. PICK f1 \in P : F[f1] = F[1]
    BY <2>1, FirstTime DEF P
  <2>3. PICK k1 \in 1 .. n : Nth(P, k1) = f1
    BY <1>4
  <2>4. 1 \in 1 .. n /\ Nth(P, 1) \in DOMAIN F
    BY <1>4, <2>3
  <2>5. Segments(F, a)[1] # Blank /\ Segments(G, b)[1] # Blank
    BY <1>5, <1>7, <2>4
  <2>6. Segments(F, a) # <<Blank>> /\ Segments(G, b) # <<Blank>>
    BY <2>5
  <2>7. Joined(F, a) = Segments(F, a) /\ Joined(G, b) = Segments(G, b)
    BY <2>6, JoinedIs
  <2>8. DOMAIN Segments(F, a) = 1 .. n /\ DOMAIN <<>> = {}
    BY <1>5
  <2>9. Joined(F, a) # <<>>
    BY <2>4, <2>7, <2>8
  <2>10. ASSUME Joined(F, a) = Joined(G, b), NEW i \in DOMAIN F
         PROVE  Norm[Value(a, F[i])] = Norm[Value(b, G[i])]
    <3>1. PICK j \in P : F[j] = F[i]
      BY FirstTime DEF P
    <3>2. j \in DOMAIN F /\ G[j] = G[i]
      BY <1>4, <3>1 DEF Alike
    <3>3. PICK k \in 1 .. n : Nth(P, k) = j
      BY <1>4
    <3>4. Segments(F, a)[k] = Segments(G, b)[k]
      BY <2>7, <2>10
    <3>5. Norm[Value(a, F[j])] = Norm[Value(b, G[j])]
      BY <1>5, <3>3, <3>4
    <3> QED  BY <3>1, <3>2, <3>5
  <2> QED  BY <2>9, <2>10
<1> QED  BY <1>6, <1>7
-----------------------------------------------------------------------------
(* Rules and steps *)

LEMMA RuleFacts ==
  ASSUME NEW version \in 0 .. Len(RuleVersions)
  PROVE  /\ Rules(version) \subseteq AllRules
         /\ \A r, s \in Rules(version) : r.index = s.index => r = s
<1>1. version # 0 => version \in DOMAIN RuleVersions
  BY RulesAssumption, LenProperties
<1> QED  BY <1>1, RulesAssumption DEF Rules, AllRules

LEMMA RuleType ==
  ASSUME NEW r \in AllRules
  PROVE  /\ r \in RuleRecords
         /\ Ins(r) \in Seq(Fields) /\ Exs(r) \in Seq(Fields)
         /\ Ins(r) # <<>> /\ Exs(r) # <<>>
         /\ Len(Ins(r)) = Len(r.matches) /\ Len(Exs(r)) = Len(r.matches)
         /\ DOMAIN Ins(r) = DOMAIN r.matches /\ DOMAIN Exs(r) = DOMAIN r.matches
         /\ Range(r.matches) = {r.matches[i] : i \in DOMAIN r.matches}
<1>1. r \in RuleRecords
  <2>1. \A i \in DOMAIN RuleVersions : RuleVersions[i] \in SUBSET RuleRecords
    BY RulesAssumption, LenProperties
  <2> QED  BY <2>1 DEF AllRules
<1> DEFINE C == [in : Fields, ex : Fields \cup {NoField}]
           n == Len(r.matches)
<1>2. r.matches \in Seq(C) /\ r.matches # <<>>
  BY <1>1 DEF RuleRecords
<1>3. n \in Nat /\ n > 0 /\ DOMAIN r.matches = 1 .. n /\ \A i \in 1 .. n : r.matches[i] \in C
  <2>1. n \in Nat /\ DOMAIN r.matches = 1 .. n /\ r.matches \in [1 .. n -> C]
    BY <1>2, LenProperties
  <2>2. n \in Nat \ {0}
    BY <1>2, EmptySeq
  <2> QED  BY <2>1, <2>2
<1>4. \A i \in 1 .. n : Incoming(r.matches[i]) \in Fields /\ Existing(r.matches[i]) \in Fields
  BY <1>3 DEF Incoming, Existing
<1>5. Ins(r) = [i \in 1 .. n |-> Incoming(r.matches[i])] /\ Exs(r) = [i \in 1 .. n |-> Existing(r.matches[i])]
  BY <1>3 DEF Ins, Exs
<1> HIDE DEF n, C
<1>6. Ins(r) \in Seq(Fields)
  BY <1>3, <1>4, <1>5, IsASeq
<1>7. Exs(r) \in Seq(Fields)
  BY <1>3, <1>4, <1>5, IsASeq
<1>8. DOMAIN Ins(r) = 1 .. n /\ DOMAIN Exs(r) = 1 .. n /\ 1 \in 1 .. n
  BY <1>3, <1>5
<1>9. Len(Ins(r)) = n /\ Len(Exs(r)) = n
  <2>1. Len(Ins(r)) \in Nat /\ 1 .. Len(Ins(r)) = 1 .. n
    BY <1>6, <1>8, LenProperties
  <2>2. Len(Exs(r)) \in Nat /\ 1 .. Len(Exs(r)) = 1 .. n
    BY <1>7, <1>8, LenProperties
  <2> QED  BY <1>3, <2>1, <2>2
<1>10. Ins(r) # <<>> /\ Exs(r) # <<>>
  BY <1>3, <1>9, EmptySeq
<1>11. Range(r.matches) = {r.matches[i] : i \in DOMAIN r.matches}
  BY DEF Range
<1> QED  BY <1>1, <1>3, <1>6, <1>7, <1>8, <1>9, <1>10, <1>11 DEF n

LEMMA SidesOf ==
  ASSUME NEW r, NEW v
  PROVE  Value1(r, v) = Joined(Ins(r), v) /\ Value2(r, v) = Joined(Exs(r), v)
BY DEF Value1, Value2, Ins, Exs
-----------------------------------------------------------------------------
(* Types *)

Entries == [cid : Ids, rule : Nat, v1 : Sides, v2 : Sides, ts : Nat]
Keyed(table) == \A t, u \in table : SameKey(t, u) => t = u

(***************************************************************************)
(* An object that is stored has a profile, and so has every original id:   *)
(* the batch job and the merger look them up.                              *)
(***************************************************************************)
TypeInv ==
  /\ home \in [Pids -> Ids \cup {NoId}] /\ origin \in [Pids -> Ids \cup {NoId}]
  /\ row \in [Ids -> [Profile -> Values]]
  /\ stored \subseteq Objects
  /\ index \subseteq Entries /\ Keyed(index)
  /\ queue \subseteq Ids \X Ids
  /\ active \in 0..Len(RuleVersions) /\ nextId \in 1..(MaxIds + 1) /\ tasks \in 0..MaxTasks
  /\ shown \subseteq [cid : Ids, rule : AllRules, view : Views]
  /\ covered \subseteq stored \X AllRules
  /\ \A o \in stored : home[o.pid] \in Ids
  /\ \A p \in Pids : origin[p] # NoId => home[p] \in Ids

LEMMA Constants ==
  /\ MaxIds \in Nat /\ MaxTasks \in Nat /\ Now \in Nat /\ Lagging \in BOOLEAN
  /\ NoId \notin Ids /\ Ids \subseteq Nat
  /\ Len(RuleVersions) \in Nat /\ DOMAIN RuleVersions = 1 .. Len(RuleVersions)
  /\ Profile \subseteq Fields
  /\ \A o \in Objects : o.pid \in Pids /\ o.ts \in Nat /\ o.type \in STRING
                      /\ o.val \in [Fields -> Values]
<1>1. Len(RuleVersions) \in Nat /\ DOMAIN RuleVersions = 1 .. Len(RuleVersions)
  BY RulesAssumption, LenProperties
<1> QED  BY <1>1, LaggingAssumption, ObjectsAssumption DEF Ids, NoId, Profile, Pids

LEMMA CachedVersions ==
  ASSUME active \in 0 .. Len(RuleVersions), NEW version \in Cached
  PROVE  version \in 0 .. Len(RuleVersions) /\ (~Lagging => version = active)
BY Constants DEF Cached

LEMMA ViewTypes ==
  /\ \A o \in Objects : Own(o) \in Views
  /\ \A o \in Objects, f \in [Profile -> Values], ts \in Nat : Hydrated(o, f, ts) \in Views
  /\ \A f \in [Profile -> Values] : Whole(f) \in Views
BY Constants, ValuesAssumption, FieldsAssumption DEF Own, Hydrated, Whole, Views

LEMMA EntryType ==
  ASSUME NEW id \in Ids, NEW r \in AllRules, NEW v \in Views
  PROVE  Entry(id, r, v) \in Entries
<1>1. v.val \in [Fields -> Values] /\ v.ts \in Nat
  BY DEF Views
<1>2. r.index \in Nat /\ Ins(r) \in Seq(Fields) /\ Exs(r) \in Seq(Fields)
  BY RuleType DEF RuleRecords
<1>3. Value1(r, v) \in Sides /\ Value2(r, v) \in Sides
  BY <1>1, <1>2, JoinedType, SidesOf DEF Sides
<1> QED  BY <1>1, <1>2, <1>3 DEF Entry, Entries

(***************************************************************************)
(* What an INSERT does to the index: it keeps what is there, adds one      *)
(* record of each rule that applies unless its key is taken, and keeps the *)
(* keys apart, because rules of one set have different numbers.            *)
(***************************************************************************)
LEMMA IndexedFacts ==
  ASSUME NEW table, table \subseteq Entries, Keyed(table),
         NEW id \in Ids, NEW rules \in SUBSET AllRules, NEW v \in Views,
         \A r, s \in rules : r.index = s.index => r = s
  PROVE  /\ Indexed(table, id, rules, v) \subseteq Entries
         /\ Keyed(Indexed(table, id, rules, v))
         /\ table \subseteq Indexed(table, id, rules, v)
         /\ \A t \in Indexed(table, id, rules, v) :
              t \in table \/ \E r \in rules : Applies(r, v) /\ t = Entry(id, r, v)
         /\ \A r \in rules : Applies(r, v) =>
              \E t \in Indexed(table, id, rules, v) : SameKey(t, Entry(id, r, v))
<1> DEFINE all == Indexed(table, id, rules, v)
<1>1. \A t \in all : \/ t \in table
                     \/ /\ \E r \in rules : Applies(r, v) /\ t = Entry(id, r, v)
                        /\ \A u \in table : ~SameKey(u, t)
  BY DEF Indexed
<1>2. all \subseteq Entries
  BY <1>1, EntryType
<1>3. table \subseteq all
  BY DEF Indexed
<1>4. \A t, u : SameKey(t, u) => SameKey(u, t)
  BY DEF SameKey
<1>5. \A r, s \in rules : SameKey(Entry(id, r, v), Entry(id, s, v)) => r = s
  BY DEF SameKey, Entry
<1>6. Keyed(all)
  <2> SUFFICES ASSUME NEW t \in all, NEW u \in all, SameKey(t, u)  PROVE t = u
    BY DEF Keyed
  <2>1. CASE t \in table /\ u \in table
    BY <2>1 DEF Keyed
  <2>2. CASE t \in table /\ u \notin table
    BY <1>1, <2>2
  <2>3. CASE t \notin table /\ u \in table
    BY <1>1, <1>4, <2>3
  <2>4. CASE t \notin table /\ u \notin table
    BY <1>1, <1>5, <2>4
  <2> QED  BY <2>1, <2>2, <2>3, <2>4
<1>7. ASSUME NEW r \in rules, Applies(r, v)  PROVE \E t \in all : SameKey(t, Entry(id, r, v))
  <2>1. CASE \E t \in table : SameKey(t, Entry(id, r, v))
    BY <1>3, <2>1
  <2>2. CASE ~\E t \in table : SameKey(t, Entry(id, r, v))
    <3>1. Entry(id, r, v) \in all
      BY <1>7, <2>2 DEF Indexed
    <3> QED  BY <3>1 DEF SameKey
  <2> QED  BY <2>1, <2>2
<1> QED  BY <1>1, <1>2, <1>3, <1>6, <1>7

(***************************************************************************)
(* What a merge does to it: no record is of src any more, those of other   *)
(* ids than tgt stay, and every record of src or tgt but for those of the  *)
(* rules `dropped` has one of tgt with its values.                         *)
(***************************************************************************)
LEMMA MovedFacts ==
  ASSUME NEW table, table \subseteq Entries, Keyed(table),
         NEW src \in Ids, NEW tgt \in Ids, src # tgt, NEW dropped
  PROVE  LET after == MovedRecords(table, src, tgt, dropped) IN
         /\ after \subseteq Entries /\ Keyed(after)
         /\ \A t \in after : /\ t.cid # src
                             /\ t.cid = tgt => \A r \in dropped : t.rule # r.index
                             /\ t \in table \/ \E u \in table : u.cid = src /\ t = [u EXCEPT !.cid = tgt]
         /\ \A t \in table : t.cid \notin {src, tgt} => t \in after
         /\ \A t \in table : t.cid \in {src, tgt} /\ (\A r \in dropped : t.rule # r.index) =>
              \E u \in after : u.cid = tgt /\ u.rule = t.rule /\ u.v1 = t.v1 /\ u.v2 = t.v2
<1> DEFINE kept  == {t \in table : t.cid # src}
           moved == {[t EXCEPT !.cid = tgt] : t \in {t \in table : t.cid = src}}
           all   == kept \cup {m \in moved : \A t \in kept : ~SameKey(t, m)}
           after == {t \in all : t.cid = tgt => \A r \in dropped : t.rule # r.index}
<1>1. MovedRecords(table, src, tgt, dropped) = after
  BY DEF MovedRecords
<1>2. ASSUME NEW m \in moved
      PROVE  \E u \in table : /\ u.cid = src /\ m = [u EXCEPT !.cid = tgt] /\ m \in Entries /\ m.cid = tgt
                              /\ m.rule = u.rule /\ m.v1 = u.v1 /\ m.v2 = u.v2
  <2>1. PICK u \in table : u.cid = src /\ m = [u EXCEPT !.cid = tgt]
    OBVIOUS
  <2> QED  BY <2>1 DEF Entries
<1>3. \A m \in moved, n \in moved : SameKey(m, n) => m = n
  <2> SUFFICES ASSUME NEW m \in moved, NEW n \in moved, SameKey(m, n)  PROVE m = n
    OBVIOUS
  <2>1. PICK u \in table : /\ u.cid = src /\ m = [u EXCEPT !.cid = tgt]
                           /\ m.rule = u.rule /\ m.v1 = u.v1 /\ m.v2 = u.v2
    BY <1>2
  <2>2. PICK w \in table : /\ w.cid = src /\ n = [w EXCEPT !.cid = tgt]
                           /\ n.rule = w.rule /\ n.v1 = w.v1 /\ n.v2 = w.v2
    BY <1>2
  <2>3. SameKey(u, w)
    BY <2>1, <2>2 DEF SameKey
  <2>4. u = w
    BY <2>3 DEF Keyed
  <2> QED  BY <2>1, <2>2, <2>4
<1>4. \A t, u : SameKey(t, u) => SameKey(u, t)
  BY DEF SameKey
<1>5. after \subseteq Entries
  BY <1>2
<1>6. Keyed(after)
  <2> SUFFICES ASSUME NEW t \in after, NEW u \in after, SameKey(t, u)  PROVE t = u
    BY DEF Keyed
  <2>1. CASE t \in kept /\ u \in kept
    BY <2>1 DEF Keyed
  <2>2. CASE t \in kept /\ u \notin kept
    BY <2>2
  <2>3. CASE t \notin kept /\ u \in kept
    BY <1>4, <2>3
  <2>4. CASE t \notin kept /\ u \notin kept
    BY <1>3, <2>4
  <2> QED  BY <2>1, <2>2, <2>3, <2>4
<1>7. ASSUME NEW t \in after
      PROVE  /\ t.cid # src
             /\ t.cid = tgt => \A r \in dropped : t.rule # r.index
             /\ t \in table \/ \E u \in table : u.cid = src /\ t = [u EXCEPT !.cid = tgt]
  <2>1. CASE t \in kept
    BY <2>1
  <2>2. CASE t \in moved
    BY <1>2, <2>2
  <2> QED  BY <2>1, <2>2
<1>8. \A t \in table : t.cid \notin {src, tgt} => t \in after
  OBVIOUS
<1>9. ASSUME NEW t \in table, t.cid \in {src, tgt}, \A r \in dropped : t.rule # r.index
      PROVE  \E u \in after : u.cid = tgt /\ u.rule = t.rule /\ u.v1 = t.v1 /\ u.v2 = t.v2
  <2>1. CASE t.cid = tgt
    <3>1. t \in after
      BY <1>9, <2>1
    <3> QED  BY <2>1, <3>1
  <2>2. CASE t.cid = src
    <3> DEFINE m == [t EXCEPT !.cid = tgt]
    <3>1. m \in moved /\ m.cid = tgt /\ m.rule = t.rule /\ m.v1 = t.v1 /\ m.v2 = t.v2
      BY <2>2 DEF Entries
    <3> HIDE DEF m
    <3>2. CASE \E u \in kept : SameKey(u, m)
      <4>1. PICK u \in kept : SameKey(u, m)
        BY <3>2
      <4>2. u.cid = tgt /\ u.rule = t.rule /\ u.v1 = t.v1 /\ u.v2 = t.v2
        BY <3>1, <4>1 DEF SameKey
      <4>3. u \in after
        BY <1>9, <4>2
      <4> QED  BY <4>2, <4>3
    <3>3. CASE ~\E u \in kept : SameKey(u, m)
      <4>1. m \in after
        BY <1>9, <3>1, <3>3
      <4> QED  BY <3>1, <4>1
    <3> QED  BY <3>2, <3>3
  <2> QED  BY <1>9, <2>1, <2>2
<1> HIDE DEF after
<1> QED  BY <1>1, <1>5, <1>6, <1>7, <1>8, <1>9
-----------------------------------------------------------------------------
(* What the steps come to *)

Levels(version) == {r \in Rules(version) : IsProfileLevel(r)}

\* A put of o that files it under c, with fields in the search row of c.
PutIs(o, version, c, fields) ==
  /\ version \in Cached /\ c \in Ids /\ fields \in [Profile -> Values]
  /\ \/ home[o.pid] = c
     \/ home[o.pid] = NoId /\ (c = nextId \/ \E t \in index : t.cid = c)
  /\ home' = [home EXCEPT ![o.pid] = c]
  /\ origin' \in [Pids -> Ids \cup {NoId}]
  /\ \A p \in Pids \ {o.pid} : origin'[p] = origin[p]
  /\ row' = [row EXCEPT ![c] = fields]
  /\ stored' = stored \cup {o}
  /\ index' = Indexed(index, c, Rules(version), Hydrated(o, fields, o.ts))
  /\ shown' = shown \cup Shown(c, Rules(version), Hydrated(o, fields, o.ts))
  /\ covered' = covered \cup {<<o, r>> : r \in Rules(version)}
  /\ queue' \subseteq Ids \X Ids
  /\ nextId \in Ids /\ nextId' = nextId + 1 /\ UNCHANGED <<active, tasks>>

\* A merge of src into tgt, whose row gets the fields.
MergeIs(src, tgt, fields, version) ==
  /\ version \in Cached /\ src \in Ids /\ tgt \in Ids /\ src # tgt
  /\ fields \in [Profile -> Values]
  /\ \E p \in Pids : home[p] = src
  /\ \E p \in Pids : home[p] = tgt
  /\ home' = [p \in Pids |-> IF home[p] = src THEN tgt ELSE home[p]]
  /\ row' = [row EXCEPT ![src] = BlankRow, ![tgt] = fields]
  /\ \/ /\ Levels(version) # {} /\ \A r \in Levels(version) : ~Applies(r, Whole(fields))
        /\ UNCHANGED <<index, shown>>
     \/ Rules(version) = {} /\ UNCHANGED <<index, shown>>
     \/ /\ index' = Indexed(MovedRecords(index, src, tgt, Levels(version)), tgt, Levels(version),
                            Whole(fields))
        /\ shown' = MovedShown(src, tgt, Levels(version)) \cup Shown(tgt, Levels(version), Whole(fields))
  /\ queue' \subseteq Ids \X Ids
  /\ UNCHANGED <<origin, stored, active, nextId, tasks, covered>>

LEMMA CombinationType ==
  ASSUME NEW old, NEW new, NEW f \in Combinations(old, new)
  PROVE  f \in [Profile -> Values]
BY DEF Combinations

LEMMA PutOf ==
  ASSUME TypeInv, NEW o \in Objects, Put(o)
  PROVE  \E version \in Cached, c \in Ids, fields \in [Profile -> Values] :
           PutIs(o, version, c, fields)
<1>1. nextId \in Ids /\ o.pid \in Pids /\ queue \subseteq Ids \X Ids
  BY Constants DEF TypeInv, Put, Ids
<1>2. PICK version \in Cached : \/ PutKnown(o, Rules(version)) \/ PutNew(o, Rules(version))
                                \/ PutMatched(o, Rules(version))
  BY DEF Put
<1> DEFINE rules == Rules(version)
<1>3. \A c \in Ids : Store(o, c, rules) =>
        \E fields \in [Profile -> Values] :
          /\ row' = [row EXCEPT ![c] = fields]
          /\ stored' = stored \cup {o}
          /\ index' = Indexed(index, c, rules, Hydrated(o, fields, o.ts))
          /\ shown' = shown \cup Shown(c, rules, Hydrated(o, fields, o.ts))
          /\ covered' = covered \cup {<<o, r>> : r \in rules}
          /\ nextId' = nextId + 1 /\ UNCHANGED <<active, tasks>>
  BY CombinationType DEF Store
<1>4. \A m \in FirstMatches(rules, Own(o), nextId) :
         /\ \A r \in DOMAIN m : m[r] \in Ids /\ \E t \in index : t.cid = m[r]
         /\ \A r \in DOMAIN m : <<nextId, m[r]>> \in Ids \X Ids
  <2> SUFFICES ASSUME NEW m \in FirstMatches(rules, Own(o), nextId), NEW r \in DOMAIN m
               PROVE  m[r] \in Ids /\ \E t \in index : t.cid = m[r]
    BY <1>1
  <2>1. m[r] \in Ids /\ m[r] \in Found(r, Own(o), nextId)
    BY DEF FirstMatches
  <2> QED  BY <2>1 DEF Found
<1>5. CASE PutKnown(o, rules)
  <2>1. home[o.pid] \in Ids
    BY <1>1, <1>5 DEF PutKnown, TypeInv
  <2>2. home' = [home EXCEPT ![o.pid] = home[o.pid]] /\ origin' = origin
    BY <1>5 DEF PutKnown, TypeInv
  <2>3. queue' \subseteq Ids \X Ids
    BY <1>1, <1>4, <1>5 DEF PutKnown
  <2>4. Store(o, home[o.pid], rules)
    BY <1>5 DEF PutKnown
  <2>5. PICK fields \in [Profile -> Values] :
          /\ row' = [row EXCEPT ![home[o.pid]] = fields]
          /\ stored' = stored \cup {o}
          /\ index' = Indexed(index, home[o.pid], rules, Hydrated(o, fields, o.ts))
          /\ shown' = shown \cup Shown(home[o.pid], rules, Hydrated(o, fields, o.ts))
          /\ covered' = covered \cup {<<o, r>> : r \in rules}
          /\ nextId' = nextId + 1 /\ UNCHANGED <<active, tasks>>
    BY <1>3, <2>1, <2>4
  <2>6. PutIs(o, version, home[o.pid], fields)
    BY <1>1, <2>1, <2>2, <2>3, <2>5 DEF PutIs, TypeInv
  <2> QED  BY <2>1, <2>6
<1>6. CASE PutNew(o, rules)
  <2>1. /\ home[o.pid] = NoId /\ home' = [home EXCEPT ![o.pid] = nextId]
        /\ origin' = [origin EXCEPT ![o.pid] = nextId] /\ queue' = queue
        /\ Store(o, nextId, rules)
    BY <1>6 DEF PutNew
  <2>2. PICK fields \in [Profile -> Values] :
          /\ row' = [row EXCEPT ![nextId] = fields]
          /\ stored' = stored \cup {o}
          /\ index' = Indexed(index, nextId, rules, Hydrated(o, fields, o.ts))
          /\ shown' = shown \cup Shown(nextId, rules, Hydrated(o, fields, o.ts))
          /\ covered' = covered \cup {<<o, r>> : r \in rules}
          /\ nextId' = nextId + 1 /\ UNCHANGED <<active, tasks>>
    BY <1>1, <1>3, <2>1
  <2>3. PutIs(o, version, nextId, fields)
    BY <1>1, <2>1, <2>2 DEF PutIs, TypeInv
  <2> QED  BY <1>1, <2>3
<1>7. CASE PutMatched(o, rules)
  <2>1. PICK m \in FirstMatches(rules, Own(o), nextId) : \E first \in DOMAIN m :
          /\ home' = [home EXCEPT ![o.pid] = m[first]]
          /\ origin' = [origin EXCEPT ![o.pid] = nextId]
          /\ queue' = queue \cup Remaining(m, first)
          /\ Store(o, m[first], rules)
    BY <1>7 DEF PutMatched
  <2>2. PICK first \in DOMAIN m :
          /\ home' = [home EXCEPT ![o.pid] = m[first]]
          /\ origin' = [origin EXCEPT ![o.pid] = nextId]
          /\ queue' = queue \cup Remaining(m, first)
          /\ Store(o, m[first], rules)
    BY <2>1
  <2>3. m[first] \in Ids /\ \E t \in index : t.cid = m[first]
    BY <1>4
  <2>4. queue' \subseteq Ids \X Ids
    BY <1>1, <1>4, <2>2 DEF Remaining
  <2>5. PICK fields \in [Profile -> Values] :
          /\ row' = [row EXCEPT ![m[first]] = fields]
          /\ stored' = stored \cup {o}
          /\ index' = Indexed(index, m[first], rules, Hydrated(o, fields, o.ts))
          /\ shown' = shown \cup Shown(m[first], rules, Hydrated(o, fields, o.ts))
          /\ covered' = covered \cup {<<o, r>> : r \in rules}
          /\ nextId' = nextId + 1 /\ UNCHANGED <<active, tasks>>
    BY <1>3, <2>2, <2>3
  <2>6. home[o.pid] = NoId
    BY <1>7 DEF PutMatched
  <2>7. PutIs(o, version, m[first], fields)
    BY <1>1, <2>2, <2>3, <2>4, <2>5, <2>6 DEF PutIs, TypeInv
  <2> QED  BY <2>3, <2>7
<1> QED  BY <1>2, <1>5, <1>6, <1>7

LEMMA MergeOf ==
  ASSUME TypeInv, NEW rq \in queue, Merge(rq)
  PROVE  \E src \in Ids, tgt \in Ids, fields \in [Profile -> Values], version \in Cached :
           MergeIs(src, tgt, fields, version)
<1>1. PICK src \in Resolve(rq[1]), tgt \in Resolve(rq[2]) :
        /\ src # tgt
        /\ home' = [p \in Pids |-> IF home[p] = src THEN tgt ELSE home[p]]
        /\ \E fields \in Combinations(row[src], row[tgt]) :
             /\ row' = [row EXCEPT ![src] = BlankRow, ![tgt] = fields]
             /\ \E version \in Cached : Reindex(rq, src, tgt, Whole(fields), Rules(version))
        /\ UNCHANGED <<origin, stored, active, nextId, tasks, covered>>
  BY DEF Merge
<1>2. rq[1] \in Ids /\ rq[2] \in Ids
  BY DEF TypeInv
<1>3. /\ src \in Ids /\ \E p \in Pids : home[p] = src
      /\ tgt \in Ids /\ \E p \in Pids : home[p] = tgt
  BY <1>2, Constants DEF Resolve, TypeInv
<1>4. PICK fields \in Combinations(row[src], row[tgt]) :
        /\ row' = [row EXCEPT ![src] = BlankRow, ![tgt] = fields]
        /\ \E version \in Cached : Reindex(rq, src, tgt, Whole(fields), Rules(version))
  BY <1>1
<1>5. PICK version \in Cached : Reindex(rq, src, tgt, Whole(fields), Rules(version))
  BY <1>4
<1>6. fields \in [Profile -> Values]
  BY CombinationType
<1> DEFINE v == Whole(fields)
           rules == Rules(version)
<1>7. \A m \in FirstMatches(rules, v, tgt)' : \A r \in DOMAIN m : <<tgt, m[r]>> \in Ids \X Ids
  BY <1>3 DEF FirstMatches
<1>8. /\ queue' \subseteq Ids \X Ids
      /\ \/ /\ Levels(version) # {} /\ \A r \in Levels(version) : ~Applies(r, v)
            /\ UNCHANGED <<index, shown>>
         \/ rules = {} /\ UNCHANGED <<index, shown>>
         \/ /\ index' = Indexed(MovedRecords(index, src, tgt, Levels(version)), tgt, Levels(version), v)
            /\ shown' = MovedShown(src, tgt, Levels(version)) \cup Shown(tgt, Levels(version), v)
  BY <1>5, <1>7 DEF Reindex, Levels, TypeInv
<1>9. MergeIs(src, tgt, fields, version)
  BY <1>1, <1>3, <1>4, <1>6, <1>8 DEF MergeIs
<1> QED  BY <1>3, <1>6, <1>9
-----------------------------------------------------------------------------
(* Types are kept *)

LEMMA ShownType ==
  ASSUME NEW id \in Ids, NEW rules \in SUBSET AllRules, NEW v \in Views
  PROVE  Shown(id, rules, v) \subseteq [cid : Ids, rule : AllRules, view : Views]
BY DEF Shown

LEMMA PutTypes ==
  ASSUME TypeInv, NEW o \in Objects, Put(o)
  PROVE  TypeInv'
<1>1. PICK version \in Cached, c \in Ids, fields \in [Profile -> Values] :
        PutIs(o, version, c, fields)
  BY PutOf
<1> DEFINE v == Hydrated(o, fields, o.ts)
<1>2. /\ Rules(version) \in SUBSET AllRules
      /\ \A r, s \in Rules(version) : r.index = s.index => r = s
  BY CachedVersions, RuleFacts DEF TypeInv
<1>3. v \in Views
  BY Constants, ViewTypes
<1>4. index' \subseteq Entries /\ Keyed(index')
  <2>1. index' = Indexed(index, c, Rules(version), v) /\ index \subseteq Entries /\ Keyed(index)
    BY <1>1 DEF PutIs, TypeInv
  <2> HIDE DEF v
  <2> QED  BY <1>2, <1>3, <2>1, IndexedFacts
<1>5. shown' \subseteq [cid : Ids, rule : AllRules, view : Views]
  BY <1>1, <1>2, <1>3, ShownType DEF PutIs, TypeInv
<1>6. /\ home' \in [Pids -> Ids \cup {NoId}] /\ home'[o.pid] = c
      /\ \A p \in Pids : home'[p] = home[p] \/ p = o.pid
      /\ \A p \in Pids : home[p] \in Ids => home'[p] \in Ids
  BY <1>1, Constants DEF PutIs, TypeInv
<1>7. /\ stored' \subseteq Objects /\ covered' \subseteq stored' \X AllRules
      /\ \A x \in stored' : home'[x.pid] \in Ids
  BY <1>1, <1>2, <1>6, Constants DEF PutIs, TypeInv
<1>8. \A p \in Pids : origin'[p] # NoId => home'[p] \in Ids
  BY <1>1, <1>6 DEF PutIs, TypeInv
<1>9. /\ row' \in [Ids -> [Profile -> Values]] /\ nextId' \in 1..(MaxIds + 1)
      /\ origin' \in [Pids -> Ids \cup {NoId}] /\ queue' \subseteq Ids \X Ids
      /\ active' = active /\ tasks' = tasks
  BY <1>1, Constants DEF PutIs, TypeInv, Ids
<1> QED  BY <1>4, <1>5, <1>6, <1>7, <1>8, <1>9 DEF TypeInv

LEMMA MergeTypes ==
  ASSUME TypeInv, NEW rq \in queue, Merge(rq)
  PROVE  TypeInv'
<1>1. PICK src \in Ids, tgt \in Ids, fields \in [Profile -> Values], version \in Cached :
        MergeIs(src, tgt, fields, version)
  BY MergeOf
<1> DEFINE v == Whole(fields)
           levels == Levels(version)
           moved == MovedRecords(index, src, tgt, levels)
<1>2. /\ levels \in SUBSET AllRules
      /\ \A r, s \in levels : r.index = s.index => r = s
  BY CachedVersions, RuleFacts DEF TypeInv, Levels
<1>3. v \in Views
  BY ViewTypes
<1>4. index' \subseteq Entries /\ Keyed(index')
  <2>1. CASE UNCHANGED index
    BY <2>1 DEF TypeInv
  <2>2. CASE index' = Indexed(moved, tgt, levels, v)
    <3>1. moved \subseteq Entries /\ Keyed(moved)
      BY <1>1, MovedFacts DEF MergeIs, TypeInv
    <3> HIDE DEF levels, moved
    <3> QED  BY <1>2, <1>3, <2>2, <3>1, IndexedFacts
  <2> QED  BY <1>1, <2>1, <2>2 DEF MergeIs
<1>5. shown' \subseteq [cid : Ids, rule : AllRules, view : Views]
  <2>1. MovedShown(src, tgt, levels) \subseteq [cid : Ids, rule : AllRules, view : Views]
    BY DEF MovedShown, TypeInv
  <2>2. Shown(tgt, levels, v) \subseteq [cid : Ids, rule : AllRules, view : Views]
    BY <1>2, <1>3, ShownType
  <2> QED  BY <1>1, <2>1, <2>2 DEF MergeIs, TypeInv
<1>6. /\ home' \in [Pids -> Ids \cup {NoId}]
      /\ \A p \in Pids : home[p] \in Ids => home'[p] \in Ids
  BY <1>1 DEF MergeIs, TypeInv
<1>7. BlankRow \in [Profile -> Values]
  BY ValuesAssumption DEF BlankRow
<1>8. row' \in [Ids -> [Profile -> Values]]
  BY <1>1, <1>7 DEF MergeIs, TypeInv
<1>9. /\ queue' \subseteq Ids \X Ids
      /\ UNCHANGED <<origin, stored, active, nextId, tasks, covered>>
  BY <1>1 DEF MergeIs
<1>10. \A x \in stored' : home'[x.pid] \in Ids
  BY <1>6, <1>9, Constants DEF TypeInv
<1> QED  BY <1>4, <1>5, <1>6, <1>8, <1>9, <1>10 DEF TypeInv

LEMMA ResolutionTypes ==
  ASSUME TypeInv, NEW o \in stored, NEW version \in Cached, NEW r \in Rules(version),
         Resolution(o, r)
  PROVE  TypeInv'
<1> DEFINE c == home[o.pid]
           v == Hydrated(o, row[c], Now)
<1>1. /\ {r} \in SUBSET AllRules /\ c \in Ids /\ v \in Views
      /\ \A x, y \in {r} : x.index = y.index => x = y
  BY CachedVersions, RuleFacts, ViewTypes, Constants DEF TypeInv
<1>2. /\ tasks' \in 0..MaxTasks
      /\ UNCHANGED <<home, origin, row, stored, active, nextId>>
  BY Constants DEF Resolution, TypeInv
<1>3. CASE Found(r, v, c) # {}
  <2>1. \A m \in Found(r, v, c) : m \in Ids
    BY DEF Found, TypeInv, Entries
  <2>2. queue' \subseteq Ids \X Ids /\ UNCHANGED <<index, shown, covered>>
    BY <1>1, <1>3, <2>1 DEF Resolution, TypeInv
  <2> QED  BY <1>2, <2>2 DEF TypeInv
<1>4. CASE Found(r, v, c) = {}
  <2>1. /\ index' = Indexed(index, c, {r}, v)
        /\ shown' = shown \cup Shown(c, {r}, v)
        /\ covered' = covered \cup {<<o, r>>}
        /\ UNCHANGED queue
    BY <1>4 DEF Resolution
  <2> HIDE DEF c, v
  <2>2. index' \subseteq Entries /\ Keyed(index')
    BY <1>1, <2>1, IndexedFacts DEF TypeInv
  <2>3. shown' \subseteq [cid : Ids, rule : AllRules, view : Views]
    BY <1>1, <2>1, ShownType DEF TypeInv
  <2>4. covered' \subseteq stored' \X AllRules
    BY <1>1, <1>2, <2>1 DEF TypeInv
  <2> QED  BY <1>2, <2>1, <2>2, <2>3, <2>4 DEF TypeInv
<1> QED  BY <1>3, <1>4

LEMMA TypeStep == TypeInv /\ [Next]_vars => TypeInv'
<1> SUFFICES ASSUME TypeInv, [Next]_vars  PROVE TypeInv'
  OBVIOUS
<1>1. CASE \E o \in Objects : Put(o)
  BY <1>1, PutTypes
<1>2. CASE \E rq \in queue : Merge(rq)
  BY <1>2, MergeTypes
<1>3. ASSUME NEW rq \in queue, Drop(rq)  PROVE TypeInv'
  BY <1>3 DEF Drop, TypeInv
<1>4. CASE \E o \in stored, version \in Cached : \E r \in Rules(version) : Resolution(o, r)
  BY <1>4, ResolutionTypes
<1>5. CASE Activate
  <2>1. index' \subseteq index /\ active' \in 0..Len(RuleVersions)
    BY <1>5, Constants DEF Activate, Emptied, TypeInv
  <2>2. Keyed(index')
    BY <2>1 DEF Keyed, TypeInv
  <2>3. /\ shown' = {} /\ covered' = {}
        /\ UNCHANGED <<home, origin, row, stored, queue, nextId, tasks>>
    BY <1>5 DEF Activate
  <2> QED  BY <2>1, <2>2, <2>3 DEF TypeInv
<1>6. CASE UNCHANGED vars
  BY <1>6 DEF vars, TypeInv, Keyed
<1> QED  BY <1>1, <1>2, <1>3, <1>4, <1>5, <1>6 DEF Next

LEMMA InitTypes == Init => TypeInv
<1> SUFFICES ASSUME Init  PROVE TypeInv
  OBVIOUS
<1>1. row \in [Ids -> [Profile -> Values]]
  BY ValuesAssumption DEF Init, BlankRow
<1>2. nextId \in 1..(MaxIds + 1) /\ active \in 0..Len(RuleVersions) /\ tasks \in 0..MaxTasks
  BY Constants DEF Init
<1> QED  BY <1>1, <1>2 DEF Init, TypeInv, Keyed

(***************************************************************************)
(* The types, and the primary key of the index: no step writes two records *)
(* of one id, rule and pair of values, whatever is put, merged, indexed by *)
(* the batch job or activated, another process's old rule set included.    *)
(***************************************************************************)
THEOREM TypeCorrect == Spec => []TypeOK
<1>1. Init => TypeInv
  BY InitTypes
<1>2. TypeInv /\ [Next]_vars => TypeInv'
  BY TypeStep
<1>3. TypeInv => TypeOK
  BY DEF TypeInv, TypeOK, Entries, Keyed
<1> QED  BY <1>1, <1>2, <1>3, PTL DEF Spec
-----------------------------------------------------------------------------
(* Who is matched is meant *)

\* The existing field is the incoming one in every condition.
Mirrored(r) == \A c \in Range(r.matches) : Incoming(c) = Existing(c)

\* All incoming fields are of one object type and all existing ones of another.
Across(r) == \E one \in STRING, other \in STRING :
  /\ one # other /\ ProfileType \notin {one, other}
  /\ \A c \in Range(r.matches) : TypeOf[Incoming(c)] = one /\ TypeOf[Existing(c)] = other

Single(r) == Len(r.matches) = 1

\* A rule whose index values can be taken apart again: no object that it applies to has
\* a part of a side, and a field that is named twice is compared with one that is.
Unambiguous(r) == Alike(Ins(r), Exs(r)) /\ (Single(r) \/ Mirrored(r) \/ Across(r))

\* Normalization leaves something of every value.
NothingBlanked == \A x \in Values : Norm[x] = Blank => x = Blank

LEMMA ConditionsOf ==
  ASSUME NEW r \in AllRules
  PROVE  /\ \A i \in DOMAIN Ins(r) : \E c \in Range(r.matches) :
              Ins(r)[i] = Incoming(c) /\ Exs(r)[i] = Existing(c)
         /\ \A c \in Range(r.matches) : \E i \in DOMAIN Ins(r) :
              Ins(r)[i] = Incoming(c) /\ Exs(r)[i] = Existing(c)
         /\ DOMAIN Exs(r) = DOMAIN Ins(r)
         /\ \A i \in DOMAIN Ins(r) : Ins(r)[i] \in Fields /\ Exs(r)[i] \in Fields
<1>1. /\ DOMAIN Ins(r) = DOMAIN r.matches /\ DOMAIN Exs(r) = DOMAIN r.matches
      /\ Range(r.matches) = {r.matches[i] : i \in DOMAIN r.matches}
      /\ Ins(r) \in Seq(Fields) /\ Exs(r) \in Seq(Fields)
  BY RuleType
<1>2. \A i \in DOMAIN r.matches : Ins(r)[i] = Incoming(r.matches[i]) /\ Exs(r)[i] = Existing(r.matches[i])
  BY DEF Ins, Exs
<1>3. \A i \in DOMAIN Ins(r) : Ins(r)[i] \in Fields
  BY <1>1, LenProperties
<1>4. \A i \in DOMAIN Exs(r) : Exs(r)[i] \in Fields
  BY <1>1, LenProperties
<1> QED  BY <1>1, <1>2, <1>3, <1>4

\* Where a rule applies, each condition has a value on one of its sides.
LEMMA AppliesSides ==
  ASSUME NEW r \in AllRules, NEW v, Applies(r, v)
  PROVE  \A i \in DOMAIN Ins(r) : Value(v, Ins(r)[i]) # Blank \/ Value(v, Exs(r)[i]) # Blank
BY ConditionsOf DEF Applies

\* The sides of such a rule are full or empty, and not both are empty.
LEMMA WholeSides ==
  ASSUME NEW r \in AllRules, Unambiguous(r), NEW v, Applies(r, v)
  PROVE  /\ Full(Ins(r), v) \/ Empty(Ins(r), v)
         /\ Full(Exs(r), v) \/ Empty(Exs(r), v)
         /\ Empty(Exs(r), v) => Full(Ins(r), v)
         /\ Empty(Ins(r), v) => Full(Exs(r), v)
<1>1. \A i \in DOMAIN Ins(r) : Value(v, Ins(r)[i]) # Blank \/ Value(v, Exs(r)[i]) # Blank
  BY AppliesSides
<1>2. DOMAIN Exs(r) = DOMAIN Ins(r)
  BY ConditionsOf
<1>3. CASE Single(r)
  <2>1. DOMAIN Ins(r) = {1}
    <3>1. Len(Ins(r)) = 1 /\ Ins(r) \in Seq(Fields)
      BY <1>3, RuleType DEF Single
    <3>2. DOMAIN Ins(r) = 1 .. 1
      BY <3>1, LenProperties
    <3> QED  BY <3>2
  <2> QED  BY <1>1, <1>2, <2>1 DEF Full, Empty
<1>4. CASE Mirrored(r)
  <2>1. \A i \in DOMAIN Ins(r) : Ins(r)[i] = Exs(r)[i]
    BY <1>4, ConditionsOf DEF Mirrored
  <2>2. Full(Ins(r), v) /\ Full(Exs(r), v)
    BY <1>1, <1>2, <2>1 DEF Full
  <2>3. 1 \in DOMAIN Ins(r)
    <3>1. Ins(r) \in Seq(Fields) /\ Ins(r) # <<>>
      BY RuleType
    <3>2. Len(Ins(r)) \in Nat \ {0} /\ DOMAIN Ins(r) = 1 .. Len(Ins(r))
      BY <3>1, EmptySeq, LenProperties
    <3> QED  BY <3>2
  <2> QED  BY <1>2, <2>2, <2>3 DEF Full, Empty
<1>5. CASE Across(r)
  <2>1. PICK one \in STRING, other \in STRING :
          /\ one # other /\ ProfileType \notin {one, other}
          /\ \A c \in Range(r.matches) : TypeOf[Incoming(c)] = one /\ TypeOf[Existing(c)] = other
    BY <1>5 DEF Across
  <2>2. \A i \in DOMAIN Ins(r) : TypeOf[Ins(r)[i]] = one /\ TypeOf[Exs(r)[i]] = other
    BY <2>1, ConditionsOf
  <2>3. CASE v.type # other
    <3>1. Empty(Exs(r), v)
      BY <1>2, <2>1, <2>2, <2>3 DEF Empty, Value
    <3>2. Full(Ins(r), v)
      BY <1>1, <1>2, <3>1 DEF Empty, Full
    <3> QED  BY <1>1, <1>2, <3>1, <3>2 DEF Full, Empty
  <2>4. CASE v.type = other
    <3>1. Empty(Ins(r), v)
      BY <2>1, <2>2, <2>4 DEF Empty, Value
    <3>2. Full(Exs(r), v)
      BY <1>1, <1>2, <3>1 DEF Empty, Full
    <3> QED  BY <1>1, <1>2, <3>1, <3>2 DEF Full, Empty
  <2> QED  BY <2>3, <2>4
<1> QED  BY <1>3, <1>4, <1>5 DEF Unambiguous

LEMMA NotBlanked ==
  ASSUME NothingBlanked, NEW v \in Views, NEW F \in Seq(Fields), Full(F, v)
  PROVE  \A i \in DOMAIN F : Norm[Value(v, F[i])] # Blank
<1>1. \A i \in DOMAIN F : F[i] \in Fields
  BY LenProperties
<1>2. \A i \in DOMAIN F : Value(v, F[i]) \in Values
  BY <1>1, ValueType DEF Views
<1> QED  BY <1>2 DEF Full, NothingBlanked

(***************************************************************************)
(* If the search for a hits what was indexed for b, every condition holds. *)
(***************************************************************************)
LEMMA HitIsMeant ==
  ASSUME NothingBlanked, NEW r \in AllRules, Unambiguous(r),
         NEW a \in Views, NEW b \in Views, Applies(r, a), Applies(r, b), NEW id,
         SearchHits(r, a, Entry(id, r, b))
  PROVE  Agree(r, a, b) \/ Agree(r, b, a)
<1> DEFINE I == Ins(r)
           E == Exs(r)
<1>1. /\ I \in Seq(Fields) /\ E \in Seq(Fields) /\ I # <<>> /\ E # <<>>
      /\ DOMAIN I = DOMAIN E /\ Len(I) = Len(E)
  BY RuleType
<1>2. Alike(I, E) /\ Alike(E, I) /\ Alike(I, I) /\ Alike(E, E)
  BY <1>1 DEF Unambiguous, Alike
<1>3. IF Joined(E, a) # <<>> THEN Joined(I, b) = Joined(E, a) ELSE Joined(E, b) = Joined(I, a)
  BY SidesOf DEF SearchHits, Entry
<1>4. \A c \in Range(r.matches) : \E i \in DOMAIN I : I[i] = Incoming(c) /\ E[i] = Existing(c)
  BY ConditionsOf
<1>5. /\ Full(I, b) \/ Empty(I, b)
      /\ Full(E, b) \/ Empty(E, b)
      /\ Full(E, a) \/ Empty(E, a)
      /\ Empty(E, a) => Full(I, a)
  BY WholeSides
<1> HIDE DEF I, E
<1>6. CASE Full(E, a)
  <2>1. \A i \in DOMAIN E : Norm[Value(a, E[i])] # Blank
    BY <1>1, <1>6, NotBlanked
  <2>2. Joined(E, a) # <<>>
    BY <1>1, <1>2, <1>6, <2>1, FullSides
  <2>3. Joined(I, b) = Joined(E, a) /\ Full(I, b)
    BY <1>1, <1>3, <1>5, <2>2, EmptySide
  <2>4. \A i \in DOMAIN I : Norm[Value(b, I[i])] # Blank
    BY <1>1, <2>3, NotBlanked
  <2>5. \A i \in DOMAIN E : Norm[Value(a, E[i])] = Norm[Value(b, I[i])]
    <3>1. \A i \in DOMAIN E : Norm[Value(a, E[i])] # Blank /\ Norm[Value(b, I[i])] # Blank
      BY <1>1, <2>1, <2>4
    <3>2. /\ I \in Seq(Fields) /\ E \in Seq(Fields) /\ E # <<>> /\ Alike(E, I)
          /\ Full(E, a) /\ Full(I, b) /\ Joined(E, a) = Joined(I, b)
      BY <1>1, <1>2, <1>6, <2>3
    <3> QED  BY <3>1, <3>2, FullSides
  <2> QED  BY <1>1, <1>4, <2>4, <2>5 DEF Agree
<1>7. CASE Empty(E, a)
  <2>1. Full(I, a) /\ Joined(E, a) = <<>>
    BY <1>1, <1>5, <1>7, EmptySide
  <2>2. \A i \in DOMAIN I : Norm[Value(a, I[i])] # Blank
    BY <1>1, <2>1, NotBlanked
  <2>3. Joined(I, a) # <<>>
    BY <1>1, <1>2, <2>1, <2>2, FullSides
  <2>4. Joined(I, a) = Joined(E, b) /\ Full(E, b)
    BY <1>1, <1>3, <1>5, <2>1, <2>3, EmptySide
  <2>5. \A i \in DOMAIN E : Norm[Value(b, E[i])] # Blank
    BY <1>1, <2>4, NotBlanked
  <2>6. \A i \in DOMAIN I : Norm[Value(a, I[i])] = Norm[Value(b, E[i])]
    <3>1. \A i \in DOMAIN I : Norm[Value(a, I[i])] # Blank /\ Norm[Value(b, E[i])] # Blank
      BY <1>1, <2>2, <2>5
    <3>2. /\ I \in Seq(Fields) /\ E \in Seq(Fields) /\ I # <<>> /\ Alike(I, E)
          /\ Full(I, a) /\ Full(E, b) /\ Joined(I, a) = Joined(E, b)
      BY <1>1, <1>2, <2>1, <2>4
    <3> QED  BY <3>1, <3>2, FullSides
  <2> QED  BY <1>4, <2>2, <2>6 DEF Agree
<1> QED  BY <1>5, <1>6, <1>7

(***************************************************************************)
(* Every record of the index is what one of the things shown for its id    *)
(* came to, for a rule of the active set that applied to it.               *)
(***************************************************************************)
IndexShown ==
  \A t \in index : \E s \in shown :
    s.rule \in Rules(active) /\ Applies(s.rule, s.view) /\ t = Entry(s.cid, s.rule, s.view)

\* The record of an INSERT is shown.
LEMMA IndexedShown ==
  ASSUME NEW id \in Ids, NEW rules \in SUBSET Rules(active), NEW v \in Views,
         NEW r \in rules, Applies(r, v)
  PROVE  \E s \in Shown(id, rules, v) :
           s.rule \in Rules(active) /\ Applies(s.rule, s.view) /\ Entry(id, r, v) = Entry(s.cid, s.rule, s.view)
<1> DEFINE s == [cid |-> id, rule |-> r, view |-> v]
<1>1. s \in Shown(id, rules, v)
  BY DEF Shown
<1>2. s.cid = id /\ s.rule = r /\ s.view = v
  OBVIOUS
<1> HIDE DEF s
<1> QED  BY <1>1, <1>2

\* So is a record that a merge keeps or moves.
LEMMA MovedRecordShown ==
  ASSUME TypeInv, IndexShown, NEW src \in Ids, NEW tgt \in Ids, src # tgt, NEW dropped,
         NEW t \in MovedRecords(index, src, tgt, dropped)
  PROVE  \E s \in MovedShown(src, tgt, dropped) :
           s.rule \in Rules(active) /\ Applies(s.rule, s.view) /\ t = Entry(s.cid, s.rule, s.view)
<1>1. /\ t.cid # src
      /\ t.cid = tgt => \A r \in dropped : t.rule # r.index
      /\ t \in index \/ \E u \in index : u.cid = src /\ t = [u EXCEPT !.cid = tgt]
  <2>1. index \subseteq Entries /\ Keyed(index)
    BY DEF TypeInv
  <2>2. \A u \in MovedRecords(index, src, tgt, dropped) :
          /\ u.cid # src
          /\ u.cid = tgt => \A r \in dropped : u.rule # r.index
          /\ u \in index \/ \E w \in index : w.cid = src /\ u = [w EXCEPT !.cid = tgt]
    BY <2>1, MovedFacts
  <2> QED  BY <2>2
<1> DEFINE Renamed(h) == [h EXCEPT !.cid = IF @ = src THEN tgt ELSE @]
<1>2. \A h \in shown : /\ Renamed(h).cid = (IF h.cid = src THEN tgt ELSE h.cid)
                       /\ Renamed(h).rule = h.rule /\ Renamed(h).view = h.view
  BY DEF TypeInv
<1>3. \A h \in shown : (Renamed(h).cid = tgt => h.rule \notin dropped) => Renamed(h) \in MovedShown(src, tgt, dropped)
  BY <1>2 DEF MovedShown
<1> HIDE DEF Renamed
<1>4. CASE t \in index
  <2>1. PICK s \in shown : s.rule \in Rules(active) /\ Applies(s.rule, s.view) /\ t = Entry(s.cid, s.rule, s.view)
    BY <1>4 DEF IndexShown
  <2>2. t.cid = s.cid /\ t.rule = s.rule.index
    BY <2>1 DEF Entry
  <2>3. Renamed(s).cid = s.cid
    BY <1>1, <1>2, <2>2
  <2>4. Renamed(s).cid = tgt => s.rule \notin dropped
    BY <1>1, <2>2, <2>3
  <2> QED  BY <1>2, <1>3, <2>1, <2>3, <2>4
<1>5. CASE t \notin index
  <2>1. PICK u \in index : u.cid = src /\ t = [u EXCEPT !.cid = tgt]
    BY <1>1, <1>5
  <2>2. PICK s \in shown : s.rule \in Rules(active) /\ Applies(s.rule, s.view) /\ u = Entry(s.cid, s.rule, s.view)
    BY DEF IndexShown
  <2>3. s.cid = src /\ t = Entry(tgt, s.rule, s.view)
    BY <2>1, <2>2 DEF Entry
  <2>4. Renamed(s).cid = tgt
    BY <1>2, <2>3
  <2>5. t.cid = tgt /\ t.rule = s.rule.index
    BY <2>3 DEF Entry
  <2>6. s.rule \notin dropped
    BY <1>1, <2>5
  <2> QED  BY <1>2, <1>3, <2>2, <2>3, <2>4, <2>6
<1> QED  BY <1>4, <1>5

LEMMA ShownStep ==
  ASSUME ~Lagging, TypeInv, IndexShown, [Next]_vars
  PROVE  IndexShown'
<1>1. \A version \in Cached : version = active
  BY CachedVersions DEF TypeInv
<1>2. /\ Rules(active) \in SUBSET AllRules
      /\ \A r, s \in Rules(active) : r.index = s.index => r = s
  BY RuleFacts DEF TypeInv
<1>3. index \subseteq Entries /\ Keyed(index)
  BY DEF TypeInv
<1>4. ASSUME NEW o \in Objects, Put(o)  PROVE IndexShown'
  <2>1. PICK version \in Cached, c \in Ids, fields \in [Profile -> Values] :
          PutIs(o, version, c, fields)
    BY <1>4, PutOf
  <2> DEFINE v == Hydrated(o, fields, o.ts)
  <2>2. v \in Views
    BY Constants, ViewTypes
  <2>3. /\ index' = Indexed(index, c, Rules(active), v) /\ active' = active
        /\ shown' = shown \cup Shown(c, Rules(active), v)
    BY <1>1, <2>1 DEF PutIs
  <2> HIDE DEF v
  <2>4. \A t \in index' : t \in index \/ \E r \in Rules(active) : Applies(r, v) /\ t = Entry(c, r, v)
    BY <1>2, <1>3, <2>2, <2>3, IndexedFacts
  <2> SUFFICES ASSUME NEW t \in index'
               PROVE  \E s \in shown' : s.rule \in Rules(active) /\ Applies(s.rule, s.view) /\ t = Entry(s.cid, s.rule, s.view)
    BY <2>3 DEF IndexShown
  <2>5. CASE t \in index
    BY <2>3, <2>5 DEF IndexShown
  <2>6. CASE t \notin index
    <3>1. PICK r \in Rules(active) : Applies(r, v) /\ t = Entry(c, r, v)
      BY <2>4, <2>6
    <3> QED  BY <2>2, <2>3, <3>1, IndexedShown
  <2> QED  BY <2>5, <2>6
<1>5. ASSUME NEW rq \in queue, Merge(rq)  PROVE IndexShown'
  <2>1. PICK src \in Ids, tgt \in Ids, fields \in [Profile -> Values], version \in Cached :
          MergeIs(src, tgt, fields, version)
    BY <1>5, MergeOf
  <2> DEFINE v == Whole(fields)
             levels == Levels(active)
             moved == MovedRecords(index, src, tgt, levels)
  <2>2. v \in Views
    BY ViewTypes
  <2>3. /\ src # tgt /\ active' = active
        /\ \/ UNCHANGED <<index, shown>>
           \/ /\ index' = Indexed(moved, tgt, levels, v)
              /\ shown' = MovedShown(src, tgt, levels) \cup Shown(tgt, levels, v)
    BY <1>1, <2>1 DEF MergeIs
  <2>4. CASE UNCHANGED <<index, shown>>
    BY <2>3, <2>4 DEF IndexShown
  <2>5. CASE /\ index' = Indexed(moved, tgt, levels, v)
             /\ shown' = MovedShown(src, tgt, levels) \cup Shown(tgt, levels, v)
    <3>1. levels \in SUBSET Rules(active) /\ levels \in SUBSET AllRules
          /\ \A r, s \in levels : r.index = s.index => r = s
      BY <1>2 DEF Levels
    <3>2. moved \subseteq Entries /\ Keyed(moved)
      BY <1>3, <2>3, MovedFacts
    <3>3. \A t \in moved : \E s \in MovedShown(src, tgt, levels) :
            s.rule \in Rules(active) /\ Applies(s.rule, s.view) /\ t = Entry(s.cid, s.rule, s.view)
      BY <2>3, MovedRecordShown
    <3> HIDE DEF v, levels, moved
    <3>4. \A t \in index' : t \in moved \/ \E r \in levels : Applies(r, v) /\ t = Entry(tgt, r, v)
      BY <2>2, <2>5, <3>1, <3>2, IndexedFacts
    <3> SUFFICES ASSUME NEW t \in index'
                 PROVE  \E s \in shown' : s.rule \in Rules(active) /\ Applies(s.rule, s.view) /\ t = Entry(s.cid, s.rule, s.view)
      BY <2>3 DEF IndexShown
    <3>5. CASE t \in moved
      BY <2>5, <3>3, <3>5
    <3>6. CASE t \notin moved
      <4>1. PICK r \in levels : Applies(r, v) /\ t = Entry(tgt, r, v)
        BY <3>4, <3>6
      <4> QED  BY <2>2, <2>5, <3>1, <4>1, IndexedShown
    <3> QED  BY <3>5, <3>6
  <2> QED  BY <2>3, <2>4, <2>5
<1>6. ASSUME NEW rq \in queue, Drop(rq)  PROVE IndexShown'
  BY <1>6 DEF Drop, IndexShown
<1>7. ASSUME NEW o \in stored, NEW version \in Cached, NEW r \in Rules(version), Resolution(o, r)
      PROVE  IndexShown'
  <2> DEFINE c == home[o.pid]
             v == Hydrated(o, row[c], Now)
  <2>1. /\ {r} \in SUBSET AllRules /\ {r} \in SUBSET Rules(active) /\ c \in Ids /\ v \in Views
        /\ \A x, y \in {r} : x.index = y.index => x = y
    BY <1>1, <1>2, ViewTypes, Constants DEF TypeInv
  <2>2. /\ active' = active
        /\ \/ UNCHANGED <<index, shown>>
           \/ index' = Indexed(index, c, {r}, v) /\ shown' = shown \cup Shown(c, {r}, v)
    BY <1>7 DEF Resolution
  <2> HIDE DEF c, v
  <2>3. CASE UNCHANGED <<index, shown>>
    BY <2>2, <2>3 DEF IndexShown
  <2>4. CASE index' = Indexed(index, c, {r}, v) /\ shown' = shown \cup Shown(c, {r}, v)
    <3>1. \A t \in index' : t \in index \/ \E x \in {r} : Applies(x, v) /\ t = Entry(c, x, v)
      BY <1>3, <2>1, <2>4, IndexedFacts
    <3> SUFFICES ASSUME NEW t \in index'
                 PROVE  \E s \in shown' : s.rule \in Rules(active) /\ Applies(s.rule, s.view) /\ t = Entry(s.cid, s.rule, s.view)
      BY <2>2 DEF IndexShown
    <3>2. CASE t \in index
      BY <2>4, <3>2 DEF IndexShown
    <3>3. CASE t \notin index
      <4>1. PICK x \in {r} : Applies(x, v) /\ t = Entry(c, x, v)
        BY <3>1, <3>3
      <4> QED  BY <2>1, <2>4, <4>1, IndexedShown
    <3> QED  BY <3>2, <3>3
  <2> QED  BY <2>2, <2>3, <2>4
<1>8. CASE Activate
  <2>1. Rules(active) = {} => index = {}
    BY DEF IndexShown
  <2>2. index' = {}
    BY <1>8, <2>1 DEF Activate, Emptied
  <2> QED  BY <2>2 DEF IndexShown
<1>9. CASE UNCHANGED vars
  BY <1>9 DEF vars, IndexShown
<1> QED  BY <1>4, <1>5, <1>6, <1>7, <1>8, <1>9 DEF Next

LEMMA ShownMeant ==
  ASSUME TypeInv, IndexShown, NothingBlanked, \A r \in AllRules : Unambiguous(r)
  PROVE  MatchesAreMeant
<1> SUFFICES ASSUME NEW o \in Objects, NEW r \in Rules(active),
                    NEW c \in Found(r, Own(o), home[o.pid])
             PROVE  \E s \in shown : s.cid = c /\ s.rule = r /\ Meant(r, Own(o), s.view)
  BY DEF MatchesAreMeant
<1> DEFINE a == Own(o)
<1>1. /\ Applies(r, a)
      /\ \E t \in index : /\ t.rule = r.index /\ t.cid = c /\ SearchHits(r, a, t)
                          /\ WithinWindow(r, a.ts, t.ts)
  BY DEF Found
<1>2. PICK t \in index : /\ t.rule = r.index /\ t.cid = c /\ SearchHits(r, a, t)
                         /\ WithinWindow(r, a.ts, t.ts)
  BY <1>1
<1>3. PICK s \in shown : s.rule \in Rules(active) /\ Applies(s.rule, s.view) /\ t = Entry(s.cid, s.rule, s.view)
  BY DEF IndexShown
<1>4. t.cid = s.cid /\ t.rule = s.rule.index /\ t.ts = s.view.ts
  BY <1>3 DEF Entry
<1>5. s.rule = r /\ s.cid = c /\ r \in AllRules
  BY <1>2, <1>3, <1>4, RuleFacts DEF TypeInv
<1>6. s.view \in Views /\ a \in Views
  BY ViewTypes DEF TypeInv
<1>7. SearchHits(r, a, Entry(s.cid, r, s.view)) /\ Applies(r, s.view)
  BY <1>2, <1>3, <1>5
<1> HIDE DEF a
<1>8. Agree(r, a, s.view) \/ Agree(r, s.view, a)
  BY <1>1, <1>5, <1>6, <1>7, HitIsMeant
<1>9. ~Skipped(r, a) /\ ~Skipped(r, s.view)
  BY <1>1, <1>7 DEF Applies, Skipped
<1>10. Meant(r, a, s.view)
  BY <1>2, <1>4, <1>8, <1>9 DEF Meant
<1> QED  BY <1>5, <1>10 DEF a

(***************************************************************************)
(* An id that the index offers for a rule has been indexed with fields     *)
(* that meet every condition of it, through any merges, batch runs and     *)
(* changes of the rule set.  It takes rules whose index values can be taken *)
(* apart, normalization that empties no value, and that every process sees *)
(* the active rule set.                                                    *)
(***************************************************************************)
THEOREM MatchesMeant ==
  ASSUME ~Lagging, NothingBlanked, \A r \in AllRules : Unambiguous(r)
  PROVE  Spec => []MatchesAreMeant
<1> DEFINE IInv == TypeInv /\ IndexShown
<1>1. Init => IInv
  BY InitTypes DEF Init, IndexShown
<1>2. IInv /\ [Next]_vars => IInv'
  BY TypeStep, ShownStep
<1>3. IInv => MatchesAreMeant
  BY ShownMeant
<1> HIDE DEF IInv
<1> QED  BY <1>1, <1>2, <1>3, PTL DEF Spec
-----------------------------------------------------------------------------
(* Who is meant is found *)

\* The fields a rule reads.
FieldsOf(r) ==
  {f \in Fields : \/ \E c \in Range(r.matches) : f \in {Incoming(c), Existing(c)}
                  \/ \E s \in r.skips : f \in {s.field, s.other}}

\* A rule about the objects alone.
OnObjects(r) == \A f \in FieldsOf(r) : TypeOf[f] # ProfileType

\* Whichever of two comes first, the other one is looked for where it was indexed.
Symmetric(r) == Mirrored(r) \/ (Across(r) /\ Alike(Ins(r), Exs(r)))

\* A rule whose index records follow what becomes of the search row: it reads nothing of
\* the row, or it is one that every put and every merge indexes again.
Followed(r) == OnObjects(r) \/ IsProfileLevel(r)

(***************************************************************************)
(* A profile that goes into another one takes its index records along: the *)
(* set has no rule of the profile level, or one applies to the merged      *)
(* profile, so that the INSERT of ReindexProfileAfterMerge has values.     *)
(***************************************************************************)
ReindexSucceeds ==
  \A p \in Pids : home[p] \notin {NoId, home'[p]} =>
    \/ Levels(active) = {}
    \/ \E r \in Levels(active) : Applies(r, Whole(row'[home'[p]]))

LEMMA JoinedSame ==
  ASSUME NEW F \in Seq(Fields), NEW x, NEW y, \A i \in DOMAIN F : Value(x, F[i]) = Value(y, F[i])
  PROVE  Joined(F, x) = Joined(F, y)
<1>1. Used(F, x) = Used(F, y) /\ Used(F, x) \in SUBSET Firsts(F)
  BY DEF Used, Firsts
<1>2. \A k \in 1 .. Cardinality(Used(F, x)) : Nth(Used(F, x), k) \in DOMAIN F
  BY <1>1, UsedFacts
<1>3. \A k \in 1 .. Cardinality(Used(F, x)) :
        Norm[Value(x, F[Nth(Used(F, x), k)])] = Norm[Value(y, F[Nth(Used(F, x), k)])]
  BY <1>2
<1>4. Segments(F, x) = Segments(F, y)
  BY <1>1, <1>3 DEF Segments
<1> QED  BY <1>4, JoinedIs

\* A rule tells two views apart by the fields it reads, and by the type only if it skips.
LEMMA SameView ==
  ASSUME NEW r \in AllRules, NEW x, NEW y,
         \A f \in FieldsOf(r) : Value(x, f) = Value(y, f),
         r.skips = {} \/ x.type = y.type
  PROVE  /\ Applies(r, x) <=> Applies(r, y)
         /\ Value1(r, x) = Value1(r, y) /\ Value2(r, x) = Value2(r, y)
<1>1. \A c \in Range(r.matches) : Incoming(c) \in FieldsOf(r) /\ Existing(c) \in FieldsOf(r)
  BY ConditionsOf DEF FieldsOf
<1>2. \A c \in Range(r.matches) : /\ Value(x, Incoming(c)) = Value(y, Incoming(c))
                                  /\ Value(x, Existing(c)) = Value(y, Existing(c))
  BY <1>1
<1>3. \A s \in r.skips : SkipApplies(s, x) <=> SkipApplies(s, y)
  <2> SUFFICES ASSUME NEW s \in r.skips  PROVE SkipApplies(s, x) <=> SkipApplies(s, y)
    OBVIOUS
  <2>1. s \in [field : Fields, other : Fields \cup {NoField}, values : SUBSET Values,
               negated : BOOLEAN]
    BY RuleType DEF RuleRecords
  <2>2. s.field \in FieldsOf(r) /\ (s.other # NoField => s.other \in FieldsOf(r))
    BY <2>1, FieldsAssumption DEF FieldsOf
  <2>3. Value(x, s.field) = Value(y, s.field) /\ Compared(s, x) = Compared(s, y) /\ x.type = y.type
    BY <2>2 DEF Compared
  <2> QED  BY <2>3 DEF SkipApplies
<1>4. Applies(r, x) <=> Applies(r, y)
  BY <1>2, <1>3 DEF Applies
<1>5. Ins(r) \in Seq(Fields) /\ Exs(r) \in Seq(Fields)
  BY RuleType
<1>6. /\ \A i \in DOMAIN Ins(r) : Value(x, Ins(r)[i]) = Value(y, Ins(r)[i])
      /\ \A i \in DOMAIN Exs(r) : Value(x, Exs(r)[i]) = Value(y, Exs(r)[i])
  BY <1>2, ConditionsOf
<1>7. Joined(Ins(r), x) = Joined(Ins(r), y)
  BY <1>5, <1>6, JoinedSame
<1>8. Joined(Exs(r), x) = Joined(Exs(r), y)
  BY <1>5, <1>6, JoinedSame
<1> QED  BY <1>4, <1>7, <1>8, SidesOf

\* What a rule of the profile level sees of an object is the search row.
LEMMA LevelSees ==
  ASSUME NEW r \in AllRules, IsProfileLevel(r), NEW fields \in [Profile -> Values],
         NEW o \in Objects, NEW q \in Objects, NEW ts, NEW u
  PROVE  LET x == Hydrated(o, fields, ts)
         IN  \A y \in {Whole(fields), Hydrated(q, fields, u)} :
               /\ Applies(r, x) <=> Applies(r, y)
               /\ Value1(r, x) = Value1(r, y) /\ Value2(r, x) = Value2(r, y)
<1> DEFINE x == Hydrated(o, fields, ts)
<1> SUFFICES ASSUME NEW y \in {Whole(fields), Hydrated(q, fields, u)}
             PROVE  /\ Applies(r, x) <=> Applies(r, y)
                    /\ Value1(r, x) = Value1(r, y) /\ Value2(r, x) = Value2(r, y)
  OBVIOUS
<1>1. r.skips = {}
  BY DEF IsProfileLevel
<1>2. \A f \in FieldsOf(r) : f \in Fields /\ TypeOf[f] = ProfileType
  <2>1. \A c \in Range(r.matches) : /\ Incoming(c) = c.in /\ Existing(c) = c.ex
                                    /\ TypeOf[c.in] = ProfileType /\ TypeOf[c.ex] = ProfileType
    BY DEF IsProfileLevel, Incoming, Existing
  <2>2. \A c \in Range(r.matches) : Incoming(c) \in Fields /\ Existing(c) \in Fields
    BY ConditionsOf
  <2>3. \A f \in FieldsOf(r) : \E c \in Range(r.matches) : f \in {Incoming(c), Existing(c)}
    BY <1>1 DEF FieldsOf
  <2> QED  BY <2>1, <2>2, <2>3
<1>3. \A f \in FieldsOf(r) : Value(x, f) = fields[f] /\ Value(y, f) = fields[f]
  BY <1>2 DEF Value, Hydrated, Whole, Profile
<1>4. \A f \in FieldsOf(r) : Value(x, f) = Value(y, f)
  BY <1>3
<1> HIDE DEF x
<1> QED  BY <1>1, <1>4, SameView

\* A rule about objects sees nothing of the search row.
LEMMA ObjectSees ==
  ASSUME NEW r \in AllRules, OnObjects(r), NEW o \in Objects, NEW fields, NEW others, NEW ts, NEW u
  PROVE  LET x == Hydrated(o, fields, ts)
             y == Hydrated(o, others, u)
         IN  /\ Applies(r, x) <=> Applies(r, y)
             /\ Value1(r, x) = Value1(r, y) /\ Value2(r, x) = Value2(r, y)
<1> DEFINE x == Hydrated(o, fields, ts)
           y == Hydrated(o, others, u)
<1>1. x.type = y.type
  BY DEF Hydrated
<1>2. \A f \in FieldsOf(r) : f \in Fields /\ f \notin Profile
  BY DEF OnObjects, Profile, FieldsOf
<1>3. \A f \in FieldsOf(r) : Value(x, f) = Value(y, f)
  BY <1>2 DEF Value, Hydrated
<1> HIDE DEF x, y
<1>4. /\ Applies(r, x) <=> Applies(r, y)
      /\ Value1(r, x) = Value1(r, y) /\ Value2(r, x) = Value2(r, y)
  BY <1>1, <1>3, SameView
<1> QED  BY <1>4 DEF x, y

\* What went into the index for a rule is still there, with what the search row now has.
Kept(b, r) ==
  LET v == Hydrated(b, row[home[b.pid]], b.ts) IN
  Applies(r, v) => \E t \in index : SameKey(t, Entry(home[b.pid], r, v))

Covers == covered \subseteq stored \X Rules(active) /\ \A b \in covered : Kept(b[1], b[2])

LEMMA SameKeyIs ==
  ASSUME NEW t, NEW id, NEW r, NEW v
  PROVE  SameKey(t, Entry(id, r, v)) <=>
           t.cid = id /\ t.rule = r.index /\ t.v1 = Value1(r, v) /\ t.v2 = Value2(r, v)
BY DEF SameKey, Entry

\* A pair whose profile and row are left alone stays in an index that grows.
LEMMA KeptByGrowth ==
  ASSUME NEW b, NEW r, Kept(b, r), index \subseteq index',
         home'[b.pid] = home[b.pid], row'[home[b.pid]] = row[home[b.pid]]
  PROVE  Kept(b, r)'
BY DEF Kept

LEMMA PutCovers ==
  ASSUME ~Lagging, TypeInv, Covers, \A r \in AllRules : Followed(r), NEW o \in Objects, Put(o)
  PROVE  Covers'
<1>1. \A version \in Cached : version = active
  BY CachedVersions DEF TypeInv
<1>2. PICK version \in Cached, c \in Ids, fields \in [Profile -> Values] :
        PutIs(o, version, c, fields)
  BY PutOf
<1> DEFINE v == Hydrated(o, fields, o.ts)
           rules == Rules(active)
<1>3. /\ home' = [home EXCEPT ![o.pid] = c] /\ row' = [row EXCEPT ![c] = fields]
      /\ index' = Indexed(index, c, rules, v)
      /\ stored' = stored \cup {o} /\ covered' = covered \cup {<<o, r>> : r \in rules}
      /\ active' = active
      /\ home[o.pid] = c \/ home[o.pid] = NoId
  BY <1>1, <1>2 DEF PutIs
<1>4. /\ rules \in SUBSET AllRules /\ v \in Views
      /\ \A r, s \in rules : r.index = s.index => r = s
  BY RuleFacts, ViewTypes, Constants DEF TypeInv
<1>5. /\ home \in [Pids -> Ids \cup {NoId}] /\ row \in [Ids -> [Profile -> Values]]
      /\ o.pid \in Pids /\ \A b \in stored : home[b.pid] \in Ids /\ b.pid \in Pids /\ b \in Objects
  BY Constants DEF TypeInv
<1> HIDE DEF v, rules
<1>6. /\ index \subseteq index'
      /\ \A r \in rules : Applies(r, v) => \E t \in index' : SameKey(t, Entry(c, r, v))
  <2>1. index \subseteq Entries /\ Keyed(index)
    BY DEF TypeInv
  <2> QED  BY <1>3, <1>4, <2>1, IndexedFacts
<1>7. covered' \subseteq stored' \X Rules(active')
  BY <1>3 DEF Covers, rules
<1>8. ASSUME NEW r \in rules  PROVE Kept(o, r)'
  <2>1. home'[o.pid] = c /\ row'[c] = fields
    BY <1>3, <1>5
  <2>2. Applies(r, v) => \E t \in index' : SameKey(t, Entry(c, r, v))
    BY <1>6
  <2> QED  BY <2>1, <2>2 DEF Kept, v
<1>9. ASSUME NEW b \in covered, b[1] # o  PROVE Kept(b[1], b[2])'
  <2>1. b[1] \in stored /\ b[2] \in rules /\ Kept(b[1], b[2])
    BY DEF Covers, rules
  <2> DEFINE q == b[1]
             r == b[2]
             h == home[q.pid]
  <2>2. h \in Ids /\ q \in Objects /\ r \in AllRules /\ home'[q.pid] = h
    BY <1>3, <1>4, <1>5, <2>1, Constants
  <2> HIDE DEF q, r, h
  <2>3. CASE h # c
    <3>1. row'[h] = row[h]
      BY <1>3, <1>5, <2>2, <2>3
    <3> QED  BY <1>6, <2>1, <2>2, <3>1, KeptByGrowth DEF q, r, h
  <2>4. CASE h = c
    <3> DEFINE w == Hydrated(q, fields, q.ts)
               x == Hydrated(q, row[c], q.ts)
    <3>1. row'[c] = fields
      BY <1>3, <1>5
    <3>2. Applies(r, w) => \E t \in index' : SameKey(t, Entry(c, r, w))
      <4>1. CASE IsProfileLevel(r)
        <5>1. /\ Applies(r, v) <=> Applies(r, w)
              /\ Value1(r, v) = Value1(r, w) /\ Value2(r, v) = Value2(r, w)
          BY <2>2, <4>1, LevelSees DEF v
        <5>2. Applies(r, v) => \E t \in index' : SameKey(t, Entry(c, r, v))
          BY <1>6, <2>1 DEF r
        <5> QED  BY <5>1, <5>2, SameKeyIs
      <4>2. CASE OnObjects(r)
        <5>1. /\ Applies(r, x) <=> Applies(r, w)
              /\ Value1(r, x) = Value1(r, w) /\ Value2(r, x) = Value2(r, w)
          BY <2>2, <4>2, ObjectSees
        <5>2. Applies(r, x) => \E t \in index : SameKey(t, Entry(c, r, x))
          BY <2>1, <2>4 DEF Kept, q, r, h
        <5> QED  BY <1>6, <5>1, <5>2, SameKeyIs
      <4> QED  BY <2>2, <4>1, <4>2 DEF Followed
    <3> QED  BY <2>2, <2>4, <3>1, <3>2 DEF Kept, q, r
  <2> QED  BY <2>3, <2>4
<1>10. \A b \in covered' : Kept(b[1], b[2])'
  <2> SUFFICES ASSUME NEW b \in covered'  PROVE Kept(b[1], b[2])'
    OBVIOUS
  <2>1. CASE \E r \in rules : b = <<o, r>>
    BY <1>8, <2>1
  <2>2. CASE b \in covered
    <3>1. b[1] = o => b[2] \in rules /\ Kept(o, b[2])'
      BY <1>8, <2>2 DEF Covers, rules
    <3> QED  BY <1>9, <2>2, <3>1
  <2> QED  BY <1>3, <2>1, <2>2
<1> QED  BY <1>7, <1>10 DEF Covers

LEMMA MergeCovers ==
  ASSUME ~Lagging, TypeInv, Covers, \A r \in AllRules : Followed(r),
         NEW rq \in queue, Merge(rq), ReindexSucceeds
  PROVE  Covers'
<1>1. \A version \in Cached : version = active
  BY CachedVersions DEF TypeInv
<1>2. PICK src \in Ids, tgt \in Ids, fields \in [Profile -> Values], version \in Cached :
        MergeIs(src, tgt, fields, version)
  BY MergeOf
<1> DEFINE v == Whole(fields)
           levels == Levels(active)
           moved == MovedRecords(index, src, tgt, levels)
<1>3. /\ src # tgt
      /\ home' = [p \in Pids |-> IF home[p] = src THEN tgt ELSE home[p]]
      /\ row' = [row EXCEPT ![src] = BlankRow, ![tgt] = fields]
      /\ active' = active /\ stored' = stored /\ covered' = covered
      /\ \E p \in Pids : home[p] = src
  BY <1>2 DEF MergeIs
<1>4. /\ home \in [Pids -> Ids \cup {NoId}] /\ row \in [Ids -> [Profile -> Values]]
      /\ \A b \in stored : home[b.pid] \in Ids /\ b.pid \in Pids /\ b \in Objects
      /\ index \subseteq Entries /\ Keyed(index)
  BY Constants DEF TypeInv
<1>5. row'[tgt] = fields /\ \A c \in Ids \ {src, tgt} : row'[c] = row[c]
  BY <1>3, <1>4
<1>6. levels = {} \/ \E r \in levels : Applies(r, v)
  <2>1. PICK p \in Pids : home[p] = src
    BY <1>3
  <2>2. home'[p] = tgt /\ home[p] \notin {NoId, home'[p]}
    BY <1>3, <2>1, Constants
  <2> QED  BY <1>5, <2>2 DEF ReindexSucceeds
<1>7. Rules(active) = {} \/ index' = Indexed(moved, tgt, levels, v)
  BY <1>1, <1>2, <1>6 DEF MergeIs
<1>8. CASE Rules(active) = {}
  BY <1>3, <1>8 DEF Covers
<1>9. CASE index' = Indexed(moved, tgt, levels, v)
  <2>1. /\ levels \in SUBSET AllRules /\ v \in Views
        /\ \A r, s \in Rules(active) : r.index = s.index => r = s
        /\ Rules(active) \subseteq AllRules /\ levels \subseteq Rules(active)
    BY RuleFacts, ViewTypes DEF TypeInv, Levels
  <2>2. /\ moved \subseteq Entries /\ Keyed(moved)
        /\ \A t \in index : t.cid \notin {src, tgt} => t \in moved
        /\ \A t \in index : t.cid \in {src, tgt} /\ (\A r \in levels : t.rule # r.index) =>
             \E u \in moved : u.cid = tgt /\ u.rule = t.rule /\ u.v1 = t.v1 /\ u.v2 = t.v2
    BY <1>3, <1>4, MovedFacts
  <2> HIDE DEF v, levels, moved
  <2>3. /\ moved \subseteq index'
        /\ \A r \in levels : Applies(r, v) => \E t \in index' : SameKey(t, Entry(tgt, r, v))
    BY <1>9, <2>1, <2>2, IndexedFacts
  <2>4. ASSUME NEW b \in covered  PROVE Kept(b[1], b[2])'
    <3>1. b[1] \in stored /\ b[2] \in Rules(active) /\ Kept(b[1], b[2])
      BY DEF Covers
    <3> DEFINE q == b[1]
               r == b[2]
               h == home[q.pid]
    <3>2. h \in Ids /\ q \in Objects /\ r \in AllRules /\ q.pid \in Pids
      BY <1>4, <2>1, <3>1
    <3>3. home'[q.pid] = IF h = src THEN tgt ELSE h
      BY <1>3, <3>2
    <3> DEFINE x == Hydrated(q, row[h], q.ts)
    <3>4. Applies(r, x) => \E t \in index : SameKey(t, Entry(h, r, x))
      BY <3>1 DEF Kept
    <3> HIDE DEF q, r, h, x
    <3>5. CASE h \notin {src, tgt}
      <4>1. home'[q.pid] = h /\ row'[h] = row[h]
        BY <1>5, <3>2, <3>3, <3>5
      <4>2. Applies(r, x) => \E t \in index' : SameKey(t, Entry(h, r, x))
        BY <2>2, <2>3, <3>4, <3>5, SameKeyIs
      <4> QED  BY <4>1, <4>2 DEF Kept, q, r, x
    <3>6. CASE h \in {src, tgt}
      <4>1. home'[q.pid] = tgt
        BY <3>3, <3>6
      <4> DEFINE w == Hydrated(q, fields, q.ts)
      <4>2. Applies(r, w) => \E t \in index' : SameKey(t, Entry(tgt, r, w))
        <5>1. CASE IsProfileLevel(r)
          <6>1. r \in levels
            BY <3>1, <5>1 DEF Levels, levels, r
          <6>2. /\ Applies(r, w) <=> Applies(r, v)
                /\ Value1(r, w) = Value1(r, v) /\ Value2(r, w) = Value2(r, v)
            BY <3>2, <5>1, LevelSees DEF v
          <6>3. Applies(r, v) => \E t \in index' : SameKey(t, Entry(tgt, r, v))
            BY <2>3, <6>1
          <6> QED  BY <6>2, <6>3, SameKeyIs
        <5>2. CASE OnObjects(r) /\ ~IsProfileLevel(r)
          <6>1. /\ Applies(r, x) <=> Applies(r, w)
                /\ Value1(r, x) = Value1(r, w) /\ Value2(r, x) = Value2(r, w)
            BY <3>2, <5>2, ObjectSees DEF x
          <6>2. \A l \in levels : l.index # r.index
            BY <2>1, <3>1, <5>2 DEF levels, Levels, r
          <6> SUFFICES ASSUME Applies(r, w)  PROVE \E t \in index' : SameKey(t, Entry(tgt, r, w))
            OBVIOUS
          <6>3. PICK t \in index : t.cid = h /\ t.rule = r.index /\ t.v1 = Value1(r, x) /\ t.v2 = Value2(r, x)
            BY <3>4, <6>1, SameKeyIs
          <6>4. PICK u \in moved : u.cid = tgt /\ u.rule = t.rule /\ u.v1 = t.v1 /\ u.v2 = t.v2
            BY <2>2, <3>6, <6>2, <6>3
          <6>5. u \in index' /\ SameKey(u, Entry(tgt, r, w))
            BY <2>3, <6>1, <6>3, <6>4, SameKeyIs
          <6> QED  BY <6>5
        <5> QED  BY <3>2, <5>1, <5>2 DEF Followed
      <4> QED  BY <1>5, <4>1, <4>2 DEF Kept, q, r
    <3> QED  BY <3>5, <3>6
  <2> QED  BY <1>3, <2>4 DEF Covers
<1> QED  BY <1>7, <1>8, <1>9

LEMMA ResolutionCovers ==
  ASSUME ~Lagging, TypeInv, Covers,
         NEW o \in stored, NEW version \in Cached, NEW r \in Rules(version), Resolution(o, r)
  PROVE  Covers'
<1> DEFINE c == home[o.pid]
           v == Hydrated(o, row[c], Now)
           w == Hydrated(o, row[c], o.ts)
<1>1. /\ r \in Rules(active) /\ {r} \in SUBSET AllRules /\ c \in Ids /\ v \in Views
      /\ \A x, y \in {r} : x.index = y.index => x = y
      /\ index \subseteq Entries /\ Keyed(index)
  BY CachedVersions, RuleFacts, ViewTypes, Constants DEF TypeInv
<1>2. UNCHANGED <<home, row, stored, active>>
  BY DEF Resolution
<1>3. CASE UNCHANGED <<index, covered>>
  BY <1>2, <1>3 DEF Covers, Kept
<1>4. CASE index' = Indexed(index, c, {r}, v) /\ covered' = covered \cup {<<o, r>>}
  <2>1. /\ Applies(r, w) <=> Applies(r, v)
        /\ Value1(r, w) = Value1(r, v) /\ Value2(r, w) = Value2(r, v)
    <3>1. w.type = v.type /\ \A f \in FieldsOf(r) : Value(w, f) = Value(v, f)
      BY DEF Value, Hydrated
    <3> HIDE DEF v, w
    <3> QED  BY <1>1, <3>1, SameView
  <2> HIDE DEF c, v
  <2>2. /\ index \subseteq index'
        /\ \A x \in {r} : Applies(x, v) => \E t \in index' : SameKey(t, Entry(c, x, v))
    BY <1>1, <1>4, IndexedFacts
  <2>3. Applies(r, w) => \E t \in index' : SameKey(t, Entry(c, r, w))
    BY <2>1, <2>2, SameKeyIs
  <2>4. Kept(o, r)'
    BY <1>2, <2>3 DEF Kept, c
  <2>5. \A b \in covered : Kept(b[1], b[2])'
    BY <1>2, <2>2, KeptByGrowth DEF Covers
  <2>6. covered' \subseteq stored' \X Rules(active')
    BY <1>1, <1>2, <1>4 DEF Covers
  <2>7. \A b \in covered' : Kept(b[1], b[2])'
    BY <1>4, <2>4, <2>5
  <2> QED  BY <2>6, <2>7 DEF Covers
<1> QED  BY <1>3, <1>4 DEF Resolution

LEMMA CoversStep ==
  ASSUME ~Lagging, \A r \in AllRules : Followed(r),
         TypeInv, Covers, [Next]_vars, [ReindexSucceeds]_vars
  PROVE  Covers'
<1>1. CASE UNCHANGED vars
  BY <1>1 DEF vars, Covers, Kept
<1>2. CASE Next /\ ReindexSucceeds
  <2>1. CASE \E o \in Objects : Put(o)
    BY <2>1, PutCovers
  <2>2. CASE \E rq \in queue : Merge(rq)
    BY <1>2, <2>2, MergeCovers
  <2>3. ASSUME NEW rq \in queue, Drop(rq)  PROVE Covers'
    BY <2>3 DEF Drop, Covers, Kept
  <2>4. CASE \E o \in stored, version \in Cached : \E r \in Rules(version) : Resolution(o, r)
    BY <2>4, ResolutionCovers
  <2>5. CASE Activate
    BY <2>5 DEF Activate, Covers
  <2> QED  BY <1>2, <2>1, <2>2, <2>3, <2>4, <2>5 DEF Next
<1> QED  BY <1>1, <1>2

\* What belongs together has the values that the conditions need.
LEMMA AgreeApplies ==
  ASSUME NEW r \in AllRules, NEW a, NEW b, ~Skipped(r, a), ~Skipped(r, b),
         Agree(r, a, b) \/ Agree(r, b, a)
  PROVE  Applies(r, a) /\ Applies(r, b)
<1>1. \A c \in Range(r.matches) :
        \/ Value(a, Incoming(c)) # Blank /\ Value(b, Existing(c)) # Blank
        \/ Value(b, Incoming(c)) # Blank /\ Value(a, Existing(c)) # Blank
  BY ValuesAssumption DEF Agree
<1> QED  BY <1>1 DEF Applies, Skipped

\* Where the conditions hold, the search looks at the side that the other one was indexed on.
LEMMA MeantIsHit ==
  ASSUME NEW r \in AllRules, Symmetric(r), NEW a, NEW b,
         Agree(r, a, b) \/ Agree(r, b, a), NEW id, NEW t, SameKey(t, Entry(id, r, b))
  PROVE  SearchHits(r, a, t)
<1> DEFINE I == Ins(r)
           E == Exs(r)
<1>1. /\ I \in Seq(Fields) /\ E \in Seq(Fields) /\ I # <<>> /\ E # <<>>
      /\ DOMAIN I = DOMAIN E /\ Len(I) = Len(E) /\ 1 \in DOMAIN I
  <2>1. I \in Seq(Fields) /\ E \in Seq(Fields) /\ I # <<>> /\ E # <<>> /\ DOMAIN I = DOMAIN E /\ Len(I) = Len(E)
    BY RuleType
  <2>2. Len(I) \in Nat \ {0} /\ DOMAIN I = 1 .. Len(I)
    BY <2>1, EmptySeq, LenProperties
  <2> QED  BY <2>1, <2>2
<1>2. \A i \in DOMAIN I : \E c \in Range(r.matches) : I[i] = Incoming(c) /\ E[i] = Existing(c)
  BY ConditionsOf
<1>3. \/ \A i \in DOMAIN I : Norm[Value(a, I[i])] # Blank /\ Norm[Value(a, I[i])] = Norm[Value(b, E[i])]
      \/ \A i \in DOMAIN I : Norm[Value(b, I[i])] # Blank /\ Norm[Value(b, I[i])] = Norm[Value(a, E[i])]
  BY <1>2 DEF Agree
<1>4. /\ t.v1 = Joined(I, b) /\ t.v2 = Joined(E, b)
      /\ SearchHits(r, a, t) <=> IF Joined(E, a) # <<>> THEN t.v1 = Joined(E, a) ELSE t.v2 = Joined(I, a)
  BY SidesOf DEF SameKey, Entry, SearchHits
<1>5. \A x, f : Norm[Value(x, f)] # Blank => Value(x, f) # Blank
  BY ValuesAssumption
<1>6. CASE Mirrored(r)
  <2>1. \A i \in DOMAIN I : I[i] = E[i]
    BY <1>2, <1>6 DEF Mirrored
  <2>2. I = E
    BY <1>1, <2>1, SeqEqual
  <2>3. \A i \in DOMAIN I : /\ Norm[Value(a, I[i])] # Blank /\ Norm[Value(b, I[i])] # Blank
                            /\ Norm[Value(a, I[i])] = Norm[Value(b, I[i])]
    BY <1>3, <2>1
  <2>4. Full(I, a) /\ Full(I, b) /\ Alike(I, I)
    BY <1>5, <2>3 DEF Full, Alike
  <2>5. Joined(I, a) = Joined(I, b)
    BY <1>1, <2>3, <2>4, FullSides
  <2> QED  BY <1>4, <2>2, <2>5
<1>7. CASE Across(r) /\ Alike(I, E)
  <2>1. PICK one \in STRING, other \in STRING :
          /\ one # other /\ ProfileType \notin {one, other}
          /\ \A c \in Range(r.matches) : TypeOf[Incoming(c)] = one /\ TypeOf[Existing(c)] = other
    BY <1>7 DEF Across
  <2>2. \A i \in DOMAIN I : TypeOf[I[i]] = one /\ TypeOf[E[i]] = other
    BY <1>2, <2>1
  <2>3. Alike(E, I)
    BY <1>1, <1>7 DEF Alike
  <2>4. CASE \A i \in DOMAIN I : Norm[Value(a, I[i])] # Blank /\ Norm[Value(a, I[i])] = Norm[Value(b, E[i])]
    <3>1. Full(I, a) /\ Full(E, b)
      BY <1>1, <1>5, <2>4 DEF Full
    <3>2. a.type = one
      <4>1. Value(a, I[1]) # Blank /\ TypeOf[I[1]] = one
        BY <1>1, <2>2, <3>1 DEF Full
      <4> QED  BY <2>1, <4>1 DEF Value
    <3>3. Empty(E, a)
      BY <1>1, <2>1, <2>2, <3>2 DEF Empty, Value
    <3>4. Joined(E, a) = <<>>
      BY <1>1, <3>3, EmptySide
    <3>5. Joined(I, a) = Joined(E, b)
      BY <1>1, <1>7, <2>4, <3>1, FullSides
    <3> QED  BY <1>4, <3>4, <3>5
  <2>5. CASE \A i \in DOMAIN I : Norm[Value(b, I[i])] # Blank /\ Norm[Value(b, I[i])] = Norm[Value(a, E[i])]
    <3>1. Full(I, b) /\ Full(E, a)
      BY <1>1, <1>5, <2>5 DEF Full
    <3>2. \A i \in DOMAIN E : /\ Norm[Value(a, E[i])] # Blank /\ Norm[Value(b, I[i])] # Blank
                              /\ Norm[Value(a, E[i])] = Norm[Value(b, I[i])]
      BY <1>1, <2>5
    <3>3. Joined(E, a) # <<>> /\ Joined(E, a) = Joined(I, b)
      BY <1>1, <2>3, <3>1, <3>2, FullSides
    <3> QED  BY <1>4, <3>3
  <2> QED  BY <1>3, <2>4, <2>5
<1> QED  BY <1>6, <1>7 DEF Symmetric

LEMMA CoveredFound ==
  ASSUME TypeInv, Covers, \A r \in AllRules : Symmetric(r)
  PROVE  FoundInEitherOrder
<1> SUFFICES ASSUME NEW o \in Objects \ stored, NEW b \in covered,
                    b[2] \in Rules(active), b[2].window = NoWindow,
                    Meant(b[2], Own(o), Hydrated(b[1], row[home[b[1].pid]], b[1].ts))
             PROVE  home[b[1].pid] \in Found(b[2], Own(o), NoId)
  BY DEF FoundInEitherOrder
<1> DEFINE r == b[2]
           c == home[b[1].pid]
           a == Own(o)
           v == Hydrated(b[1], row[c], b[1].ts)
<1>1. r \in AllRules /\ b[1] \in stored /\ c \in Ids
  BY DEF TypeInv
<1>2. Kept(b[1], r)
  BY DEF Covers
<1>3. /\ ~Skipped(r, a) /\ ~Skipped(r, v)
      /\ Agree(r, a, v) \/ Agree(r, v, a)
  BY DEF Meant
<1>4. Applies(r, v) => \E t \in index : SameKey(t, Entry(c, r, v))
  BY <1>2 DEF Kept
<1>5. r.window = NoWindow
  OBVIOUS
<1> HIDE DEF r, c, a, v
<1>6. Applies(r, a) /\ Applies(r, v)
  BY <1>1, <1>3, AgreeApplies
<1>7. PICK t \in index : SameKey(t, Entry(c, r, v))
  BY <1>4, <1>6
<1>8. t.cid = c /\ t.rule = r.index /\ t.cid # NoId
  BY <1>1, <1>7, SameKeyIs, Constants
<1>9. SearchHits(r, a, t)
  BY <1>1, <1>3, <1>7, MeantIsHit
<1>10. WithinWindow(r, a.ts, t.ts)
  BY <1>5 DEF WithinWindow
<1>11. c \in Found(r, a, NoId)
  BY <1>6, <1>8, <1>9, <1>10 DEF Found
<1> QED  BY <1>11 DEF r, c, a

(***************************************************************************)
(* The first object of a new traveller is offered the profile of every     *)
(* indexed object that belongs to it, in whichever order the two came and  *)
(* whatever puts and merges have made of the row since.  It takes rules    *)
(* that compare equal fields or two object types, that read the row in     *)
(* every condition or in none, and that no merge fails to index again.     *)
(***************************************************************************)
THEOREM MeantFound ==
  ASSUME ~Lagging, \A r \in AllRules : Symmetric(r) /\ Followed(r)
  PROVE  Spec /\ [][ReindexSucceeds]_vars => []FoundInEitherOrder
<1> DEFINE IInv == TypeInv /\ Covers
<1>1. Init => IInv
  BY InitTypes DEF Init, Covers
<1>2. IInv /\ [Next]_vars /\ [ReindexSucceeds]_vars => IInv'
  BY TypeStep, CoversStep
<1>3. IInv => FoundInEitherOrder
  BY CoveredFound
<1> HIDE DEF IInv
<1> QED  BY <1>1, <1>2, <1>3, PTL DEF Spec
-----------------------------------------------------------------------------
(* The index and the master *)

LEMMA OffersStep ==
  ASSUME ~Lagging, TypeInv, IndexShown, IndexOffersProfiles, [Next]_vars, [ReindexSucceeds]_vars
  PROVE  IndexOffersProfiles'
<1>1. \A version \in Cached : version = active
  BY CachedVersions DEF TypeInv
<1>2. /\ index \subseteq Entries /\ Keyed(index) /\ home \in [Pids -> Ids \cup {NoId}]
      /\ Rules(active) \in SUBSET AllRules
      /\ \A r, s \in Rules(active) : r.index = s.index => r = s
  BY RuleFacts DEF TypeInv
<1>3. ASSUME NEW o \in Objects, Put(o)  PROVE IndexOffersProfiles'
  <2>1. PICK version \in Cached, c \in Ids, fields \in [Profile -> Values] :
          PutIs(o, version, c, fields)
    BY <1>3, PutOf
  <2> DEFINE v == Hydrated(o, fields, o.ts)
  <2>2. v \in Views /\ o.pid \in Pids
    BY Constants, ViewTypes
  <2>3. /\ index' = Indexed(index, c, Rules(active), v)
        /\ home' = [home EXCEPT ![o.pid] = c] /\ home[o.pid] \in {c, NoId}
    BY <1>1, <2>1 DEF PutIs
  <2> HIDE DEF v
  <2>4. \A t \in index' : t \in index \/ \E r \in Rules(active) : Applies(r, v) /\ t = Entry(c, r, v)
    BY <1>2, <2>2, <2>3, IndexedFacts
  <2>5. home'[o.pid] = c /\ \A p \in Pids : home[p] # NoId => home'[p] = home[p]
    BY <1>2, <2>2, <2>3
  <2> SUFFICES ASSUME NEW t \in index'  PROVE \E p \in Pids : home'[p] = t.cid
    BY DEF IndexOffersProfiles
  <2>6. CASE t \in index
    <3>1. PICK p \in Pids : home[p] = t.cid
      BY <2>6 DEF IndexOffersProfiles
    <3>2. t.cid # NoId
      BY <1>2, <2>6, Constants DEF Entries
    <3> QED  BY <2>5, <3>1, <3>2
  <2>7. CASE \E r \in Rules(active) : t = Entry(c, r, v)
    <3>1. t.cid = c
      BY <2>7 DEF Entry
    <3> QED  BY <2>2, <2>5, <3>1
  <2> QED  BY <2>4, <2>6, <2>7
<1>4. ASSUME NEW rq \in queue, Merge(rq), ReindexSucceeds  PROVE IndexOffersProfiles'
  <2>1. PICK src \in Ids, tgt \in Ids, fields \in [Profile -> Values], version \in Cached :
          MergeIs(src, tgt, fields, version)
    BY <1>4, MergeOf
  <2> DEFINE v == Whole(fields)
             levels == Levels(active)
             moved == MovedRecords(index, src, tgt, levels)
  <2>2. /\ src # tgt /\ home' = [p \in Pids |-> IF home[p] = src THEN tgt ELSE home[p]]
        /\ row' = [row EXCEPT ![src] = BlankRow, ![tgt] = fields]
        /\ \E p \in Pids : home[p] = src
        /\ \E p \in Pids : home[p] = tgt
    BY <2>1 DEF MergeIs
  <2>3. levels = {} \/ \E r \in levels : Applies(r, v)
    <3>1. PICK p \in Pids : home[p] = src
      BY <2>2
    <3>2. home'[p] = tgt /\ home[p] \notin {NoId, home'[p]} /\ row'[tgt] = fields
      BY <2>2, <3>1, Constants DEF TypeInv
    <3> QED  BY <1>4, <3>2 DEF ReindexSucceeds
  <2>4. (Rules(active) = {} /\ index' = index) \/ index' = Indexed(moved, tgt, levels, v)
    BY <1>1, <2>1, <2>3 DEF MergeIs
  <2>5. CASE Rules(active) = {} /\ index' = index
    BY <2>5 DEF IndexShown, IndexOffersProfiles
  <2>6. CASE index' = Indexed(moved, tgt, levels, v)
    <3>1. /\ levels \in SUBSET AllRules /\ v \in Views
          /\ \A r, s \in levels : r.index = s.index => r = s
      BY <1>2, ViewTypes DEF Levels
    <3>2. /\ moved \subseteq Entries /\ Keyed(moved)
          /\ \A t \in moved : /\ t.cid # src
                              /\ t \in index \/ \E u \in index : u.cid = src /\ t = [u EXCEPT !.cid = tgt]
      BY <1>2, <2>2, MovedFacts
    <3> HIDE DEF v, levels, moved
    <3>3. \A t \in index' : t \in moved \/ \E r \in levels : Applies(r, v) /\ t = Entry(tgt, r, v)
      BY <2>6, <3>1, <3>2, IndexedFacts
    <3>4. \E p \in Pids : home'[p] = tgt
      BY <2>2
    <3> SUFFICES ASSUME NEW t \in index'  PROVE \E p \in Pids : home'[p] = t.cid
      BY DEF IndexOffersProfiles
    <3>5. CASE t \in index /\ t.cid # src
      <4>1. PICK p \in Pids : home[p] = t.cid
        BY <3>5 DEF IndexOffersProfiles
      <4> QED  BY <2>2, <3>5, <4>1
    <3>6. CASE \E u \in index : t = [u EXCEPT !.cid = tgt]
      <4>1. t.cid = tgt
        BY <1>2, <3>6 DEF Entries
      <4> QED  BY <3>4, <4>1
    <3>7. CASE \E r \in levels : t = Entry(tgt, r, v)
      <4>1. t.cid = tgt
        BY <3>7 DEF Entry
      <4> QED  BY <3>4, <4>1
    <3> QED  BY <3>2, <3>3, <3>5, <3>6, <3>7
  <2> QED  BY <2>4, <2>5, <2>6
<1>5. ASSUME NEW rq \in queue, Drop(rq)  PROVE IndexOffersProfiles'
  BY <1>5 DEF Drop, IndexOffersProfiles
<1>6. ASSUME NEW o \in stored, NEW version \in Cached, NEW r \in Rules(version), Resolution(o, r)
      PROVE  IndexOffersProfiles'
  <2> DEFINE c == home[o.pid]
             v == Hydrated(o, row[c], Now)
  <2>1. /\ {r} \in SUBSET AllRules /\ c \in Ids /\ v \in Views /\ o.pid \in Pids
        /\ \A x, y \in {r} : x.index = y.index => x = y
    BY <1>1, <1>2, ViewTypes, Constants DEF TypeInv
  <2>2. home' = home /\ (index' = index \/ index' = Indexed(index, c, {r}, v))
    BY <1>6 DEF Resolution
  <2> HIDE DEF v
  <2>3. CASE index' = index
    BY <2>2, <2>3 DEF IndexOffersProfiles
  <2>4. CASE index' = Indexed(index, c, {r}, v)
    <3> HIDE DEF c
    <3>1. \A t \in index' : t \in index \/ \E x \in {r} : Applies(x, v) /\ t = Entry(c, x, v)
      BY <1>2, <2>1, <2>4, IndexedFacts
    <3>2. \A t \in index' : t \in index \/ t.cid = c
      BY <3>1 DEF Entry
    <3> QED  BY <2>1, <2>2, <3>2 DEF IndexOffersProfiles, c
  <2> QED  BY <2>2, <2>3, <2>4
<1>7. CASE Activate
  <2>1. Rules(active) = {} => index = {}
    BY DEF IndexShown
  <2>2. index' = {}
    BY <1>7, <2>1 DEF Activate, Emptied
  <2> QED  BY <2>2 DEF IndexOffersProfiles
<1>8. CASE UNCHANGED vars
  BY <1>8 DEF vars, IndexOffersProfiles
<1>9. CASE Next /\ ReindexSucceeds
  BY <1>3, <1>4, <1>5, <1>6, <1>7, <1>9 DEF Next
<1> QED  BY <1>8, <1>9

(***************************************************************************)
(* The failed INSERT of a merge is the only way for a retired id to be in  *)
(* the index: where every merge can index again, each record is of an id   *)
(* that is a profile, so no new traveller is put under a retired one.      *)
(***************************************************************************)
THEOREM OffersProfiles ==
  ASSUME ~Lagging
  PROVE  Spec /\ [][ReindexSucceeds]_vars => []IndexOffersProfiles
<1> DEFINE IInv == TypeInv /\ IndexShown /\ IndexOffersProfiles
<1>1. Init => IInv
  BY InitTypes DEF Init, IndexShown, IndexOffersProfiles
<1>2. IInv /\ [Next]_vars /\ [ReindexSucceeds]_vars => IInv'
  BY TypeStep, ShownStep, OffersStep
<1>3. IInv => IndexOffersProfiles
  OBVIOUS
<1> HIDE DEF IInv
<1> QED  BY <1>1, <1>2, <1>3, PTL DEF Spec
=============================================================================
