------------------------ MODULE ProfileLineageProofs ------------------------
(***************************************************************************)
(* Proofs about ProfileLineage, for any profiles, objects and bounds: an   *)
(* unmerge takes out of a profile what is part of the unmerged id and      *)
(* nothing else, as long as only ids with a plain history are unmerged and *)
(* the query for the history reads all of it; so the tables agree, and     *)
(* the master table is a forest of merges.  Most of the work is in what    *)
(* the sums over the rows of the query come to.  The last part is about    *)
(* FieldPrecedence, the one field of a search row.                         *)
(***************************************************************************)
EXTENDS ProfileLineage, FieldPrecedence, FiniteSetTheorems, SequenceTheorems,
        WellFoundedInduction, TLAPS

----------------------------------------------------------------------------
(* Types *)

(***************************************************************************)
(* A master row has both its ids; the id it was created with was handed    *)
(* out and belongs to no other row.                                        *)
(***************************************************************************)
RowsOK ==
    /\ \A p \in ProfileIds : connect[p] = NoId <=> original[p] = NoId
    /\ \A p \in Rows : original[p] < nextId
    /\ \A p, q \in Rows : original[p] = original[q] => p = q

BaseInv == TypeOK /\ RowsOK

\* Ids of profiles and rows are ids, and NoId is none.
LEMMA IdFacts ==
    ASSUME BaseInv
    PROVE  /\ Ids \subseteq Nat /\ NoId \notin Ids /\ nextId \in Nat
           /\ Current \subseteq Ids /\ Rows \subseteq ProfileIds
           /\ \A p \in Rows : connect[p] \in Ids /\ original[p] \in Ids
           /\ \A o \in Facts : o[1] \in ProfileIds
<1>1. Ids \subseteq Nat /\ NoId \notin Ids /\ nextId \in Nat
  BY DEF BaseInv, TypeOK, Ids, NoId
<1>2. Rows \subseteq ProfileIds /\ \A p \in Rows : connect[p] \in Ids /\ original[p] \in Ids
  BY DEF BaseInv, TypeOK, RowsOK, Rows
<1>3. Current \subseteq Ids
  BY <1>2 DEF Current
<1> QED  BY <1>1, <1>2, <1>3, LineageBounds

\* Spending a bound keeps its type.
LEMMA SpendType ==
    ASSUME TypeOK, NEW op \in Operations, Spend(op)
    PROVE  used' \in [Operations -> Nat]
  BY DEF TypeOK, Spend

\* An operation is recorded with ids only.
LEMMA LogType ==
    ASSUME TypeOK, NEW kind \in Kinds, NEW into \in Ids \cup {NoId}, NEW from \in Ids,
           log' = Append(log, Entry(kind, into, from))
    PROVE  log' \in Seq([kind : Kinds, into : Ids \cup {NoId}, from : Ids])
<1>1. Entry(kind, into, from) \in [kind : Kinds, into : Ids \cup {NoId}, from : Ids]
  BY DEF Entry
<1>2. log \in Seq([kind : Kinds, into : Ids \cup {NoId}, from : Ids])
  BY DEF TypeOK
<1> QED  BY <1>1, <1>2, AppendProperties

\* Rows that keep the id they were created with stay rows of their own.
LEMMA RowsStay ==
    ASSUME BaseInv, Rows' = Rows, \A p \in ProfileIds : original'[p] = original[p],
           nextId' = nextId
    PROVE  RowsOK'
  BY DEF BaseInv, RowsOK, Rows

\* What a put does to the tables of its profile.
LEMMA StowTypes ==
    ASSUME BaseInv, NEW o \in Facts, NEW c \in Ids, Stow(o, c)
    PROVE  /\ searched' \in SUBSET Ids /\ fields' \in [Ids -> SUBSET Facts]
           /\ inter' \in [Facts -> Ids \cup {NoId}] /\ objectCount' \in Int
  BY DEF BaseInv, TypeOK, Stow

\* The master row of a new profile_id, under the profile c.
LEMMA PutNewFacts ==
    ASSUME BaseInv, NEW o \in Facts, NEW c \in Ids, PutNew(o, c)
    PROVE  /\ connect' \in [ProfileIds -> Ids \cup {NoId}]
           /\ original' \in [ProfileIds -> Ids \cup {NoId}]
           /\ nextId' = nextId + 1 /\ nextId \in Ids /\ nextId' \in 1 .. MaxIds + 1
           /\ profileCount' \in Int
           /\ o[1] \notin Rows /\ Rows' = Rows \cup {o[1]}
           /\ connect'[o[1]] = c /\ original'[o[1]] = nextId
           /\ \A p \in ProfileIds \ {o[1]} : connect'[p] = connect[p] /\ original'[p] = original[p]
           /\ RowsOK'
<1>1. /\ o[1] \in ProfileIds /\ nextId \in Nat /\ NoId \notin Ids /\ Ids \subseteq Nat
      /\ Rows \subseteq ProfileIds
  BY IdFacts
<1>2. nextId' = nextId + 1 /\ nextId \in Ids /\ nextId' \in 1 .. MaxIds + 1
  <2>1. nextId' = nextId + 1 /\ nextId <= MaxIds /\ nextId \in 1 .. MaxIds + 1
    BY DEF PutNew, BaseInv, TypeOK
  <2>2. MaxIds \in Nat
    BY LineageBounds
  <2> QED  BY <2>1, <2>2 DEF Ids
<1>3. /\ connect' \in [ProfileIds -> Ids \cup {NoId}]
      /\ original' \in [ProfileIds -> Ids \cup {NoId}]
      /\ connect'[o[1]] = c /\ original'[o[1]] = nextId
      /\ \A p \in ProfileIds \ {o[1]} : connect'[p] = connect[p] /\ original'[p] = original[p]
  BY <1>1, <1>2 DEF PutNew, BaseInv, TypeOK
<1>4. o[1] \notin Rows /\ Rows' = Rows \cup {o[1]}
  BY <1>1, <1>3 DEF PutNew, Rows
<1>5. RowsOK'
  <2>1. \A p \in ProfileIds : connect'[p] = NoId <=> original'[p] = NoId
    BY <1>1, <1>2, <1>3 DEF BaseInv, RowsOK
  <2>2. \A p \in Rows : original'[p] = original[p] /\ original[p] \in Nat /\ original[p] < nextId
    BY <1>1, <1>3, <1>4, IdFacts DEF BaseInv, RowsOK
  <2>3. \A p \in Rows' : original'[p] < nextId'
    BY <1>1, <1>2, <1>3, <1>4, <2>2
  <2>4. \A p, q \in Rows' : original'[p] = original'[q] => p = q
    BY <1>1, <1>3, <1>4, <2>2 DEF BaseInv, RowsOK
  <2> QED  BY <2>1, <2>3, <2>4 DEF RowsOK
<1>6. profileCount' \in Int
  BY DEF PutNew, BaseInv, TypeOK
<1> QED  BY <1>2, <1>3, <1>4, <1>5, <1>6

\* Every operation keeps the types, whatever the lineage is.
LEMMA BaseStep == BaseInv /\ [Next]_vars => BaseInv'
<1> SUFFICES ASSUME BaseInv, [Next]_vars PROVE BaseInv'
  OBVIOUS
<1>1. /\ Ids \subseteq Nat /\ NoId \notin Ids /\ nextId \in Nat
      /\ Current \subseteq Ids /\ Rows \subseteq ProfileIds
      /\ \A p \in Rows : connect[p] \in Ids /\ original[p] \in Ids
      /\ \A o \in Facts : o[1] \in ProfileIds
  BY IdFacts
<1>2. TypeOK
  BY DEF BaseInv
<1>3. ASSUME NEW o \in Facts, PutKnown(o)
      PROVE  BaseInv'
  <2>1. connect[o[1]] \in Ids
    BY <1>1, <1>3 DEF PutKnown, Rows
  <2>2. RowsOK'
    BY <1>3, RowsStay DEF PutKnown, Rows
  <2>3. Stow(o, connect[o[1]])
        /\ UNCHANGED <<connect, original, log, profileCount, nextId, used>>
    BY <1>3 DEF PutKnown
  <2>4. /\ searched' \in SUBSET Ids /\ fields' \in [Ids -> SUBSET Facts]
        /\ inter' \in [Facts -> Ids \cup {NoId}] /\ objectCount' \in Int
    BY <2>1, <2>3, StowTypes
  <2> QED  BY <1>2, <2>2, <2>3, <2>4 DEF BaseInv, TypeOK
<1>4. ASSUME NEW o \in Facts, Put(o)
      PROVE  BaseInv'
  <2>1. nextId \in Ids
    BY <1>1, <1>4 DEF Put, PutNew, Ids, TypeOK, BaseInv
  <2> QED  BY <1>2, <1>4, <2>1, PutNewFacts, StowTypes DEF Put, PutNew, BaseInv, TypeOK
<1>5. ASSUME NEW o \in Facts, NEW m \in Current, PutMatched(o, m)
      PROVE  BaseInv'
  <2>1. m \in Ids
    BY <1>1
  <2>2. used' \in [Operations -> Nat]
    BY <1>2, <1>5, SpendType DEF PutMatched, Operations
  <2>3. nextId \in Ids
    BY <1>5, <2>1, PutNewFacts DEF PutMatched
  <2>4. log' \in Seq([kind : Kinds, into : Ids \cup {NoId}, from : Ids])
    BY <1>2, <1>5, <2>1, <2>3, LogType DEF PutMatched, MatchEntry, Kinds
  <2> QED  BY <1>2, <1>5, <2>1, <2>2, <2>4, PutNewFacts, StowTypes
           DEF PutMatched, PutNew, BaseInv, TypeOK
<1>6. ASSUME NEW s \in Current, NEW t \in Current, Merge(s, t)
      PROVE  BaseInv'
  <2>1. s \in Ids /\ t \in Ids
    BY <1>1
  <2>2. used' \in [Operations -> Nat]
    BY <1>2, <1>6, SpendType DEF Merge, Operations, Kinds
  <2>3. log' \in Seq([kind : Kinds, into : Ids \cup {NoId}, from : Ids])
    BY <1>2, <1>6, <2>1, LogType DEF Merge, Kinds
  <2>4. /\ connect' \in [ProfileIds -> Ids \cup {NoId}]
        /\ inter' \in [Facts -> Ids \cup {NoId}]
        /\ searched' \in SUBSET Ids /\ fields' \in [Ids -> SUBSET Facts]
        /\ profileCount' \in Int
    <3>1. fields' \in [Ids -> SUBSET Facts]
      BY <1>2, <1>6, <2>1 DEF Merge, TypeOK
    <3>2. connect' \in [ProfileIds -> Ids \cup {NoId}] /\ inter' \in [Facts -> Ids \cup {NoId}]
      BY <1>2, <1>6, <2>1 DEF Merge, TypeOK
    <3>3. searched' = searched \ {s} /\ profileCount' = profileCount - 1
      BY <1>6 DEF Merge
    <3> QED  BY <1>2, <3>1, <3>2, <3>3 DEF TypeOK
  <2>5. Rows' = Rows
    BY <1>1, <1>6, <2>1 DEF Merge, Rows
  <2>6. RowsOK'
    BY <1>6, <2>5, RowsStay DEF Merge
  <2> QED  BY <1>2, <1>6, <2>2, <2>3, <2>4, <2>6 DEF Merge, BaseInv, TypeOK
<1>7. ASSUME NEW r \in Rows, Unmerge(original[r], connect[r])
      PROVE  BaseInv'
  <2> DEFINE u == original[r]
             m == connect[r]
  <2>1. u \in Ids /\ m \in Ids
    BY <1>1
  <2>2. used' \in [Operations -> Nat]
    BY <1>2, <1>7, SpendType DEF Unmerge, Operations, Kinds
  <2>3. log' \in Seq([kind : Kinds, into : Ids \cup {NoId}, from : Ids])
    BY <1>2, <1>7, <2>1, LogType DEF Unmerge, Kinds
  <2>4. /\ connect' \in [ProfileIds -> Ids \cup {NoId}]
        /\ inter' \in [Facts -> Ids \cup {NoId}]
        /\ searched' \in SUBSET Ids
        /\ profileCount' \in Int
    BY <1>2, <1>7, <2>1 DEF Unmerge, TypeOK, Rebuilt, CountedBack
  <2>5. fields' \in [Ids -> SUBSET Facts]
    <3>1. Stored \subseteq Facts
      BY DEF Stored
    <3> QED  BY <1>2, <1>7, <3>1 DEF Unmerge, TypeOK
  <2>6. Rows' = Rows
    <3>1. LineageOf(u) \subseteq Rows
      BY DEF LineageOf
    <3> QED  BY <1>1, <1>7, <2>1, <3>1 DEF Unmerge, Rows
  <2>7. RowsOK'
    BY <1>7, <2>6, RowsStay DEF Unmerge
  <2> QED  BY <1>2, <1>7, <2>2, <2>3, <2>4, <2>5, <2>7 DEF Unmerge, BaseInv, TypeOK
<1>8. ASSUME NEW c \in Current, Delete(c)
      PROVE  BaseInv'
  <2>1. c \in Ids
    BY <1>1
  <2>2. used' \in [Operations -> Nat]
    BY <1>2, <1>8, SpendType DEF Delete, Operations, Kinds
  <2>3. log' \in Seq([kind : Kinds, into : Ids \cup {NoId}, from : Ids])
    BY <1>2, <1>8, <2>1, LogType DEF Delete, Kinds
  <2>4. /\ connect' \in [ProfileIds -> Ids \cup {NoId}]
        /\ original' \in [ProfileIds -> Ids \cup {NoId}]
        /\ inter' \in [Facts -> Ids \cup {NoId}]
        /\ searched' \in SUBSET Ids /\ fields' \in [Ids -> SUBSET Facts]
        /\ {profileCount', objectCount'} \subseteq Int
    BY <1>2, <1>8, <2>1 DEF Delete, TypeOK
  <2>5. RowsOK'
    <3>1. Rows' = Rows \ DeletedRows(c) /\ DeletedRows(c) \subseteq Rows
      BY <1>1, <1>2, <1>8 DEF Delete, Rows, DeletedRows
    <3>2. \A p \in Rows' : original'[p] = original[p]
      BY <1>1, <1>8, <3>1 DEF Delete
    <3>3. \A p \in ProfileIds : connect'[p] = NoId <=> original'[p] = NoId
      BY <1>8 DEF Delete, BaseInv, RowsOK
    <3> QED  BY <1>8, <3>1, <3>2, <3>3 DEF Delete, BaseInv, RowsOK
  <2> QED  BY <1>2, <1>8, <2>2, <2>3, <2>4, <2>5 DEF Delete, BaseInv, TypeOK
<1>9. CASE UNCHANGED vars
  BY <1>9 DEF vars, BaseInv, TypeOK, RowsOK, Rows
<1> QED  BY <1>3, <1>4, <1>5, <1>6, <1>7, <1>8, <1>9 DEF Next

\* Nothing is stored at first.
LEMMA BaseInit == Init => BaseInv
<1> SUFFICES ASSUME Init PROVE BaseInv
  OBVIOUS
<1>1. log \in Seq([kind : Kinds, into : Ids \cup {NoId}, from : Ids])
  BY DEF Init
<1>2. Rows = {}
  BY DEF Init, Rows
<1> QED  BY <1>1, <1>2, LineageBounds DEF Init, BaseInv, TypeOK, RowsOK, Ids, NoId

\* The tables, the history and the counters always hold values of their type.
THEOREM TypeCorrect == Spec => []TypeOK
<1>1. BaseInv => TypeOK
  BY DEF BaseInv
<1> QED  BY <1>1, BaseInit, BaseStep, PTL DEF Spec

----------------------------------------------------------------------------
(* The tables agree *)

(***************************************************************************)
(* A profile is called by the id one of its profile_ids was created with:  *)
(* that profile_id is still in it.                                         *)
(***************************************************************************)
Rooted ==
    \A p \in Rows : \E q \in Rows : original[q] = connect[p] /\ connect[q] = connect[p]

AgreeInv == Rooted /\ TablesAgree

\* An unmerge that takes out of m what it should: UnmergeLeavesOthers, as an action.
LeavesOthers(u, m) ==
    \A p \in ProfileIds : connect'[p] # connect[p] => connect[p] = m /\ original[p] # m

\* Profiles are finitely many, so they can be counted.
LEMMA CurrentFinite ==
    ASSUME BaseInv
    PROVE  IsFiniteSet(Current)
<1>1. 1 \in Int /\ MaxIds \in Int
  BY LineageBounds
<1>2. IsFiniteSet(Ids) /\ Current \subseteq Ids
  BY <1>1, FS_Interval, IdFacts DEF Ids
<1> QED  BY <1>2, FS_Subset

\* Objects are filed under ids, each in the profile of its master row.
LEMMA StoredFacts ==
    ASSUME BaseInv, TablesAgree
    PROVE  /\ \A f \in Stored : f \in Facts /\ f[1] \in Rows /\ inter[f] = connect[f[1]]
           /\ \A f \in Stored : inter[f] \in Current
           /\ \A f \in Facts \ Stored : inter[f] = NoId
<1>1. \A f \in Stored : f \in Facts /\ f[1] \in Rows /\ inter[f] = connect[f[1]]
  BY IdFacts DEF TablesAgree, Stored, Rows
<1> QED  BY <1>1 DEF Current, Stored

(***************************************************************************)
(* An object that is put under the id its master row now has, with the     *)
(* search row of that profile, agrees with the master table.               *)
(***************************************************************************)
LEMMA StowAgrees ==
    ASSUME BaseInv, TablesAgree, NEW o \in Facts, NEW c \in Ids, Stow(o, c),
           inter[o] = NoId, connect'[o[1]] = c, \A p \in Rows : connect'[p] = connect[p]
    PROVE  /\ \A f \in Stored' : inter'[f] = connect'[f[1]]
           /\ \A d \in Ids : fields'[d] = {f \in Stored' : inter'[f] = d}
<1>1. /\ \A f \in Facts : inter'[f] = IF f = o THEN c ELSE inter[f]
      /\ \A d \in Ids : fields'[d] = IF d = c THEN fields[c] \cup {o} ELSE fields[d]
      /\ NoId \notin Ids
  <2>1. NoId \notin Ids
    BY IdFacts
  <2>2. \A f \in Facts : inter'[f] = IF f = o THEN c ELSE inter[f]
    BY DEF BaseInv, TypeOK, Stow
  <2>3. \A d \in Ids : fields'[d] = IF d = c THEN fields[c] \cup {o} ELSE fields[d]
    BY DEF BaseInv, TypeOK, Stow
  <2> QED  BY <2>1, <2>2, <2>3
<1>2. Stored' = Stored \cup {o} /\ o \notin Stored
  BY <1>1 DEF Stored
<1>3. \A f \in Stored' : inter'[f] = connect'[f[1]]
  BY <1>1, <1>2, StoredFacts
<1>4. ASSUME NEW d \in Ids
      PROVE  fields'[d] = {f \in Stored' : inter'[f] = d}
  <2>1. fields[d] = {f \in Stored : inter[f] = d}
    BY DEF TablesAgree
  <2>2. Stored \subseteq Facts
    BY DEF Stored
  <2>3. CASE d = c
    BY <1>1, <1>2, <2>1, <2>2, <2>3
  <2>4. CASE d # c
    BY <1>1, <1>2, <2>1, <2>2, <2>4
  <2> QED  BY <2>3, <2>4
<1> QED  BY <1>3, <1>4

\* A known profile_id: nothing but the object is new.
LEMMA PutKnownAgrees ==
    ASSUME BaseInv, AgreeInv, NEW o \in Facts, PutKnown(o)
    PROVE  AgreeInv'
<1> DEFINE c == connect[o[1]]
<1>1. c \in Ids /\ c \in Current
  BY IdFacts DEF PutKnown, Rows, Current
<1>2. /\ inter[o] = NoId /\ Stow(o, c)
      /\ UNCHANGED <<connect, original, log, profileCount, nextId, used>>
  BY DEF PutKnown
<1>3. Rows' = Rows /\ Current' = Current
  BY <1>2 DEF Rows, Current
<1>4. /\ \A f \in Stored' : inter'[f] = connect'[f[1]]
      /\ \A d \in Ids : fields'[d] = {f \in Stored' : inter'[f] = d}
  BY <1>1, <1>2, StowAgrees DEF AgreeInv
<1>5. searched' = Current'
  BY <1>1, <1>2, <1>3 DEF Stow, AgreeInv, TablesAgree
<1>6. profileCount' = Cardinality(Current') + used'["match"]
  BY <1>2, <1>3 DEF AgreeInv, TablesAgree
<1>7. Rooted'
  BY <1>2, <1>3 DEF AgreeInv, Rooted
<1> QED  BY <1>4, <1>5, <1>6, <1>7 DEF AgreeInv, TablesAgree

\* A new profile_id that matches nothing is a profile of its own.
LEMMA PutAgrees ==
    ASSUME BaseInv, AgreeInv, NEW o \in Facts, Put(o)
    PROVE  AgreeInv'
<1>1. /\ PutNew(o, nextId) /\ Stow(o, nextId) /\ used' = used /\ inter[o] = NoId
      /\ nextId \in Ids /\ profileCount' = profileCount + 1
  BY IdFacts DEF Put, PutNew, Ids, BaseInv, TypeOK
<1>2. /\ o[1] \notin Rows /\ Rows' = Rows \cup {o[1]}
      /\ connect'[o[1]] = nextId /\ original'[o[1]] = nextId
      /\ \A p \in Rows : connect'[p] = connect[p] /\ original'[p] = original[p]
  BY <1>1, PutNewFacts, IdFacts
<1>3. Current' = Current \cup {nextId} /\ nextId \notin Current
  <2>1. nextId \notin Current
    <3>1. \A p \in Rows : original[p] \in Nat /\ original[p] < nextId
      BY IdFacts DEF BaseInv, RowsOK
    <3>2. \A c \in Current : \E q \in Rows : original[q] = c
      BY DEF AgreeInv, Rooted, Current
    <3> QED  BY <1>1, <3>1, <3>2, IdFacts
  <2> QED  BY <1>2, <2>1 DEF Current
<1>4. /\ \A f \in Stored' : inter'[f] = connect'[f[1]]
      /\ \A d \in Ids : fields'[d] = {f \in Stored' : inter'[f] = d}
  BY <1>1, <1>2, StowAgrees DEF AgreeInv
<1>5. searched' = Current'
  BY <1>1, <1>3 DEF Stow, AgreeInv, TablesAgree
<1>6. profileCount' = Cardinality(Current') + used'["match"]
  <2>1. Cardinality(Current') = Cardinality(Current) + 1
    BY <1>3, CurrentFinite, FS_AddElement
  <2>2. Cardinality(Current) \in Nat /\ used["match"] \in Nat
    BY CurrentFinite, FS_CardinalityType DEF BaseInv, TypeOK, Operations
  <2> QED  BY <1>1, <2>1, <2>2 DEF AgreeInv, TablesAgree
<1>7. Rooted'
  BY <1>2 DEF AgreeInv, Rooted
<1> QED  BY <1>4, <1>5, <1>6, <1>7 DEF AgreeInv, TablesAgree

\* One that matches a profile joins it, and is counted as a profile once more.
LEMMA PutMatchedAgrees ==
    ASSUME BaseInv, AgreeInv, NEW o \in Facts, NEW m \in Current, PutMatched(o, m)
    PROVE  AgreeInv'
<1>1. /\ m \in Ids /\ PutNew(o, m) /\ Stow(o, m) /\ inter[o] = NoId
      /\ profileCount' = profileCount + 1
  BY IdFacts DEF PutMatched, PutNew
<1>2. /\ o[1] \notin Rows /\ Rows' = Rows \cup {o[1]} /\ connect'[o[1]] = m
      /\ \A p \in Rows : connect'[p] = connect[p] /\ original'[p] = original[p]
  BY <1>1, PutNewFacts, IdFacts
<1>3. Current' = Current
  BY <1>2 DEF Current
<1>4. /\ \A f \in Stored' : inter'[f] = connect'[f[1]]
      /\ \A d \in Ids : fields'[d] = {f \in Stored' : inter'[f] = d}
  BY <1>1, <1>2, StowAgrees DEF AgreeInv
<1>5. searched' = Current'
  BY <1>1, <1>3 DEF Stow, AgreeInv, TablesAgree
<1>6. profileCount' = Cardinality(Current') + used'["match"]
  <2>1. used'["match"] = used["match"] + 1 /\ used["match"] \in Nat
    BY DEF PutMatched, Spend, BaseInv, TypeOK, Operations
  <2>2. Cardinality(Current) \in Nat
    BY CurrentFinite, FS_CardinalityType
  <2> QED  BY <1>1, <1>3, <2>1, <2>2 DEF AgreeInv, TablesAgree
<1>7. Rooted'
  <2>1. \E q \in Rows : original[q] = m /\ connect[q] = m
    BY DEF AgreeInv, Rooted, Current
  <2> QED  BY <1>2, <2>1 DEF AgreeInv, Rooted
<1> QED  BY <1>4, <1>5, <1>6, <1>7 DEF AgreeInv, TablesAgree

\* A merge takes one profile away, with its row, objects and count.
LEMMA MergeAgrees ==
    ASSUME BaseInv, AgreeInv, NEW s \in Current, NEW t \in Current, Merge(s, t)
    PROVE  AgreeInv'
<1>1. /\ s \in Ids /\ t \in Ids /\ NoId \notin Ids /\ Rows \subseteq ProfileIds
  BY IdFacts
<1>2. /\ s # t
      /\ \A p \in ProfileIds : connect'[p] = IF connect[p] = s THEN t ELSE connect[p]
      /\ \A f \in Facts : inter'[f] = IF inter[f] = s THEN t ELSE inter[f]
      /\ searched' = searched \ {s} /\ original' = original
      /\ profileCount' = profileCount - 1
  BY DEF Merge
<1>3. \A d \in Ids : fields'[d] = IF d = s THEN {}
                                  ELSE IF d = t THEN fields[t] \cup fields[s] ELSE fields[d]
  BY <1>1, <1>2 DEF Merge, BaseInv, TypeOK
<1>4. Rows' = Rows /\ Stored' = Stored
  BY <1>1, <1>2 DEF Rows, Stored
<1>5. Current' = Current \ {s}
  <2>1. PICK r \in Rows : connect[r] = t
    BY DEF Current
  <2> QED  BY <1>1, <1>2, <1>4, <2>1 DEF Current
<1>6. \A f \in Stored' : inter'[f] = connect'[f[1]]
  BY <1>1, <1>2, <1>4, StoredFacts DEF AgreeInv
<1>7. ASSUME NEW d \in Ids
      PROVE  fields'[d] = {f \in Stored' : inter'[f] = d}
  <2>1. \A x \in Ids : fields[x] = {f \in Stored : inter[f] = x}
    BY DEF AgreeInv, TablesAgree
  <2>2. Stored \subseteq Facts
    BY DEF Stored
  <2>3. CASE d = s
    BY <1>1, <1>2, <1>3, <1>4, <2>2, <2>3
  <2>4. CASE d = t
    BY <1>1, <1>2, <1>3, <1>4, <2>1, <2>2, <2>4
  <2>5. CASE d # s /\ d # t
    BY <1>1, <1>2, <1>3, <1>4, <2>1, <2>2, <2>5
  <2> QED  BY <2>3, <2>4, <2>5
<1>8. searched' = Current'
  BY <1>2, <1>5 DEF AgreeInv, TablesAgree
<1>9. profileCount' = Cardinality(Current') + used'["match"]
  <2>1. Cardinality(Current') = Cardinality(Current) - 1
    BY <1>5, CurrentFinite, FS_RemoveElement
  <2>2. Cardinality(Current) \in Nat /\ used["match"] \in Nat
    BY CurrentFinite, FS_CardinalityType DEF BaseInv, TypeOK, Operations
  <2>3. used'["match"] = used["match"]
    BY DEF Merge, Spend, BaseInv, TypeOK, Operations, Kinds
  <2> QED  BY <1>2, <2>1, <2>2, <2>3 DEF AgreeInv, TablesAgree
<1>10. Rooted'
  <2>1. PICK r \in Rows : original[r] = t /\ connect[r] = t
    BY DEF AgreeInv, Rooted, Current
  <2>2. ASSUME NEW p \in Rows
        PROVE  \E q \in Rows : original'[q] = connect'[p] /\ connect'[q] = connect'[p]
    <3>1. CASE connect'[p] = t
      BY <1>1, <1>2, <2>1, <3>1
    <3>2. CASE connect'[p] # t
      <4>1. connect'[p] = connect[p] /\ connect[p] # s
        BY <1>1, <1>2, <3>2
      <4>2. PICK q \in Rows : original[q] = connect[p] /\ connect[q] = connect[p]
        BY DEF AgreeInv, Rooted
      <4> QED  BY <1>1, <1>2, <4>1, <4>2
    <3> QED  BY <3>1, <3>2
  <2> QED  BY <1>4, <2>2 DEF Rooted
<1> QED  BY <1>6, <1>7, <1>8, <1>9, <1>10 DEF AgreeInv, TablesAgree

\* The id that is unmerged takes the profile_id created with it along.
LEMMA LineageHasItself ==
    ASSUME NEW q \in Rows, original[q] \in Ids
    PROVE  q \in LineageOf(original[q])
  BY DEF LineageOf, Descendants, Reached

(***************************************************************************)
(* An unmerge that leaves other profiles alone divides one profile in two, *)
(* both with their rows, objects and counts.                               *)
(***************************************************************************)
LEMMA UnmergeAgrees ==
    ASSUME BaseInv, AgreeInv, NEW r \in Rows, Unmerge(original[r], connect[r]),
           LeavesOthers(original[r], connect[r])
    PROVE  AgreeInv'
<1> DEFINE u == original[r]
           m == connect[r]
           pids == LineageOf(u)
<1>1. /\ u \in Ids /\ m \in Ids /\ m \in Current /\ NoId \notin Ids
      /\ Rows \subseteq ProfileIds /\ pids \subseteq Rows /\ r \in pids
      /\ \A p \in Rows : connect[p] \in Ids
  BY IdFacts, LineageHasItself DEF Current, LineageOf
<1> HIDE DEF pids
<1>2. /\ m # u
      /\ \A p \in ProfileIds : connect'[p] = IF p \in pids THEN u ELSE connect[p]
      /\ \A f \in Facts : inter'[f] = IF f \in Stored /\ f[1] \in pids THEN u ELSE inter[f]
      /\ searched' = searched \cup {u, m} /\ original' = original
      /\ profileCount' = profileCount + 1
      /\ \A d \in Ids : fields'[d] = IF d \in {u, m} THEN {f \in Stored : inter'[f] = d}
                                     ELSE fields[d]
  BY DEF Unmerge, Rebuilt, CountedBack, pids
<1>3. u \notin Current
  <2>1. ASSUME u \in Current
        PROVE  FALSE
    <3>1. PICK q \in Rows : original[q] = u /\ connect[q] = u
      BY <2>1 DEF AgreeInv, Rooted, Current
    <3>2. q = r
      BY <3>1 DEF BaseInv, RowsOK
    <3> QED  BY <1>2, <3>1, <3>2
  <2> QED  BY <2>1
<1>4. \A p \in pids : connect[p] = m /\ original[p] # m
  <2>1. \A p \in pids : connect'[p] = u /\ connect[p] # u
    BY <1>1, <1>2, <1>3 DEF Current
  <2> QED  BY <1>1, <2>1 DEF LeavesOthers
<1>5. Rows' = Rows /\ Stored' = Stored
  BY <1>1, <1>2 DEF Rows, Stored
<1>6. PICK root \in Rows : original[root] = m /\ connect[root] = m
  BY <1>1 DEF AgreeInv, Rooted
<1>7. root \notin pids
  BY <1>4, <1>6
<1>8. Current' = Current \cup {u}
  <2>1. connect'[root] = m /\ connect'[r] = u
    BY <1>1, <1>2, <1>6, <1>7
  <2>2. Current' \subseteq Current \cup {u} /\ u \in Current'
    BY <1>1, <1>2, <1>5, <2>1 DEF Current
  <2>3. ASSUME NEW p \in Rows
        PROVE  connect[p] \in Current'
    BY <1>1, <1>2, <1>4, <1>5, <1>6, <2>1 DEF Current
  <2> QED  BY <2>2, <2>3 DEF Current
<1>9. \A f \in Stored' : inter'[f] = connect'[f[1]]
  BY <1>1, <1>2, <1>5, StoredFacts DEF AgreeInv
<1>10. ASSUME NEW d \in Ids
       PROVE  fields'[d] = {f \in Stored' : inter'[f] = d}
  <2>1. fields[d] = {f \in Stored : inter[f] = d}
    BY DEF AgreeInv, TablesAgree
  <2>2. \A f \in Stored : f \in Facts /\ f[1] \in Rows /\ inter[f] = connect[f[1]]
    BY StoredFacts DEF AgreeInv
  <2>3. CASE d \in {u, m}
    BY <1>2, <1>5, <2>3
  <2>4. CASE d \notin {u, m}
    <3>1. \A f \in Stored : inter'[f] = d <=> inter[f] = d
      BY <1>2, <1>4, <2>2, <2>4
    <3> QED  BY <1>2, <1>5, <2>1, <2>4, <3>1
  <2> QED  BY <2>3, <2>4
<1>11. searched' = Current'
  BY <1>1, <1>2, <1>8 DEF AgreeInv, TablesAgree
<1>12. profileCount' = Cardinality(Current') + used'["match"]
  <2>1. Cardinality(Current') = Cardinality(Current) + 1
    BY <1>3, <1>8, CurrentFinite, FS_AddElement
  <2>2. Cardinality(Current) \in Nat /\ used["match"] \in Nat
    BY CurrentFinite, FS_CardinalityType DEF BaseInv, TypeOK, Operations
  <2>3. used'["match"] = used["match"]
    BY DEF Unmerge, Spend, BaseInv, TypeOK, Operations, Kinds
  <2> QED  BY <1>2, <2>1, <2>2, <2>3 DEF AgreeInv, TablesAgree
<1>13. Rooted'
  <2>1. ASSUME NEW p \in Rows
        PROVE  \E q \in Rows : original'[q] = connect'[p] /\ connect'[q] = connect'[p]
    <3>1. CASE p \in pids
      BY <1>1, <1>2, <3>1
    <3>2. CASE p \notin pids
      <4>1. PICK q \in Rows : original[q] = connect[p] /\ connect[q] = connect[p]
        BY DEF AgreeInv, Rooted
      <4>2. q \notin pids
        BY <1>4, <4>1
      <4> QED  BY <1>1, <1>2, <3>2, <4>1, <4>2
    <3> QED  BY <3>1, <3>2
  <2> QED  BY <1>5, <2>1 DEF Rooted
<1> QED  BY <1>9, <1>10, <1>11, <1>12, <1>13 DEF AgreeInv, TablesAgree

\* A deletion takes all the rows of one profile away and no others.
LEMMA DeleteAgrees ==
    ASSUME BaseInv, AgreeInv, NEW c \in Current, Delete(c)
    PROVE  AgreeInv'
<1>1. /\ c \in Ids /\ NoId \notin Ids /\ Rows \subseteq ProfileIds
  BY IdFacts
<1>2. /\ \A p \in ProfileIds : connect'[p] = IF connect[p] = c THEN NoId ELSE connect[p]
      /\ \A p \in ProfileIds : connect[p] # c => original'[p] = original[p]
      /\ \A f \in Facts : inter'[f] = IF inter[f] = c THEN NoId ELSE inter[f]
      /\ searched' = searched \ {c}
      /\ profileCount' = profileCount - 1
      /\ \A d \in Ids : fields'[d] = IF d = c THEN {} ELSE fields[d]
  <2>1. \A p \in ProfileIds : p \in DeletedRows(c) <=> connect[p] = c
    BY <1>1 DEF DeletedRows, Rows
  <2> QED  BY <1>1, <2>1 DEF Delete, BaseInv, TypeOK
<1>3. /\ Rows' = {p \in Rows : connect[p] # c}
      /\ Stored' = {f \in Stored : inter[f] # c}
  BY <1>1, <1>2 DEF Rows, Stored
<1>4. Current' = Current \ {c}
  BY <1>1, <1>2, <1>3 DEF Current
<1>5. \A f \in Stored' : inter'[f] = connect'[f[1]]
  BY <1>1, <1>2, <1>3, StoredFacts DEF AgreeInv
<1>6. ASSUME NEW d \in Ids
      PROVE  fields'[d] = {f \in Stored' : inter'[f] = d}
  <2>1. fields[d] = {f \in Stored : inter[f] = d} /\ Stored \subseteq Facts
    BY DEF AgreeInv, TablesAgree, Stored
  <2>2. CASE d = c
    BY <1>1, <1>2, <1>3, <2>1, <2>2
  <2>3. CASE d # c
    BY <1>1, <1>2, <1>3, <2>1, <2>3
  <2> QED  BY <2>2, <2>3
<1>7. searched' = Current'
  BY <1>2, <1>4 DEF AgreeInv, TablesAgree
<1>8. profileCount' = Cardinality(Current') + used'["match"]
  <2>1. Cardinality(Current') = Cardinality(Current) - 1
    BY <1>4, CurrentFinite, FS_RemoveElement
  <2>2. Cardinality(Current) \in Nat /\ used["match"] \in Nat
    BY CurrentFinite, FS_CardinalityType DEF BaseInv, TypeOK, Operations
  <2>3. used'["match"] = used["match"]
    BY DEF Delete, Spend, BaseInv, TypeOK, Operations, Kinds
  <2> QED  BY <1>2, <2>1, <2>2, <2>3 DEF AgreeInv, TablesAgree
<1>9. Rooted'
  BY <1>1, <1>2, <1>3 DEF AgreeInv, Rooted
<1> QED  BY <1>5, <1>6, <1>7, <1>8, <1>9 DEF AgreeInv, TablesAgree

(***************************************************************************)
(* As long as unmerges take out of a profile what was merged into it, and  *)
(* nothing else, the tables and the profile counter agree after any        *)
(* sequence of puts, matches, merges, unmerges and deletions: this holds   *)
(* of any history, plain or not.                                           *)
(***************************************************************************)
THEOREM TablesStayInStep == Spec /\ UnmergeLeavesOthers => []TablesAgree
<1> DEFINE Leaves == \A u, m \in Ids : Unmerge(u, m) => LeavesOthers(u, m)
<1>1. Init => AgreeInv
  <2> SUFFICES ASSUME Init PROVE AgreeInv
    OBVIOUS
  <2>1. Rows = {} /\ Stored = {} /\ Current = {}
    BY DEF Init, Rows, Stored, Current
  <2> QED  BY <2>1, FS_EmptySet DEF Init, AgreeInv, Rooted, TablesAgree, Operations
<1>2. ASSUME BaseInv, AgreeInv, [Next]_vars, [Leaves]_vars
      PROVE  AgreeInv'
  <2>1. ASSUME NEW o \in Facts, NEW m \in Current, PutMatched(o, m)
        PROVE  AgreeInv'
    BY <1>2, <2>1, PutMatchedAgrees
  <2>2. ASSUME NEW s \in Current, NEW t \in Current, Merge(s, t)
        PROVE  AgreeInv'
    BY <1>2, <2>2, MergeAgrees
  <2>3. ASSUME NEW r \in Rows, Unmerge(original[r], connect[r])
        PROVE  AgreeInv'
    <3>1. original[r] \in Ids /\ connect[r] \in Ids
      BY <1>2, IdFacts
    <3>2. log' # log
      BY <1>2, <2>3, AppendProperties DEF Unmerge, BaseInv, TypeOK
    <3>3. LeavesOthers(original[r], connect[r])
      BY <1>2, <2>3, <3>1, <3>2 DEF vars
    <3> QED  BY <1>2, <2>3, <3>3, UnmergeAgrees
  <2>4. ASSUME NEW c \in Current, Delete(c)
        PROVE  AgreeInv'
    BY <1>2, <2>4, DeleteAgrees
  <2>5. ASSUME NEW o \in Facts, PutKnown(o) \/ Put(o)
        PROVE  AgreeInv'
    BY <1>2, <2>5, PutKnownAgrees, PutAgrees
  <2>6. CASE UNCHANGED vars
    BY <1>2, <2>6 DEF vars, AgreeInv, Rooted, TablesAgree, Rows, Stored, Current
  <2> QED  BY <1>2, <2>1, <2>2, <2>3, <2>4, <2>5, <2>6 DEF Next
<1>3. AgreeInv => TablesAgree
  BY DEF AgreeInv
<1>4. UnmergeLeavesOthers => [][Leaves]_vars
  BY DEF UnmergeLeavesOthers, LeavesOthers
<1> QED  BY <1>1, <1>2, <1>3, <1>4, BaseInit, BaseStep, PTL DEF Spec

----------------------------------------------------------------------------
(* Levels: functions that are defined from one number to the next *)

\* A set that holds 0 and with a number the next one holds them all.
LEMMA Counting ==
    ASSUME NEW S, 0 \in S, \A n \in Nat : n \in S => n + 1 \in S
    PROVE  Nat \subseteq S
<1> DEFINE R == {ss \in Nat \X Nat : ss[1] < ss[2]}
           T == Nat \ S
<1> SUFFICES ASSUME T # {} PROVE FALSE
  OBVIOUS
<1>1. IsWellFoundedOn(R, Nat) /\ T \subseteq Nat
  BY NatLessThanWellFounded DEF OpToRel
<1>2. PICK n \in T : \A m \in T : <<m, n>> \notin R
  <2> HIDE DEF R, T
  <2> QED  BY <1>1, WFMin
<1>3. n - 1 \in Nat /\ <<n - 1, n>> \in R
  OBVIOUS
<1> QED  BY <1>2, <1>3

\* r[0] is a and each r[d] is f of the one before.
Steps(f, a, D, r) == \A d \in 0 .. D : r[d] = IF d = 0 THEN a ELSE f[r[d - 1]]

\* There are such steps, as many as one likes.
LEMMA Recursion ==
    ASSUME NEW U, NEW f \in [U -> U], NEW a \in U, NEW D \in Nat
    PROVE  \E r \in [0 .. D -> U] : Steps(f, a, D, r)
<1> DEFINE S == {n \in Nat : \E r \in [0 .. n -> U] : Steps(f, a, n, r)}
<1>1. 0 \in S
  <2> DEFINE r == [d \in 0 .. 0 |-> a]
  <2>1. r \in [0 .. 0 -> U] /\ Steps(f, a, 0, r)
    BY DEF Steps
  <2> QED  BY <2>1
<1>2. ASSUME NEW n \in Nat, n \in S
      PROVE  n + 1 \in S
  <2>1. PICK g \in [0 .. n -> U] : Steps(f, a, n, g)
    BY <1>2
  <2> DEFINE h == [d \in 0 .. n + 1 |-> IF d \in 0 .. n THEN g[d] ELSE f[g[n]]]
  <2>2. n \in 0 .. n /\ h \in [0 .. n + 1 -> U]
    BY <2>1
  <2>3. ASSUME NEW d \in 0 .. n + 1
        PROVE  h[d] = IF d = 0 THEN a ELSE f[h[d - 1]]
    <3>1. CASE d \in 0 .. n
      <4>1. g[d] = IF d = 0 THEN a ELSE f[g[d - 1]]
        BY <2>1, <3>1 DEF Steps
      <4>2. d # 0 => d - 1 \in 0 .. n /\ d - 1 \in 0 .. n + 1
        BY <3>1
      <4> QED  BY <3>1, <4>1, <4>2
    <3>2. CASE d \notin 0 .. n
      <4>1. d - 1 = n /\ d # 0 /\ n \in 0 .. n + 1
        BY <3>2
      <4> QED  BY <2>2, <3>2, <4>1
    <3> QED  BY <3>1, <3>2
  <2> HIDE DEF h
  <2>4. Steps(f, a, n + 1, h)
    BY <2>3 DEF Steps
  <2> QED  BY <2>2, <2>4
<1>3. D \in S
  <2> HIDE DEF S
  <2> QED  BY <1>1, <1>2, Counting
<1> QED  BY <1>3

\* The rows of the history query by depth.
RowsTo(root, r) ==
    r = [d \in 0 .. HistoryDepth |-> IF d = 0 THEN FirstRows(root)
                                     ELSE r[d - 1] \cup RowsBelow(r[d - 1])]

\* The query is defined: there is such a function, and it returns the last of it.
LEMMA HistoryDefined ==
    ASSUME NEW root
    PROVE  \E r : RowsTo(root, r) /\ HistoryOf(root) = r[HistoryDepth]
<1> DEFINE U == SUBSET Seq(Entries)
           f == [X \in U |-> X \cup RowsBelow(X)]
<1>1. FirstRows(root) \in U
  <2>1. \A k \in Entries : <<k>> \in Seq(Entries)
    OBVIOUS
  <2> QED  BY <2>1 DEF FirstRows
<1>2. \A X \in U : RowsBelow(X) \in U
  BY AppendProperties DEF RowsBelow
<1>3. f \in [U -> U]
  BY <1>2
<1>4. HistoryDepth \in Nat
  BY LineageBounds
<1> HIDE DEF U
<1>5. PICK r \in [0 .. HistoryDepth -> U] : Steps(f, FirstRows(root), HistoryDepth, r)
  <2> HIDE DEF f
  <2> QED  BY <1>1, <1>3, <1>4, Recursion
<1>6. ASSUME NEW d \in 0 .. HistoryDepth
      PROVE  r[d] = IF d = 0 THEN FirstRows(root) ELSE r[d - 1] \cup RowsBelow(r[d - 1])
  <2>1. r[d] = IF d = 0 THEN FirstRows(root) ELSE f[r[d - 1]]
    BY <1>5 DEF Steps
  <2>2. d # 0 => d - 1 \in 0 .. HistoryDepth
    BY <1>4
  <2> QED  BY <2>1, <2>2
<1>7. RowsTo(root, r)
  BY <1>5, <1>6 DEF RowsTo
<1> DEFINE Right(x) == RowsTo(root, x)
           rows == CHOOSE x : Right(x)
<1>8. HistoryOf(root) = rows[HistoryDepth]
  BY DEF HistoryOf, RowsTo
<1>9. Right(rows)
  <2>1. Right(r)
    BY <1>7
  <2> HIDE DEF Right
  <2> QED  BY <2>1
<1> QED  BY <1>8, <1>9

\* Every row of the query is in a set that has the first rows and their successors.
LEMMA HistoryWithin ==
    ASSUME NEW root, NEW P, FirstRows(root) \subseteq P,
           \A X \in SUBSET P : RowsBelow(X) \subseteq P
    PROVE  HistoryOf(root) \subseteq P
<1>1. PICK r : RowsTo(root, r) /\ HistoryOf(root) = r[HistoryDepth]
  BY HistoryDefined
<1> DEFINE S == {n \in Nat : n <= HistoryDepth => r[n] \subseteq P}
<1>2. \A d \in 0 .. HistoryDepth : r[d] = IF d = 0 THEN FirstRows(root)
                                          ELSE r[d - 1] \cup RowsBelow(r[d - 1])
  BY <1>1 DEF RowsTo
<1>3. HistoryDepth \in Nat
  BY LineageBounds
<1>4. 0 \in S
  <2>1. 0 \in 0 .. HistoryDepth /\ 0 \in Nat
    BY <1>3
  <2>2. r[0] = FirstRows(root)
    BY <1>2, <2>1
  <2> QED  BY <2>1, <2>2
<1>5. ASSUME NEW n \in Nat, n \in S
      PROVE  n + 1 \in S
  <2>1. SUFFICES ASSUME n + 1 <= HistoryDepth PROVE r[n + 1] \subseteq P
    OBVIOUS
  <2>2. n + 1 \in 0 .. HistoryDepth /\ n + 1 # 0 /\ (n + 1) - 1 = n /\ n <= HistoryDepth
    BY <1>3, <2>1
  <2>3. r[n + 1] = r[n] \cup RowsBelow(r[n])
    BY <1>2, <2>2
  <2> QED  BY <1>5, <2>2, <2>3
<1>6. HistoryDepth \in S
  <2> HIDE DEF S
  <2> QED  BY <1>3, <1>4, <1>5, Counting
<1> QED  BY <1>1, <1>3, <1>6

\* The rows of a depth are rows of the query, with their successors if it goes on.
LEMMA HistoryGrows ==
    ASSUME NEW root, NEW r, RowsTo(root, r), HistoryOf(root) = r[HistoryDepth]
    PROVE  /\ r[0] = FirstRows(root)
           /\ \A d \in 0 .. HistoryDepth : r[d] \subseteq HistoryOf(root)
           /\ \A d \in 0 .. HistoryDepth : d + 1 <= HistoryDepth => RowsBelow(r[d]) \subseteq r[d + 1]
<1>1. \A d \in 0 .. HistoryDepth : r[d] = IF d = 0 THEN FirstRows(root)
                                          ELSE r[d - 1] \cup RowsBelow(r[d - 1])
  BY DEF RowsTo
<1>2. HistoryDepth \in Nat
  BY LineageBounds
<1>3. \A d \in 0 .. HistoryDepth : d + 1 <= HistoryDepth => r[d + 1] = r[d] \cup RowsBelow(r[d])
  <2> SUFFICES ASSUME NEW d \in 0 .. HistoryDepth, d + 1 <= HistoryDepth
               PROVE  r[d + 1] = r[d] \cup RowsBelow(r[d])
    OBVIOUS
  <2>1. d + 1 \in 0 .. HistoryDepth /\ d + 1 # 0 /\ (d + 1) - 1 = d
    BY <1>2
  <2> QED  BY <1>1, <2>1
<1> DEFINE S == {n \in Nat : n <= HistoryDepth => r[HistoryDepth - n] \subseteq r[HistoryDepth]}
<1>4. 0 \in S
  BY <1>2
<1>5. ASSUME NEW n \in Nat, n \in S
      PROVE  n + 1 \in S
  <2>1. SUFFICES ASSUME n + 1 <= HistoryDepth
                 PROVE r[HistoryDepth - (n + 1)] \subseteq r[HistoryDepth]
    OBVIOUS
  <2>2. /\ HistoryDepth - (n + 1) \in 0 .. HistoryDepth /\ n <= HistoryDepth
        /\ (HistoryDepth - (n + 1)) + 1 = HistoryDepth - n
        /\ (HistoryDepth - (n + 1)) + 1 <= HistoryDepth
    BY <1>2, <2>1
  <2>3. r[HistoryDepth - (n + 1)] \subseteq r[HistoryDepth - n]
    BY <1>3, <2>2
  <2> QED  BY <1>5, <2>2, <2>3
<1>6. \A d \in 0 .. HistoryDepth : r[d] \subseteq HistoryOf(root)
  <2> SUFFICES ASSUME NEW d \in 0 .. HistoryDepth PROVE r[d] \subseteq r[HistoryDepth]
    OBVIOUS
  <2>1. HistoryDepth - d \in S
    <3> HIDE DEF S
    <3> QED  BY <1>2, <1>4, <1>5, Counting
  <2>2. HistoryDepth - (HistoryDepth - d) = d /\ HistoryDepth - d <= HistoryDepth
    BY <1>2
  <2> QED  BY <2>1, <2>2
<1>7. r[0] = FirstRows(root)
  <2>1. 0 \in 0 .. HistoryDepth
    BY <1>2
  <2> QED  BY <1>1, <2>1
<1>8. ASSUME NEW d \in 0 .. HistoryDepth, d + 1 <= HistoryDepth
      PROVE  RowsBelow(r[d]) \subseteq r[d + 1]
  BY <1>3, <1>8
<1> QED  BY <1>6, <1>7, <1>8

----------------------------------------------------------------------------
(* Reachability *)

\* What is reached holds the root and the children of its members.
LEMMA ReachedClosed ==
    ASSUME NEW kids, \A e \in kids : e[2] \in Ids, NEW a \in Ids
    PROVE  /\ Reached(kids, a) \subseteq Ids /\ a \in Reached(kids, a)
           /\ \A e \in kids : e[1] \in Reached(kids, a) => e[2] \in Reached(kids, a)
<1>1. ASSUME NEW e \in kids, e[1] \in Reached(kids, a)
      PROVE  e[2] \in Reached(kids, a)
  BY <1>1 DEF Reached, Closed
<1> QED  BY <1>1 DEF Reached

\* It is the smallest such set.
LEMMA ReachedSmallest ==
    ASSUME NEW kids, NEW a, NEW S \in SUBSET Ids, a \in S,
           \A e \in kids : e[1] \in S => e[2] \in S
    PROVE  Reached(kids, a) \subseteq S
  BY DEF Reached, Closed

\* Reaching further from what is reached.
LEMMA ReachedOn ==
    ASSUME NEW kids, \A e \in kids : e[2] \in Ids, NEW a \in Ids, NEW b \in Reached(kids, a)
    PROVE  Reached(kids, b) \subseteq Reached(kids, a)
<1>1. /\ Reached(kids, a) \subseteq Ids
      /\ \A e \in kids : e[1] \in Reached(kids, a) => e[2] \in Reached(kids, a)
  BY ReachedClosed
<1> QED  BY <1>1, ReachedSmallest

\* Whatever is reached, other than the root, is reached by an edge.
LEMMA ReachedByEdge ==
    ASSUME NEW kids, \A e \in kids : e[2] \in Ids, NEW a \in Ids,
           NEW b \in Reached(kids, a), b # a
    PROVE  \E e \in kids : e[2] = b /\ e[1] \in Reached(kids, a)
<1> SUFFICES ASSUME \A e \in kids : e[1] \in Reached(kids, a) => e[2] # b
             PROVE  FALSE
  OBVIOUS
<1> DEFINE S == Reached(kids, a) \ {b}
<1>1. /\ S \in SUBSET Ids /\ a \in S
      /\ \A e \in kids : e[1] \in S => e[2] \in S
  BY ReachedClosed
<1> HIDE DEF S
<1>2. Reached(kids, a) \subseteq S
  BY <1>1, ReachedSmallest
<1> QED  BY <1>2 DEF S

\* More edges reach more.
LEMMA ReachedMore ==
    ASSUME NEW kids, NEW more, kids \subseteq more, NEW a \in Ids, \A e \in more : e[2] \in Ids
    PROVE  Reached(kids, a) \subseteq Reached(more, a)
<1>1. /\ Reached(more, a) \subseteq Ids /\ a \in Reached(more, a)
      /\ \A e \in kids : e[1] \in Reached(more, a) => e[2] \in Reached(more, a)
  BY ReachedClosed
<1> QED  BY <1>1, ReachedSmallest

----------------------------------------------------------------------------
(* The history as a forest *)

MergeEdges == {Edge(log[k]) : k \in Merges}
LiveEdges  == {Edge(log[k]) : k \in Live}

\* All that was ever merged into i, directly or not, and what is part of i now.
Merged(i) == Reached(MergeEdges, i)
Tree(i)   == Reached(LiveEdges, i)

MergesOf(i)   == {k \in Merges : log[k].from = i}
UnmergesOf(i) == {k \in Unmerges : log[k].from = i}
IsMerged(i)   == \E k \in Live : log[k].from = i

\* Only ids that were handed out are recorded, and no parent for a deletion.
EntriesOK ==
    \A k \in Entries : /\ log[k].from < nextId
                       /\ log[k].into = NoId <=> log[k].kind = "delete"

\* An id is merged and unmerged in turns.
Balanced ==
    \A i \in Ids : Cardinality(MergesOf(i)) =
                       Cardinality(UnmergesOf(i)) + (IF IsMerged(i) THEN 1 ELSE 0)

\* Every merge of an id that was never unmerged stands.
Undone == \A i \in Ids : UnmergesOf(i) = {} => MergesOf(i) \subseteq Live

\* What was unmerged from a profile had been merged into it, directly or not.
UnmergedBelow ==
    \A i, m \in Ids : \A k \in UnmergesOf(i) :
        log[k].into = m => \E j \in MergesOf(i) : log[j].into \in Merged(m)

\* What is part of a profile that was merged had been merged into it before.
Earlier == \A j, k \in Live : log[j].into = log[k].from => j < k

\* A profile_id is part of the profile its row names, which is part of no other.
Tops ==
    \A p \in Rows : /\ connect[p] < nextId /\ ~IsMerged(connect[p])
                    /\ original[p] \in Tree(connect[p])

\* The history is as long as there were operations.
LogShort == Len(log) = Spent /\ Spent <= MaxOperations

HistoryInv ==
    EntriesOK /\ Balanced /\ Undone /\ UnmergedBelow /\ Earlier /\ LogShort

\* Types of what is made of the entries.
LEMMA LogFacts ==
    ASSUME BaseInv, EntriesOK
    PROVE  /\ Entries = 1 .. Len(log) /\ Len(log) \in Nat
           /\ \A k \in Entries : /\ log[k] \in [kind : Kinds, into : Ids \cup {NoId}, from : Ids]
                                 /\ k \in Nat
                                 /\ log[k].into \in Ids <=> log[k].kind # "delete"
           /\ Merges \subseteq Entries /\ Unmerges \subseteq Entries /\ Live \subseteq Merges
           /\ \A k \in Merges \cup Unmerges : log[k].into \in Ids /\ log[k].from \in Ids
           /\ \A e \in MergeEdges : e[1] \in Ids /\ e[2] \in Ids
           /\ LiveEdges \subseteq MergeEdges
<1>1. Entries = 1 .. Len(log) /\ Len(log) \in Nat
  BY DEF Entries, BaseInv, TypeOK
<1>2. \A k \in Entries : /\ log[k] \in [kind : Kinds, into : Ids \cup {NoId}, from : Ids]
                         /\ k \in Nat
  <2> DEFINE R == [kind : Kinds, into : Ids \cup {NoId}, from : Ids]
  <2>1. log \in Seq(R)
    BY DEF BaseInv, TypeOK
  <2> HIDE DEF R
  <2>2. \A k \in Entries : log[k] \in R /\ k \in Nat
    BY <1>1, <2>1
  <2> QED  BY <2>2 DEF R
<1>3. \A k \in Entries : log[k].into \in Ids <=> log[k].kind # "delete"
  BY <1>2, IdFacts DEF EntriesOK
<1>4. Merges \subseteq Entries /\ Unmerges \subseteq Entries /\ Live \subseteq Merges
  BY DEF Merges, Unmerges, Live
<1>5. \A k \in Merges \cup Unmerges : log[k].into \in Ids /\ log[k].from \in Ids
  BY <1>2, <1>3, <1>4 DEF Merges, Unmerges
<1>6. \A e \in MergeEdges : e[1] \in Ids /\ e[2] \in Ids
  BY <1>5 DEF MergeEdges, Edge
<1>7. LiveEdges \subseteq MergeEdges
  BY <1>4 DEF MergeEdges, LiveEdges
<1> QED  BY <1>1, <1>2, <1>3, <1>4, <1>5, <1>6, <1>7

\* A merge that stands is the only one of its id.
LEMMA LiveOnce ==
    ASSUME BaseInv, EntriesOK, NEW j \in Live, NEW k \in Live, log[j].from = log[k].from
    PROVE  j = k
<1>1. j \in 1 .. Len(log) /\ k \in 1 .. Len(log) /\ Len(log) \in Nat
  BY LogFacts
<1>2. j >= k
  BY <1>1 DEF Live
<1>3. k >= j
  BY <1>1 DEF Live
<1> QED  BY <1>1, <1>2, <1>3

\* The parent of an id is where the merge of it that stands put it.
LEMMA ParentIs ==
    ASSUME BaseInv, EntriesOK, NEW i \in Ids
    PROVE  /\ \A k \in Live : log[k].from = i => ParentsByLog[i] = log[k].into
           /\ ParentsByLog[i] = NoId <=> ~IsMerged(i)
<1> DEFINE of == {k \in Live : log[k].from = i}
<1>1. ParentsByLog[i] = IF of = {} THEN NoId ELSE log[CHOOSE k \in of : TRUE].into
  BY DEF ParentsByLog
<1>2. CASE of = {}
  BY <1>1, <1>2 DEF IsMerged
<1>3. CASE of # {}
  <2>1. PICK k \in of : TRUE
    BY <1>3
  <2>2. of = {k}
    BY <2>1, LiveOnce
  <2>3. ParentsByLog[i] = log[k].into
    BY <1>1, <2>2
  <2>4. log[k].into \in Ids /\ NoId \notin Ids
    BY LogFacts, IdFacts
  <2> QED  BY <2>2, <2>3, <2>4 DEF IsMerged
<1> QED  BY <1>2, <1>3

\* Trees of profiles that are part of no other have nothing in common.
LEMMA TreesApart ==
    ASSUME BaseInv, EntriesOK, NEW a \in Ids, NEW b \in Ids, ~IsMerged(a), ~IsMerged(b),
           NEW i \in Tree(a), i \in Tree(b)
    PROVE  a = b
<1> SUFFICES ASSUME a # b PROVE FALSE
  OBVIOUS
<1>1. \A e \in LiveEdges : e[1] \in Ids /\ e[2] \in Ids
  BY LogFacts
<1>2. /\ Tree(a) \subseteq Ids /\ a \in Tree(a)
      /\ \A e \in LiveEdges : e[1] \in Tree(a) => e[2] \in Tree(a)
  BY <1>1, ReachedClosed DEF Tree
<1>3. \A x \in Tree(b) : x # b => \E e \in LiveEdges : e[2] = x /\ e[1] \in Tree(b)
  BY <1>1, ReachedByEdge DEF Tree
<1>4. \A e \in LiveEdges : IsMerged(e[2])
  BY DEF LiveEdges, Edge, IsMerged
<1>5. \A d, e \in LiveEdges : d[2] = e[2] => d[1] = e[1]
  BY LiveOnce DEF LiveEdges, Edge
<1> DEFINE S == Tree(a) \ Tree(b)
<1>6. a \in S
  BY <1>2, <1>3, <1>4
<1>7. ASSUME NEW e \in LiveEdges, e[1] \in S
      PROVE  e[2] \in S
  <2>1. e[2] # b
    BY <1>4
  <2> QED  BY <1>2, <1>3, <1>5, <1>7, <2>1
<1>8. S \in SUBSET Ids
  BY <1>2
<1> HIDE DEF S
<1>9. Tree(a) \subseteq S
  BY <1>6, <1>7, <1>8, ReachedSmallest DEF Tree
<1> QED  BY <1>9 DEF S

----------------------------------------------------------------------------
(* What the queries return *)

Above(S) == {log[k].into : k \in {j \in Entries : log[j].from \in S}}

(***************************************************************************)
(* The query for the way up comes back only if the id is on no cycle: it   *)
(* was never merged into something that had been merged into it.           *)
(***************************************************************************)
LEMMA NoCycle ==
    ASSUME BaseInv, EntriesOK, NEW u \in Ids, Answers(u), NEW k \in Merges, log[k].from = u
    PROVE  log[k].into \notin Merged(u)
<1> SUFFICES ASSUME log[k].into \in Merged(u) PROVE FALSE
  OBVIOUS
<1>1. /\ \A e \in MergeEdges : e[1] \in Ids /\ e[2] \in Ids
      /\ Merges \subseteq Entries /\ \A j \in Merges : log[j].into \in Ids /\ log[j].from \in Ids
      /\ \A j \in Merges : <<log[j].into, log[j].from>> \in MergeEdges
  BY LogFacts DEF MergeEdges, Edge
<1>2. \A i \in Ids : /\ Merged(i) \subseteq Ids /\ i \in Merged(i)
                     /\ \A e \in MergeEdges : e[1] \in Merged(i) => e[2] \in Merged(i)
  BY <1>1, ReachedClosed DEF Merged
<1>3. \A i \in Ids : \A j \in Merged(i) : Merged(j) \subseteq Merged(i)
  BY <1>1, ReachedOn DEF Merged
<1> DEFINE C == {c \in Merged(u) : u \in Merged(c)}
<1>4. u \in C
  BY <1>2
<1>5. ASSUME NEW c \in C
      PROVE  \E j \in Entries : log[j].from = c /\ log[j].into \in C
  <2>1. CASE c = u
    <3>1. u \in Merged(log[k].into)
      BY <1>1, <1>2
    <3> QED  BY <1>1, <2>1, <3>1
  <2>2. CASE c # u
    <3>1. PICK e \in MergeEdges : e[2] = c /\ e[1] \in Merged(u)
      BY <1>1, <2>2, ReachedByEdge DEF Merged
    <3>2. c \in Merged(e[1]) /\ u \in Merged(c)
      BY <1>1, <1>2, <3>1
    <3>3. e[1] \in C
      BY <1>1, <1>3, <3>1, <3>2
    <3>4. PICK j \in Merges : e = <<log[j].into, log[j].from>>
      BY DEF MergeEdges, Edge
    <3> QED  BY <1>1, <3>1, <3>3, <3>4
  <2> QED  BY <2>1, <2>2
<1> HIDE DEF C
<1> DEFINE U == SUBSET (Ids \cup {NoId})
           f == [S \in U |-> Above(S)]
<1>6. \A S : Above(S) \in U
  <2>1. \A j \in Entries : log[j].into \in Ids \cup {NoId}
    BY LogFacts
  <2> QED  BY <2>1 DEF Above
<1>7. f \in [U -> U] /\ Above({u}) \in U
  BY <1>6
<1>8. Len(log) \in Nat
  BY LogFacts
<1>9. PICK r \in [0 .. Len(log) -> U] : Steps(f, Above({u}), Len(log), r)
  <2> HIDE DEF U, f
  <2> QED  BY <1>7, <1>8, Recursion
<1> DEFINE Levels(l) == l = [d \in 0 .. Len(log) |-> IF d = 0 THEN Above({u}) ELSE Above(l[d - 1])]
           level == CHOOSE l : Levels(l)
<1>10. Levels(r)
  <2>1. ASSUME NEW d \in 0 .. Len(log)
        PROVE  r[d] = IF d = 0 THEN Above({u}) ELSE Above(r[d - 1])
    <3>1. r[d] = IF d = 0 THEN Above({u}) ELSE f[r[d - 1]]
      BY <1>9 DEF Steps
    <3>2. d # 0 => d - 1 \in 0 .. Len(log)
      BY <1>8
    <3>3. d # 0 => r[d - 1] \in U
      <4> HIDE DEF U
      <4> QED  BY <3>2
    <3> QED  BY <3>1, <3>3
  <2>2. r = [d \in 0 .. Len(log) |-> r[d]]
    OBVIOUS
  <2> QED  BY <2>1, <2>2
<1>11. Levels(level)
  <2> HIDE DEF Levels
  <2> QED  BY <1>10
<1>12. level[Len(log)] = {}
  BY DEF Answers, Above
<1> HIDE DEF level
<1>13. \A d \in 0 .. Len(log) : level[d] = IF d = 0 THEN Above({u}) ELSE Above(level[d - 1])
  BY <1>11
<1>14. \A S : S \cap C # {} => Above(S) \cap C # {}
  BY <1>5 DEF Above
<1> DEFINE N == {n \in Nat : n <= Len(log) => level[n] \cap C # {}}
<1>15. 0 \in N
  <2>1. 0 \in 0 .. Len(log)
    BY <1>8
  <2> QED  BY <1>4, <1>13, <1>14, <2>1
<1>16. ASSUME NEW n \in Nat, n \in N
       PROVE  n + 1 \in N
  <2>1. SUFFICES ASSUME n + 1 <= Len(log) PROVE level[n + 1] \cap C # {}
    OBVIOUS
  <2>2. n + 1 \in 0 .. Len(log) /\ n + 1 # 0 /\ (n + 1) - 1 = n /\ n <= Len(log)
    BY <1>8, <2>1
  <2> QED  BY <1>13, <1>14, <1>16, <2>2
<1>17. Len(log) \in N
  <2> HIDE DEF N
  <2> QED  BY <1>8, <1>15, <1>16, Counting
<1> QED  BY <1>8, <1>12, <1>17

\* A row of the history: where it ends and how it got there.
LEMMA HistoryRows ==
    ASSUME BaseInv, EntriesOK, NEW u \in Ids, NEW w \in HistoryOf(u)
    PROVE  /\ w \in Seq(Entries) /\ w # <<>> /\ Len(w) \in 1 .. Len(w) /\ w[Len(w)] \in Entries
           /\ End(w).into \in Merged(u)
           /\ \/ w \in FirstRows(u)
              \/ \E j \in Merges : log[j].into \in Merged(u) /\ log[j].from = End(w).into
<1>1. \A e \in MergeEdges : e[2] \in Ids
  BY LogFacts
<1>2. /\ Merged(u) \subseteq Ids /\ u \in Merged(u)
      /\ \A e \in MergeEdges : e[1] \in Merged(u) => e[2] \in Merged(u)
  BY <1>1, ReachedClosed DEF Merged
<1> DEFINE Step(x) == \E j \in Merges : log[j].into \in Merged(u) /\ log[j].from = End(x).into
           P == {x \in Seq(Entries) : /\ x # <<>> /\ End(x).into \in Merged(u)
                                      /\ x \in FirstRows(u) \/ Step(x)}
<1>3. \A x \in Seq(Entries) : x # <<>> => Len(x) \in 1 .. Len(x) /\ x[Len(x)] \in Entries
  <2> SUFFICES ASSUME NEW x \in Seq(Entries), x # <<>>
               PROVE  Len(x) \in 1 .. Len(x) /\ x[Len(x)] \in Entries
    OBVIOUS
  <2>1. Len(x) \in Nat /\ Len(x) # 0
    BY EmptySeq
  <2> QED  BY <2>1
<1>4. FirstRows(u) \subseteq P
  <2> SUFFICES ASSUME NEW k \in Entries, log[k].into = u, log[k].kind # "unmerge",
                      <<k>> \in FirstRows(u)
               PROVE  <<k>> \in P
    BY DEF FirstRows
  <2>1. <<k>> \in Seq(Entries) /\ <<k>> # <<>> /\ End(<<k>>) = log[k]
    BY DEF End
  <2> QED  BY <1>2, <2>1
<1>5. ASSUME NEW X \in SUBSET P
      PROVE  RowsBelow(X) \subseteq P
  <2> SUFFICES ASSUME NEW x \in X, NEW k \in Entries, End(x).kind # "unmerge",
                      log[k].into = End(x).from
               PROVE  Append(x, k) \in P
    BY DEF RowsBelow
  <2>1. x \in Seq(Entries) /\ x # <<>> /\ End(x).into \in Merged(u)
    OBVIOUS
  <2>2. Append(x, k) \in Seq(Entries) /\ Append(x, k) # <<>> /\ End(Append(x, k)) = log[k]
    BY <2>1, AppendProperties DEF End
  <2> DEFINE j == x[Len(x)]
  <2>3. j \in Entries /\ End(x) = log[j]
    BY <1>3, <2>1 DEF End
  <2>4. j \in Merges
    BY <1>2, <2>1, <2>3, LogFacts DEF Merges, Kinds
  <2>5. log[j].from \in Merged(u)
    <3>1. Edge(log[j]) \in MergeEdges
      BY <2>4 DEF MergeEdges
    <3> QED  BY <1>2, <2>1, <2>3, <3>1 DEF Edge
  <2> QED  BY <2>1, <2>2, <2>3, <2>4, <2>5
<1> HIDE DEF P
<1>6. w \in P
  BY <1>4, <1>5, HistoryWithin
<1> QED  BY <1>3, <1>6 DEF P

\* The history is finite.
LEMMA HistoryFinite ==
    ASSUME BaseInv, EntriesOK, NEW u \in Ids
    PROVE  IsFiniteSet(HistoryOf(u)) /\ IsFiniteSet(Entries)
<1>1. PICK r : RowsTo(u, r) /\ HistoryOf(u) = r[HistoryDepth]
  BY HistoryDefined
<1>2. \A d \in 0 .. HistoryDepth : r[d] = IF d = 0 THEN FirstRows(u)
                                          ELSE r[d - 1] \cup RowsBelow(r[d - 1])
  BY <1>1 DEF RowsTo
<1>3. HistoryDepth \in Nat
  BY LineageBounds
<1>4. IsFiniteSet(Entries)
  <2>1. Entries = 1 .. Len(log) /\ Len(log) \in Int /\ 1 \in Int
    BY LogFacts
  <2> QED  BY <2>1, FS_Interval
<1>5. IsFiniteSet(FirstRows(u))
  <2> DEFINE K == {k \in Entries : log[k].into = u /\ log[k].kind # "unmerge"}
             f == [k \in K |-> <<k>>]
  <2>1. IsFiniteSet(K)
    BY <1>4, FS_Subset
  <2>2. f \in Surjection(K, FirstRows(u))
    BY DEF Surjection, FirstRows
  <2> HIDE DEF K, f
  <2> QED  BY <2>1, <2>2, FS_Surjection
<1>6. ASSUME NEW X, IsFiniteSet(X)
      PROVE  IsFiniteSet(RowsBelow(X))
  <2> DEFINE K == {x \in {v \in X : End(v).kind # "unmerge"} \X Entries :
                      log[x[2]].into = End(x[1]).from}
             f == [x \in K |-> Append(x[1], x[2])]
  <2>1. IsFiniteSet(X \X Entries)
    BY <1>4, <1>6, FS_Product
  <2>2. IsFiniteSet(K)
    <3>1. K \in SUBSET (X \X Entries)
      OBVIOUS
    <3> HIDE DEF K
    <3> QED  BY <2>1, <3>1, FS_Subset
  <2>3. f \in Surjection(K, RowsBelow(X))
    BY DEF Surjection, RowsBelow
  <2> HIDE DEF K, f
  <2> QED  BY <2>2, <2>3, FS_Surjection
<1> DEFINE S == {n \in Nat : n <= HistoryDepth => IsFiniteSet(r[n])}
<1>7. 0 \in S
  <2>1. 0 \in 0 .. HistoryDepth
    BY <1>3
  <2>2. r[0] = FirstRows(u)
    BY <1>2, <2>1
  <2> QED  BY <1>5, <2>2
<1>8. ASSUME NEW n \in Nat, n \in S
      PROVE  n + 1 \in S
  <2>1. SUFFICES ASSUME n + 1 <= HistoryDepth PROVE IsFiniteSet(r[n + 1])
    OBVIOUS
  <2>2. n + 1 \in 0 .. HistoryDepth /\ n + 1 # 0 /\ (n + 1) - 1 = n /\ n <= HistoryDepth
    BY <1>3, <2>1
  <2>3. r[n + 1] = r[n] \cup RowsBelow(r[n])
    BY <1>2, <2>2
  <2>4. IsFiniteSet(r[n])
    BY <1>8, <2>2
  <2>5. IsFiniteSet(RowsBelow(r[n]))
    BY <1>6, <2>4
  <2>6. IsFiniteSet(r[n] \cup RowsBelow(r[n]))
    BY <2>4, <2>5, FS_Union
  <2> QED  BY <2>3, <2>6
<1>9. HistoryDepth \in S
  <2> HIDE DEF S
  <2> QED  BY <1>3, <1>7, <1>8, Counting
<1> QED  BY <1>1, <1>3, <1>4, <1>9

\* The rows that end with y merged into u, and the merges they stand for.
RowsOf(u, y)   == {w \in HistoryOf(u) : Edge(End(w)) = <<u, y>>}
MergesTo(u, y) == {k \in MergesOf(y) : log[k].into = u}

(***************************************************************************)
(* A merge into u itself comes back at least once, and just once when u is *)
(* on no cycle.                                                            *)
(***************************************************************************)
LEMMA RowsCounted ==
    ASSUME BaseInv, EntriesOK, NEW u \in Ids, NEW y \in Ids
    PROVE  /\ Cardinality(RowsOf(u, y)) \in Nat /\ Cardinality(MergesTo(u, y)) \in Nat
           /\ Cardinality(MergesTo(u, y)) <= Cardinality(RowsOf(u, y))
           /\ Answers(u) => Cardinality(RowsOf(u, y)) = Cardinality(MergesTo(u, y))
<1> DEFINE f == [k \in MergesTo(u, y) |-> <<k>>]
<1>1. IsFiniteSet(RowsOf(u, y)) /\ IsFiniteSet(MergesTo(u, y))
  <2>1. RowsOf(u, y) \subseteq HistoryOf(u) /\ MergesTo(u, y) \subseteq Entries
    BY LogFacts DEF RowsOf, MergesTo, MergesOf
  <2> QED  BY <2>1, HistoryFinite, FS_Subset
<1>2. FirstRows(u) \subseteq HistoryOf(u)
  <2>1. PICK r : RowsTo(u, r) /\ HistoryOf(u) = r[HistoryDepth]
    BY HistoryDefined
  <2>2. 0 \in 0 .. HistoryDepth
    BY LineageBounds
  <2> QED  BY <2>1, <2>2, HistoryGrows
<1>3. \A k \in MergesTo(u, y) : <<k>> \in RowsOf(u, y)
  <2> SUFFICES ASSUME NEW k \in MergesTo(u, y) PROVE <<k>> \in RowsOf(u, y)
    OBVIOUS
  <2>1. /\ k \in Entries /\ log[k].into = u /\ log[k].from = y /\ log[k].kind = "merge"
    BY DEF MergesTo, MergesOf, Merges
  <2>2. <<k>> \in FirstRows(u) /\ End(<<k>>) = log[k]
    BY <2>1 DEF FirstRows, End
  <2> QED  BY <1>2, <2>1, <2>2 DEF RowsOf, Edge
<1>4. f \in Injection(MergesTo(u, y), RowsOf(u, y))
  <2>1. f \in [MergesTo(u, y) -> RowsOf(u, y)]
    BY <1>3
  <2>2. ASSUME NEW j \in MergesTo(u, y), NEW k \in MergesTo(u, y), f[j] = f[k]
        PROVE  j = k
    <3>1. <<j>> = <<k>>
      BY <2>2
    <3> QED  BY <3>1
  <2> HIDE DEF f
  <2> QED  BY <2>1, <2>2 DEF Injection, IsInjective
<1>5. ASSUME Answers(u)
      PROVE  f \in Surjection(MergesTo(u, y), RowsOf(u, y))
  <2> SUFFICES ASSUME NEW w \in RowsOf(u, y)
               PROVE  \E k \in MergesTo(u, y) : w = <<k>>
    BY <1>4 DEF Surjection, Injection
  <2>1. w \in HistoryOf(u) /\ End(w).into = u /\ End(w).from = y
    BY DEF RowsOf, Edge
  <2>2. w \in FirstRows(u)
    BY <1>5, <2>1, HistoryRows, NoCycle
  <2>3. PICK k \in Entries : w = <<k>> /\ log[k].into = u /\ log[k].kind # "unmerge"
    BY <2>2 DEF FirstRows
  <2>4. End(w) = log[k]
    BY <2>3 DEF End
  <2>5. k \in MergesTo(u, y)
    BY <2>1, <2>3, <2>4, LogFacts DEF MergesTo, MergesOf, Merges, Kinds
  <2> QED  BY <2>3, <2>5
<1> HIDE DEF f
<1>6. Cardinality(MergesTo(u, y)) <= Cardinality(RowsOf(u, y))
  BY <1>1, <1>4, FS_Injection
<1>7. Answers(u) => Cardinality(RowsOf(u, y)) <= Cardinality(MergesTo(u, y))
  BY <1>1, <1>5, FS_Surjection
<1>8. Cardinality(RowsOf(u, y)) \in Nat /\ Cardinality(MergesTo(u, y)) \in Nat
  BY <1>1, FS_CardinalityType
<1> QED  BY <1>6, <1>7, <1>8

\* The edges the sums leave: more rows than unmerges of the id.
LEMMA ChildrenAre ==
    ASSUME NEW u, NEW x, NEW y
    PROVE  <<x, y>> \in Children(u) <=>
             /\ \E w \in HistoryOf(u) : Edge(End(w)) = <<x, y>>
             /\ Cardinality({w \in HistoryOf(u) : Edge(End(w)) = <<x, y>>}) >
                Cardinality({k \in UnmergesAmong(HistoryOf(u), u) : log[k].from = y})
  BY DEF Children

\* Unmerges of an id the history came across are all found.
LEMMA UnmergesFound ==
    ASSUME NEW u, NEW y
    PROVE  /\ {k \in UnmergesAmong(HistoryOf(u), u) : log[k].from = y} \subseteq UnmergesOf(y)
           /\ (\E w \in HistoryOf(u) : End(w).from = y) =>
                {k \in UnmergesAmong(HistoryOf(u), u) : log[k].from = y} = UnmergesOf(y)
  BY DEF UnmergesAmong, UnmergesOf, Unmerges

\* The merges and unmerges of an id can be counted, and differ by one at most.
LEMMA CountsOf ==
    ASSUME BaseInv, HistoryInv, NEW y \in Ids
    PROVE  /\ IsFiniteSet(MergesOf(y)) /\ IsFiniteSet(UnmergesOf(y))
           /\ Cardinality(MergesOf(y)) \in Nat /\ Cardinality(UnmergesOf(y)) \in Nat
           /\ Cardinality(MergesOf(y)) = Cardinality(UnmergesOf(y)) + (IF IsMerged(y) THEN 1 ELSE 0)
<1>1. IsFiniteSet(Entries)
  BY HistoryFinite DEF HistoryInv
<1>2. MergesOf(y) \subseteq Entries /\ UnmergesOf(y) \subseteq Entries
  BY DEF MergesOf, UnmergesOf, Merges, Unmerges
<1>3. IsFiniteSet(MergesOf(y)) /\ IsFiniteSet(UnmergesOf(y))
  BY <1>1, <1>2, FS_Subset
<1> QED  BY <1>3, FS_CardinalityType DEF HistoryInv, Balanced

(***************************************************************************)
(* Plain: of what had been merged into u, what was unmerged had been       *)
(* merged into u itself, or else outside of all that.                      *)
(***************************************************************************)
LEMMA PlainIs ==
    ASSUME NEW u, Plain(u), NEW k \in Unmerges, log[k].from \in Merged(u), log[k].from # u,
           NEW j \in MergesOf(log[k].from)
    PROVE  \/ log[j].into = u
           \/ log[j].into \notin Merged(u) /\ ParentsByLog[log[k].from] # u
  BY DEF Plain, Merged, MergeEdges, MergesOf

\* The sets of ids in play.
LEMMA Reaches ==
    ASSUME BaseInv, EntriesOK, NEW u \in Ids
    PROVE  /\ Merged(u) \subseteq Ids /\ Tree(u) \subseteq Merged(u) /\ u \in Tree(u)
           /\ \A k \in Merges : log[k].into \in Merged(u) => log[k].from \in Merged(u)
           /\ \A k \in Live : log[k].into \in Tree(u) => log[k].from \in Tree(u)
           /\ \A i \in Merged(u) : Merged(i) \subseteq Merged(u)
<1>1. /\ \A e \in MergeEdges : e[2] \in Ids
      /\ LiveEdges \subseteq MergeEdges
  BY LogFacts
<1>2. Merged(u) \subseteq Ids /\ \A e \in MergeEdges : e[1] \in Merged(u) => e[2] \in Merged(u)
  BY <1>1, ReachedClosed DEF Merged
<1>3. u \in Tree(u) /\ \A e \in LiveEdges : e[1] \in Tree(u) => e[2] \in Tree(u)
  BY <1>1, ReachedClosed DEF Tree
<1>4. Tree(u) \subseteq Merged(u)
  BY <1>1, ReachedMore DEF Tree, Merged
<1>5. \A k \in Merges : log[k].into \in Merged(u) => log[k].from \in Merged(u)
  <2>1. \A k \in Merges : <<log[k].into, log[k].from>> \in MergeEdges
    BY DEF MergeEdges, Edge
  <2> QED  BY <1>2, <2>1
<1>6. \A k \in Live : log[k].into \in Tree(u) => log[k].from \in Tree(u)
  <2>1. \A k \in Live : <<log[k].into, log[k].from>> \in LiveEdges
    BY DEF LiveEdges, Edge
  <2> QED  BY <1>3, <2>1
<1>7. \A i \in Merged(u) : Merged(i) \subseteq Merged(u)
  BY <1>1, ReachedOn DEF Merged
<1> QED  BY <1>2, <1>3, <1>4, <1>5, <1>6, <1>7

\* An unmerge takes along nothing that is not part of the unmerged id.
LEMMA NothingElse ==
    ASSUME BaseInv, HistoryInv, NEW u \in Ids, Answers(u), Plain(u)
    PROVE  Descendants(u) \subseteq Tree(u)
<1> USE DEF HistoryInv
<1>1. /\ Merged(u) \subseteq Ids /\ Tree(u) \subseteq Merged(u) /\ u \in Tree(u)
      /\ \A k \in Merges : log[k].into \in Merged(u) => log[k].from \in Merged(u)
      /\ \A k \in Live : log[k].into \in Tree(u) => log[k].from \in Tree(u)
      /\ \A i \in Merged(u) : Merged(i) \subseteq Merged(u)
  BY Reaches
<1>2. ASSUME NEW e \in Children(u), e[1] \in Tree(u)
      PROVE  e[2] \in Tree(u)
  <2> DEFINE x == e[1]
             y == e[2]
  <2>1. PICK w \in HistoryOf(u) : e = Edge(End(w))
    BY DEF Children
  <2> DEFINE k == w[Len(w)]
  <2>2. k \in Entries /\ End(w) = log[k] /\ log[k].into = x /\ log[k].from = y
    BY <2>1, HistoryRows DEF End, Edge
  <2>3. x \in Ids /\ y \in Ids /\ x \in Merged(u) /\ log[k].kind # "delete" /\ e = <<x, y>>
    BY <1>1, <1>2, <2>1, <2>2, LogFacts DEF Edge
  <2> HIDE DEF x, y, k
  <2>4. k \in MergesOf(y) \/ k \in UnmergesOf(y)
    BY <2>2, <2>3, LogFacts DEF MergesOf, UnmergesOf, Merges, Unmerges, Kinds
  <2>5. PICK j \in MergesOf(y) : log[j].into \in Merged(x) /\ (k \in MergesOf(y) => j = k)
    <3>1. CASE k \in MergesOf(y)
      <4>1. x \in Merged(x)
        BY <2>3, Reaches
      <4> QED  BY <2>2, <3>1, <4>1
    <3>2. CASE k \notin MergesOf(y)
      BY <2>2, <2>3, <2>4, <3>2 DEF UnmergedBelow
    <3> QED  BY <3>1, <3>2
  <2>6. j \in Merges /\ log[j].from = y /\ log[j].into \in Merged(u) /\ y \in Merged(u)
    BY <1>1, <2>3, <2>5 DEF MergesOf
  <2>7. CASE y = u
    BY <1>1, <2>7 DEF y
  <2>8. CASE y # u /\ UnmergesOf(y) = {}
    <3>1. k \in MergesOf(y)
      BY <2>4, <2>8
    <3>2. k \in Live
      BY <2>3, <2>8, <3>1 DEF Undone
    <3> QED  BY <1>1, <1>2, <2>2, <3>2 DEF x, y
  <2>9. CASE y # u /\ UnmergesOf(y) # {}
    <3>1. PICK v \in Unmerges : log[v].from = y
      BY <2>9 DEF UnmergesOf
    <3>2. log[j].into = u
      BY <2>5, <2>6, <2>9, <3>1, PlainIs
    <3>3. x = u
      <4> SUFFICES ASSUME x # u PROVE FALSE
        OBVIOUS
      <4>1. \A d \in MergeEdges : d[2] \in Ids
        BY LogFacts
      <4>2. PICK d \in MergeEdges : d[2] = u /\ d[1] \in Merged(x)
        BY <2>3, <2>5, <3>2, <4>1, ReachedByEdge DEF Merged
      <4>3. PICK i \in Merges : log[i].from = u /\ log[i].into \in Merged(x)
        BY <4>2 DEF MergeEdges, Edge
      <4> QED  BY <1>1, <2>3, <4>3, NoCycle
    <3>4. Cardinality(MergesTo(u, y)) > Cardinality(UnmergesOf(y))
      <4>1. Cardinality(RowsOf(u, y)) = Cardinality(MergesTo(u, y))
        BY <2>3, RowsCounted
      <4>2. \E r \in HistoryOf(u) : End(r).from = y
        BY <2>2
      <4>3. {r \in HistoryOf(u) : Edge(End(r)) = <<u, y>>} = RowsOf(u, y)
        BY DEF RowsOf
      <4> QED  BY <1>2, <2>3, <3>3, <4>1, <4>2, <4>3, ChildrenAre, UnmergesFound
    <3>5. MergesTo(u, y) \subseteq MergesOf(y)
      BY DEF MergesTo
    <3>6. IsMerged(y) /\ MergesTo(u, y) = MergesOf(y)
      <4>1. /\ IsFiniteSet(MergesOf(y))
            /\ Cardinality(MergesOf(y)) \in Nat /\ Cardinality(UnmergesOf(y)) \in Nat
            /\ Cardinality(MergesOf(y)) =
                 Cardinality(UnmergesOf(y)) + (IF IsMerged(y) THEN 1 ELSE 0)
        BY <2>3, CountsOf
      <4>2. /\ Cardinality(MergesTo(u, y)) \in Nat
            /\ Cardinality(MergesTo(u, y)) <= Cardinality(MergesOf(y))
            /\ Cardinality(MergesTo(u, y)) = Cardinality(MergesOf(y)) => MergesTo(u, y) = MergesOf(y)
        BY <2>3, <3>5, <4>1, FS_Subset, RowsCounted
      <4> QED  BY <3>4, <4>1, <4>2
    <3>7. PICK i \in Live : log[i].from = y
      BY <3>6 DEF IsMerged
    <3>8. log[i].into = u
      BY <3>6, <3>7, LogFacts DEF MergesTo, MergesOf
    <3> QED  BY <1>1, <3>7, <3>8 DEF y
  <2> QED  BY <2>7, <2>8, <2>9
<1>3. Tree(u) \in SUBSET Ids
  BY <1>1
<1> QED  BY <1>1, <1>2, <1>3, ReachedSmallest DEF Descendants

(***************************************************************************)
(* It takes all of that along.  What is part of u was merged in the order  *)
(* of the way up, so no way down is longer than the history.               *)
(***************************************************************************)
LEMMA NothingLeft ==
    ASSUME BaseInv, HistoryInv, NEW u \in Ids, Plain(u), Len(log) <= HistoryDepth
    PROVE  Tree(u) \subseteq Descendants(u)
<1> USE DEF HistoryInv
<1>1. /\ Merged(u) \subseteq Ids /\ Tree(u) \subseteq Merged(u) /\ u \in Tree(u)
      /\ \A k \in Live : log[k].into \in Tree(u) => log[k].from \in Tree(u)
  BY Reaches
<1>2. PICK r : RowsTo(u, r) /\ HistoryOf(u) = r[HistoryDepth]
  BY HistoryDefined
<1>3. /\ r[0] = FirstRows(u)
      /\ \A d \in 0 .. HistoryDepth : r[d] \subseteq HistoryOf(u)
      /\ \A d \in 0 .. HistoryDepth : d + 1 <= HistoryDepth => RowsBelow(r[d]) \subseteq r[d + 1]
  BY <1>2, HistoryGrows
<1>4. HistoryDepth \in Nat /\ Len(log) \in Nat /\ Entries = 1 .. Len(log)
      /\ Live \subseteq Merges /\ Merges \subseteq Entries
  BY LineageBounds, LogFacts
<1> SUFFICES ASSUME NEW S \in Closed(Children(u)), u \in S PROVE Tree(u) \subseteq S
  BY <1>1 DEF Descendants, Reached
<1>5. S \subseteq Ids /\ \A e \in Children(u) : e[1] \in S => e[2] \in S
  BY DEF Closed
\* A row that ends with x standing merged, early enough to go on.
<1> DEFINE Found(x) == \E d \in 0 .. HistoryDepth : \E w \in r[d] :
                           /\ w \in Seq(Entries) /\ w[Len(w)] \in Live /\ End(w).from = x
                           /\ d + w[Len(w)] <= Len(log)
           T == {x \in Tree(u) : x \in S /\ (x = u \/ Found(x))}
<1>6. ASSUME NEW k \in Live, log[k].into \in T
      PROVE  log[k].from \in T
  <2> DEFINE x == log[k].into
             y == log[k].from
  <2>1. /\ x \in Ids /\ y \in Ids /\ x \in Tree(u) /\ y \in Tree(u) /\ k \in Merges
        /\ k \in Entries /\ log[k].kind = "merge"
    BY <1>1, <1>4, <1>6, LogFacts DEF Merges
  <2>2. Found(y)
    <3>1. CASE x = u
      <4>1. <<k>> \in r[0] /\ End(<<k>>) = log[k] /\ <<k>> \in Seq(Entries)
            /\ Len(<<k>>) = 1 /\ <<k>>[1] = k
        BY <1>3, <2>1, <3>1 DEF FirstRows, End
      <4>2. 0 \in 0 .. HistoryDepth /\ 0 + k <= Len(log)
        BY <1>4, <2>1
      <4> QED  BY <4>1, <4>2
    <3>2. CASE x # u
      <4>1. PICK d \in 0 .. HistoryDepth : \E w \in r[d] :
              /\ w \in Seq(Entries) /\ w[Len(w)] \in Live /\ End(w).from = x
              /\ d + w[Len(w)] <= Len(log)
        BY <1>6, <3>2
      <4>2. PICK w \in r[d] :
              /\ w \in Seq(Entries) /\ w[Len(w)] \in Live /\ End(w).from = x
              /\ d + w[Len(w)] <= Len(log)
        BY <4>1
      <4> DEFINE j == w[Len(w)]
      <4>3. j \in Live /\ End(w) = log[j] /\ log[j].from = x
        BY <4>2 DEF End
      <4>4. k < j
        BY <4>3 DEF Earlier
      <4>5. j \in Nat /\ k \in Nat /\ k >= 1 /\ d \in Nat /\ d + j <= Len(log)
        <5>1. j \in 1 .. Len(log) /\ k \in 1 .. Len(log)
          BY <1>4, <2>1, <4>3
        <5>2. d + j <= Len(log)
          BY <4>2
        <5> HIDE DEF j
        <5> QED  BY <1>4, <5>1, <5>2
      <4> HIDE DEF j
      <4>6. d + 1 \in 0 .. HistoryDepth /\ d + 1 <= HistoryDepth /\ (d + 1) + k <= Len(log)
        BY <1>4, <4>4, <4>5
      <4>7. End(w).kind # "unmerge" /\ log[k].into = End(w).from
        BY <1>4, <4>3 DEF Merges
      <4>8. Append(w, k) \in r[d + 1]
        <5>1. Append(w, k) \in RowsBelow(r[d])
          <6>1. <<w, k>> \in {v \in {z \in r[d] : End(z).kind # "unmerge"} \X Entries :
                                log[v[2]].into = End(v[1]).from}
            BY <2>1, <4>2, <4>7
          <6>2. Append(w, k) = Append(<<w, k>>[1], <<w, k>>[2])
            OBVIOUS
          <6> QED  BY <6>1, <6>2 DEF RowsBelow
        <5> QED  BY <1>3, <4>6, <5>1
      <4>9. /\ Append(w, k) \in Seq(Entries) /\ Len(Append(w, k)) = Len(w) + 1
            /\ Append(w, k)[Len(w) + 1] = k /\ End(Append(w, k)) = log[k]
        BY <2>1, <4>2, AppendProperties DEF End
      <4> QED  BY <1>6, <4>6, <4>8, <4>9
    <3> QED  BY <3>1, <3>2
  <2>3. PICK w \in HistoryOf(u) : End(w) = log[k]
    <3>1. PICK d \in 0 .. HistoryDepth : \E w \in r[d] :
            /\ w \in Seq(Entries) /\ w[Len(w)] \in Live /\ End(w).from = y
            /\ d + w[Len(w)] <= Len(log)
      BY <2>2
    <3>2. PICK w \in r[d] : w[Len(w)] \in Live /\ End(w).from = y
      BY <3>1
    <3>3. w[Len(w)] = k
      BY <1>6, <3>2, LiveOnce DEF End
    <3> QED  BY <1>3, <3>1, <3>2, <3>3 DEF End
  <2>4. y \in S
    <3>1. CASE y = u
      BY <3>1
    <3>2. CASE y # u
      <4>1. <<x, y>> \in Children(u)
        <5> DEFINE rows == {v \in HistoryOf(u) : Edge(End(v)) = <<x, y>>}
                   undone == {v \in UnmergesAmong(HistoryOf(u), u) : log[v].from = y}
        <5>1. /\ IsFiniteSet(rows) /\ Cardinality(rows) \in Nat /\ rows # {}
          <6>1. IsFiniteSet(rows)
            BY HistoryFinite, FS_Subset
          <6> QED  BY <2>3, <6>1, FS_CardinalityType DEF Edge
        <5>2. /\ IsFiniteSet(undone) /\ Cardinality(undone) \in Nat
              /\ Cardinality(undone) <= Cardinality(UnmergesOf(y))
          <6>1. undone \subseteq UnmergesOf(y)
            BY UnmergesFound
          <6>2. IsFiniteSet(UnmergesOf(y))
            BY <2>1, CountsOf
          <6> HIDE DEF undone
          <6> QED  BY <6>1, <6>2, FS_Subset, FS_CardinalityType
        <5>3. Cardinality(rows) > Cardinality(undone)
          <6>1. CASE UnmergesOf(y) = {}
            <7>1. Cardinality(UnmergesOf(y)) = 0
              BY <6>1, FS_EmptySet
            <7>2. Cardinality(rows) # 0
              <8> HIDE DEF rows
              <8> QED  BY <5>1, FS_EmptySet
            <7> HIDE DEF rows, undone
            <7> QED  BY <5>1, <5>2, <7>1, <7>2
          <6>2. CASE UnmergesOf(y) # {}
            <7>1. PICK v \in Unmerges : log[v].from = y
              BY <6>2 DEF UnmergesOf
            <7>2. k \in MergesOf(y)
              BY <2>1 DEF MergesOf
            <7>3. y \in Merged(u) /\ x \in Merged(u)
              BY <1>1, <2>1
            <7>4. x = u
              BY <3>2, <7>1, <7>2, <7>3, PlainIs
            <7>5. ParentsByLog[y] = u
              BY <1>6, <2>1, <7>4, ParentIs
            <7>6. MergesTo(u, y) = MergesOf(y)
              BY <3>2, <7>1, <7>3, <7>5, PlainIs DEF MergesTo
            <7>7. IsMerged(y)
              BY <1>6 DEF IsMerged
            <7>8. Cardinality(MergesTo(u, y)) <= Cardinality(RowsOf(u, y))
              BY <2>1, RowsCounted
            <7>9. rows = RowsOf(u, y)
              BY <7>4 DEF RowsOf
            <7>10. /\ Cardinality(MergesOf(y)) = Cardinality(UnmergesOf(y)) + 1
                   /\ Cardinality(UnmergesOf(y)) \in Nat
              BY <2>1, <7>7, CountsOf
            <7> HIDE DEF rows, undone
            <7> QED  BY <5>1, <5>2, <7>6, <7>8, <7>9, <7>10
          <6> QED  BY <6>1, <6>2
        <5> QED  BY <2>3, <5>3, ChildrenAre DEF Edge
      <4> QED  BY <1>5, <1>6, <4>1
    <3> QED  BY <3>1, <3>2
  <2> QED  BY <2>1, <2>2, <2>4
<1>7. \A e \in LiveEdges : e[1] \in T => e[2] \in T
  <2> HIDE DEF T
  <2> QED  BY <1>6 DEF LiveEdges, Edge
<1>8. T \in SUBSET Ids /\ u \in T
  BY <1>1
<1>9. Tree(u) \subseteq T
  <2> HIDE DEF T
  <2> QED  BY <1>7, <1>8, ReachedSmallest DEF Tree
<1> QED  BY <1>9

----------------------------------------------------------------------------
(* One more entry *)

\* Entry n of the history says that from was merged, unmerged or deleted.
Recorded(kind, into, from, n) ==
    /\ n \in Nat /\ Len(log') = n /\ n \notin Entries /\ Entries' = Entries \cup {n}
    /\ \A k \in Entries : k < n /\ log'[k] = log[k]
    /\ log'[n].kind = kind /\ log'[n].into = into /\ log'[n].from = from
    /\ Merges' = Merges \cup {x \in {n} : kind = "merge"}
    /\ Unmerges' = Unmerges \cup {x \in {n} : kind = "unmerge"}
    /\ Live' = {k \in Live : log[k].from # from} \cup {x \in {n} : kind = "merge"}

\* It is the last word on that id, and nothing else changes.
LEMMA AppendFacts ==
    ASSUME BaseInv, NEW kind \in Kinds, NEW into \in Ids \cup {NoId}, NEW from \in Ids,
           log' = Append(log, Entry(kind, into, from))
    PROVE  Recorded(kind, into, from, Len(log) + 1)
<1> DEFINE n == Len(log) + 1
<1> DEFINE R == [kind : Kinds, into : Ids \cup {NoId}, from : Ids]
<1>1. log \in Seq(R) /\ Entry(kind, into, from) \in R
  BY DEF BaseInv, TypeOK, Entry
<1>2. /\ Entries = 1 .. Len(log) /\ Len(log) \in Nat
      /\ Len(log') = n /\ log'[n] = Entry(kind, into, from)
      /\ \A k \in 1 .. Len(log) : log'[k] = log[k]
      /\ log' \in Seq(R)
  <2> HIDE DEF R
  <2> QED  BY <1>1, AppendProperties DEF Entries
<1>3. Entries' = 1 .. n
  <2> HIDE DEF R
  <2> QED  BY <1>2 DEF Entries
<1> HIDE DEF R
<1>4. /\ n \in Nat /\ n \notin Entries /\ Entries' = Entries \cup {n}
      /\ \A k \in Entries : k < n /\ k \in Nat
  BY <1>2, <1>3
<1>5. log'[n].kind = kind /\ log'[n].into = into /\ log'[n].from = from
  BY <1>2 DEF Entry
<1>6. /\ Merges' = Merges \cup {x \in {n} : kind = "merge"}
      /\ Unmerges' = Unmerges \cup {x \in {n} : kind = "unmerge"}
  BY <1>2, <1>4, <1>5 DEF Merges, Unmerges
<1>7. \A k \in Merges : k \in Entries /\ k + 1 .. n = (k + 1 .. Len(log)) \cup {n}
  <2>1. Merges \subseteq Entries
    BY DEF Merges
  <2> QED  BY <1>2, <1>4, <2>1
<1>8. ASSUME NEW k \in Merges
      PROVE  k \in Live' <=> k \in Live /\ log[k].from # from
  <2>1. k \in Merges' /\ log'[k] = log[k]
    BY <1>2, <1>6, <1>7
  <2>2. \A j \in k + 1 .. Len(log) : log'[j] = log[j]
    BY <1>2, <1>4, <1>7
  <2> QED  BY <1>2, <1>5, <1>7, <2>1, <2>2 DEF Live
<1>9. n \in Live' <=> kind = "merge"
  <2>1. n + 1 .. n = {}
    BY <1>4
  <2>2. n \notin Merges
    BY <1>4 DEF Merges
  <2> QED  BY <1>2, <1>6, <2>1, <2>2 DEF Live
<1>10. Live' \subseteq Merges' /\ Live \subseteq Merges
  BY DEF Live
<1>11. Live' = {k \in Live : log[k].from # from} \cup {x \in {n} : kind = "merge"}
  BY <1>6, <1>8, <1>9, <1>10
<1> HIDE DEF n
<1>12. Recorded(kind, into, from, n)
  BY <1>2, <1>4, <1>5, <1>6, <1>11 DEF Recorded
<1> QED  BY <1>12 DEF n

\* The ids that are merged after it.
MergedNext(kind, from) ==
    \A i \in Ids : IsMerged(i)' <=> (i = from /\ kind = "merge") \/ (i # from /\ IsMerged(i))

\* What becomes of the sets made of the entries.
LEMMA AppendSets ==
    ASSUME BaseInv, EntriesOK, NEW kind \in Kinds, NEW into \in Ids \cup {NoId}, NEW from \in Ids,
           log' = Append(log, Entry(kind, into, from)), into = NoId <=> kind = "delete"
    PROVE  /\ MergeEdges \subseteq MergeEdges'
           /\ \A e \in MergeEdges' : e[2] \in Ids
           /\ \A e \in LiveEdges : e[2] # from => e \in LiveEdges'
           /\ kind = "merge" => <<into, from>> \in LiveEdges'
           /\ \A e \in LiveEdges' : e[1] \in Ids /\ e[2] \in Ids
           /\ MergedNext(kind, from)
           /\ \A i \in Ids : Merged(i) \subseteq Merged(i)'
<1> DEFINE n == Len(log) + 1
<1>1. /\ n \in Nat /\ Len(log') = n /\ n \notin Entries /\ Entries' = Entries \cup {n}
      /\ \A k \in Entries : k < n /\ log'[k] = log[k]
      /\ log'[n].kind = kind /\ log'[n].into = into /\ log'[n].from = from
      /\ Merges' = Merges \cup {x \in {n} : kind = "merge"}
      /\ Unmerges' = Unmerges \cup {x \in {n} : kind = "unmerge"}
      /\ Live' = {k \in Live : log[k].from # from} \cup {x \in {n} : kind = "merge"}
  <2>1. Recorded(kind, into, from, n)
    BY AppendFacts
  <2> QED  BY <2>1 DEF Recorded
<1> HIDE DEF n
<1>2. /\ Merges \subseteq Entries /\ Live \subseteq Merges
      /\ \A k \in Merges : log[k].into \in Ids /\ log[k].from \in Ids
      /\ \A e \in MergeEdges : e[1] \in Ids /\ e[2] \in Ids
  BY LogFacts
<1>3. MergeEdges \subseteq MergeEdges'
  BY <1>1, <1>2 DEF MergeEdges, Edge
<1>4. \A k \in Merges' : log'[k].into \in Ids /\ log'[k].from \in Ids
  BY <1>1, <1>2, IdFacts
<1>5. \A e \in MergeEdges' : e[2] \in Ids
  <2> SUFFICES ASSUME NEW e \in MergeEdges' PROVE e[2] \in Ids
    OBVIOUS
  <2>1. PICK k \in Merges' : e = <<log'[k].into, log'[k].from>>
    BY DEF MergeEdges, Edge
  <2> QED  BY <1>4, <2>1
<1>6. Live' \subseteq Merges'
  BY DEF Live
<1>7. \A e \in LiveEdges' : e[1] \in Ids /\ e[2] \in Ids
  <2> SUFFICES ASSUME NEW e \in LiveEdges' PROVE e[1] \in Ids /\ e[2] \in Ids
    OBVIOUS
  <2>1. PICK k \in Live' : e = <<log'[k].into, log'[k].from>>
    BY DEF LiveEdges, Edge
  <2> QED  BY <1>4, <1>6, <2>1
<1>8. ASSUME NEW e \in LiveEdges, e[2] # from
      PROVE  e \in LiveEdges'
  <2>1. PICK k \in Live : e = <<log[k].into, log[k].from>>
    BY DEF LiveEdges, Edge
  <2>2. k \in Live' /\ log'[k] = log[k]
    BY <1>1, <1>2, <1>8, <2>1
  <2> QED  BY <2>1, <2>2 DEF LiveEdges, Edge
<1>9. kind = "merge" => <<into, from>> \in LiveEdges'
  BY <1>1 DEF LiveEdges, Edge
<1>10. ASSUME NEW i \in Ids
       PROVE  IsMerged(i)' <=> (i = from /\ kind = "merge") \/ (i # from /\ IsMerged(i))
  <2>1. CASE i = from
    <3>1. \A k \in Live' : log'[k].from = i => kind = "merge"
      BY <1>1, <1>2, <2>1
    <3>2. kind = "merge" => n \in Live' /\ log'[n].from = i
      BY <1>1, <2>1
    <3> QED  BY <2>1, <3>1, <3>2 DEF IsMerged
  <2>2. CASE i # from
    <3>1. \A k \in Live : log[k].from = i => k \in Live' /\ log'[k].from = i
      BY <1>1, <1>2, <2>2
    <3>2. \A k \in Live' : log'[k].from = i => k \in Live /\ log[k].from = i
      BY <1>1, <1>2, <2>2
    <3> QED  BY <2>2, <3>1, <3>2 DEF IsMerged
  <2> QED  BY <2>1, <2>2
<1>11. ASSUME NEW i \in Ids
       PROVE  Merged(i) \subseteq Merged(i)'
  <2>1. Merged(i)' = Reached(MergeEdges', i)
    BY DEF Merged, Reached, Closed
  <2> QED  BY <1>3, <1>5, <2>1, ReachedMore DEF Merged
<1>12. MergedNext(kind, from)
  BY <1>10 DEF MergedNext
<1> QED  BY <1>3, <1>5, <1>7, <1>8, <1>9, <1>11, <1>12

\* An entry that says what happened keeps the history in order.
LEMMA HistoryStep ==
    ASSUME BaseInv, HistoryInv, NEW kind \in Kinds, NEW into \in Ids \cup {NoId}, NEW from \in Ids,
           log' = Append(log, Entry(kind, into, from)), into = NoId <=> kind = "delete",
           Spent' = Spent + 1, Spent < MaxOperations,
           nextId' \in Nat, nextId <= nextId', from < nextId',
           kind = "merge" => ~IsMerged(from) /\ ~IsMerged(into) /\ from # into,
           kind = "delete" => ~IsMerged(from),
           kind = "unmerge" => IsMerged(from) /\ \E j \in MergesOf(from) : log[j].into \in Merged(into)
    PROVE  HistoryInv'
<1> USE DEF HistoryInv
<1> DEFINE n == Len(log) + 1
<1>1. /\ n \in Nat /\ Len(log') = n /\ n \notin Entries /\ Entries' = Entries \cup {n}
      /\ \A k \in Entries : k < n /\ log'[k] = log[k]
      /\ log'[n].kind = kind /\ log'[n].into = into /\ log'[n].from = from
      /\ Merges' = Merges \cup {x \in {n} : kind = "merge"}
      /\ Unmerges' = Unmerges \cup {x \in {n} : kind = "unmerge"}
      /\ Live' = {k \in Live : log[k].from # from} \cup {x \in {n} : kind = "merge"}
  <2>1. Recorded(kind, into, from, n)
    BY AppendFacts
  <2> QED  BY <2>1 DEF Recorded
<1>2. LogShort'
  <2>1. Spent \in Nat
    BY DEF Spent, BaseInv, TypeOK, Operations, Kinds
  <2>2. MaxOperations \in Nat
    BY LineageBounds
  <2>3. Len(log) \in Nat
    BY DEF BaseInv, TypeOK
  <2> QED  BY <1>1, <2>1, <2>2, <2>3 DEF LogShort
<1> HIDE DEF n
<1>3. /\ Merges \subseteq Entries /\ Live \subseteq Merges /\ Unmerges \subseteq Entries
      /\ \A k \in Merges \cup Unmerges : log[k].into \in Ids /\ log[k].from \in Ids
      /\ \A k \in Entries : log[k].from \in Ids
  BY LogFacts
<1>4. /\ \A i \in Ids : IsMerged(i)' <=> (i = from /\ kind = "merge") \/ (i # from /\ IsMerged(i))
      /\ \A i \in Ids : Merged(i) \subseteq Merged(i)'
  <2>1. MergedNext(kind, from) /\ \A i \in Ids : Merged(i) \subseteq Merged(i)'
    BY AppendSets
  <2> QED  BY <2>1 DEF MergedNext
<1>5. EntriesOK'
  <2>1. ASSUME NEW k \in Entries
        PROVE  log'[k].from < nextId' /\ (log'[k].into = NoId <=> log'[k].kind = "delete")
    <3>1. log'[k] = log[k] /\ log[k].from \in Nat /\ nextId \in Nat
      BY <1>1, <1>3, IdFacts
    <3>2. log[k].from < nextId /\ (log[k].into = NoId <=> log[k].kind = "delete")
      BY DEF EntriesOK
    <3> QED  BY <3>1, <3>2
  <2>2. log'[n].from < nextId' /\ (log'[n].into = NoId <=> log'[n].kind = "delete")
    BY <1>1
  <2>3. \A k \in Entries' : log'[k].from < nextId' /\ (log'[k].into = NoId <=> log'[k].kind = "delete")
    BY <1>1, <2>1, <2>2
  <2> QED  BY <2>3 DEF EntriesOK
<1>6. /\ \A i \in Ids : MergesOf(i)' = MergesOf(i) \cup {x \in {n} : kind = "merge" /\ i = from}
      /\ \A i \in Ids : UnmergesOf(i)' = UnmergesOf(i) \cup {x \in {n} : kind = "unmerge" /\ i = from}
  <2>1. ASSUME NEW i \in Ids
        PROVE  MergesOf(i)' = MergesOf(i) \cup {x \in {n} : kind = "merge" /\ i = from}
    BY <1>1, <1>3 DEF MergesOf
  <2>2. ASSUME NEW i \in Ids
        PROVE  UnmergesOf(i)' = UnmergesOf(i) \cup {x \in {n} : kind = "unmerge" /\ i = from}
    BY <1>1, <1>3 DEF UnmergesOf
  <2> QED  BY <2>1, <2>2
<1>7. Balanced'
  <2> SUFFICES ASSUME NEW i \in Ids
               PROVE  Cardinality(MergesOf(i)') =
                        Cardinality(UnmergesOf(i)') + (IF IsMerged(i)' THEN 1 ELSE 0)
    BY DEF Balanced
  <2>1. /\ IsFiniteSet(MergesOf(i)) /\ IsFiniteSet(UnmergesOf(i))
        /\ Cardinality(MergesOf(i)) \in Nat /\ Cardinality(UnmergesOf(i)) \in Nat
        /\ Cardinality(MergesOf(i)) = Cardinality(UnmergesOf(i)) + (IF IsMerged(i) THEN 1 ELSE 0)
    BY CountsOf
  <2>2. n \notin MergesOf(i) /\ n \notin UnmergesOf(i)
    BY <1>1, <1>3 DEF MergesOf, UnmergesOf
  <2>3. CASE i # from \/ kind = "delete"
    <3>1. MergesOf(i)' = MergesOf(i) /\ UnmergesOf(i)' = UnmergesOf(i)
      BY <1>6, <2>3
    <3>2. IsMerged(i)' <=> IsMerged(i)
      BY <1>4, <2>3
    <3> QED  BY <2>1, <3>1, <3>2
  <2>4. CASE i = from /\ kind = "merge"
    <3>1. MergesOf(i)' = MergesOf(i) \cup {n} /\ UnmergesOf(i)' = UnmergesOf(i)
      BY <1>6, <2>4
    <3>2. Cardinality(MergesOf(i)') = Cardinality(MergesOf(i)) + 1
      BY <2>1, <2>2, <3>1, FS_AddElement
    <3>3. IsMerged(i)' /\ ~IsMerged(i)
      BY <1>4, <2>4
    <3> QED  BY <2>1, <3>1, <3>2, <3>3
  <2>5. CASE i = from /\ kind = "unmerge"
    <3>1. UnmergesOf(i)' = UnmergesOf(i) \cup {n} /\ MergesOf(i)' = MergesOf(i)
      BY <1>6, <2>5
    <3>2. Cardinality(UnmergesOf(i)') = Cardinality(UnmergesOf(i)) + 1
      BY <2>1, <2>2, <3>1, FS_AddElement
    <3>3. ~IsMerged(i)' /\ IsMerged(i)
      BY <1>4, <2>5
    <3> QED  BY <2>1, <3>1, <3>2, <3>3
  <2> QED  BY <2>3, <2>4, <2>5 DEF Kinds
<1>8. Undone'
  <2> SUFFICES ASSUME NEW i \in Ids, UnmergesOf(i)' = {}, NEW k \in MergesOf(i)'
               PROVE  k \in Live'
    BY DEF Undone
  <2>1. UnmergesOf(i) = {} /\ (i = from => kind # "unmerge")
    BY <1>6
  <2>2. CASE k \in MergesOf(i)
    <3>1. k \in Live /\ log[k].from = i
      BY <2>1, <2>2 DEF Undone, MergesOf
    <3>2. i # from
      BY <2>1, <3>1 DEF IsMerged, Kinds
    <3> QED  BY <1>1, <3>1, <3>2
  <2>3. CASE k \notin MergesOf(i)
    BY <1>1, <1>6, <2>3
  <2> QED  BY <2>2, <2>3
<1>9. UnmergedBelow'
  <2> SUFFICES ASSUME NEW i \in Ids, NEW m \in Ids, NEW k \in UnmergesOf(i)', log'[k].into = m
               PROVE  \E j \in MergesOf(i)' : log'[j].into \in Merged(m)'
    BY DEF UnmergedBelow
  <2>1. PICK j \in MergesOf(i) : log[j].into \in Merged(m)
    <3>1. CASE k \in UnmergesOf(i)
      <4>1. k \in Entries
        BY <1>3, <3>1 DEF UnmergesOf
      <4>2. log[k].into = m
        BY <1>1, <4>1
      <4> QED  BY <3>1, <4>2 DEF UnmergedBelow
    <3>2. CASE k \notin UnmergesOf(i)
      <4>1. i = from /\ kind = "unmerge" /\ k = n
        BY <1>6, <3>2
      <4>2. m = into
        BY <1>1, <4>1
      <4> QED  BY <4>1, <4>2
    <3> QED  BY <3>1, <3>2
  <2>2. j \in Entries
    BY <1>3, <2>1 DEF MergesOf
  <2>3. j \in MergesOf(i)' /\ log'[j] = log[j] /\ Merged(m) \subseteq Merged(m)'
    BY <1>1, <1>4, <1>6, <2>1, <2>2
  <2> QED  BY <2>1, <2>3
<1>10. Earlier'
  <2> SUFFICES ASSUME NEW j \in Live', NEW k \in Live', log'[j].into = log'[k].from
               PROVE  j < k
    BY DEF Earlier
  <2>1. CASE j \in Live /\ k \in Live
    BY <1>1, <1>3, <2>1 DEF Earlier
  <2>2. CASE j \in Live /\ k \notin Live
    BY <1>1, <1>3, <2>2
  <2>3. CASE j \notin Live
    <3>1. j = n /\ kind = "merge" /\ log'[k].from = into
      BY <1>1, <2>3
    <3>2. k \in Live /\ log[k].from = into
      BY <1>1, <1>3, <3>1
    <3> QED  BY <3>1, <3>2 DEF IsMerged
  <2> QED  BY <2>1, <2>2, <2>3
<1> QED  BY <1>2, <1>5, <1>7, <1>8, <1>9, <1>10

----------------------------------------------------------------------------
(* Every operation keeps the forest *)

TreeInv == HistoryInv /\ Tops

\* The tree of an id after a step: its edges are those that stand then.
LEMMA TreeNext ==
    ASSUME \A e \in LiveEdges' : e[1] \in Ids /\ e[2] \in Ids, NEW i \in Ids
    PROVE  /\ Tree(i)' \subseteq Ids /\ i \in Tree(i)'
           /\ \A e \in LiveEdges' : e[1] \in Tree(i)' => e[2] \in Tree(i)'
           /\ \A S \in SUBSET Ids : i \in S /\ (\A e \in LiveEdges' : e[1] \in S => e[2] \in S)
                                      => Tree(i)' \subseteq S
           /\ \A j \in Tree(i)' : Tree(j)' \subseteq Tree(i)'
<1>1. \A j : Tree(j)' = Reached(LiveEdges', j)
  BY DEF Tree, Reached, Closed
<1>2. /\ Tree(i)' \subseteq Ids /\ i \in Tree(i)'
      /\ \A e \in LiveEdges' : e[1] \in Tree(i)' => e[2] \in Tree(i)'
  BY <1>1, ReachedClosed
<1>3. \A S \in SUBSET Ids : i \in S /\ (\A e \in LiveEdges' : e[1] \in S => e[2] \in S)
                              => Tree(i)' \subseteq S
  BY <1>1, ReachedSmallest
<1>4. \A j \in Tree(i)' : Tree(j)' \subseteq Tree(i)'
  BY <1>1, ReachedOn
<1> QED  BY <1>2, <1>3, <1>4

\* With more edges, more is part of it.
LEMMA TreeMore ==
    ASSUME \A e \in LiveEdges' : e[1] \in Ids /\ e[2] \in Ids, LiveEdges \subseteq LiveEdges',
           NEW i \in Ids
    PROVE  Tree(i) \subseteq Tree(i)'
<1>1. /\ Tree(i)' \subseteq Ids /\ i \in Tree(i)'
      /\ \A e \in LiveEdges : e[1] \in Tree(i)' => e[2] \in Tree(i)'
  BY TreeNext
<1> QED  BY <1>1, ReachedSmallest DEF Tree

\* A step that records nothing leaves the history and the trees as they are.
LEMMA NothingRecorded ==
    ASSUME HistoryInv, log' = log, used' = used, nextId \in Nat, nextId' \in Nat,
           nextId <= nextId', \A k \in Entries : log[k].from \in Nat
    PROVE  /\ HistoryInv' /\ ParentsByLog' = ParentsByLog
           /\ \A i \in Ids : Tree(i)' = Tree(i) /\ (IsMerged(i)' <=> IsMerged(i))
<1>1. Entries' = Entries
  BY DEF Entries
<1>2. Merges' = Merges /\ Unmerges' = Unmerges
  BY <1>1 DEF Merges, Unmerges
<1>3. Live' = Live
  BY <1>2 DEF Live
<1>4. MergeEdges' = MergeEdges /\ LiveEdges' = LiveEdges /\ ParentsByLog' = ParentsByLog
  BY <1>2, <1>3 DEF MergeEdges, LiveEdges, Edge, ParentsByLog
<1>5. ASSUME NEW i \in Ids
      PROVE  /\ Tree(i)' = Tree(i) /\ (IsMerged(i)' <=> IsMerged(i))
             /\ Merged(i)' = Merged(i)
             /\ MergesOf(i)' = MergesOf(i) /\ UnmergesOf(i)' = UnmergesOf(i)
  BY <1>2, <1>3, <1>4 DEF Tree, Merged, Reached, Closed, IsMerged, MergesOf, UnmergesOf
<1>6. HistoryInv'
  <2>1. EntriesOK'
    BY <1>1 DEF HistoryInv, EntriesOK
  <2>2. Balanced'
    BY <1>5 DEF HistoryInv, Balanced
  <2>3. Undone'
    BY <1>3, <1>5 DEF HistoryInv, Undone
  <2>4. UnmergedBelow'
    BY <1>5 DEF HistoryInv, UnmergedBelow
  <2>5. Earlier'
    BY <1>3 DEF HistoryInv, Earlier
  <2>6. LogShort'
    BY DEF HistoryInv, LogShort, Spent
  <2> QED  BY <2>1, <2>2, <2>3, <2>4, <2>5, <2>6 DEF HistoryInv
<1> QED  BY <1>4, <1>5, <1>6

\* What is spent by an operation is counted.
LEMMA SpendFacts ==
    ASSUME BaseInv, NEW op \in Operations, Spend(op)
    PROVE  Spent' = Spent + 1 /\ Spent < MaxOperations
<1>1. /\ Spent < MaxOperations /\ used' = [used EXCEPT ![op] = @ + 1]
      /\ used \in [{"merge", "unmerge", "delete", "match"} -> Nat]
      /\ op \in {"merge", "unmerge", "delete", "match"}
  BY DEF Spend, BaseInv, TypeOK, Operations, Kinds
<1> QED  BY <1>1 DEF Spent

\* A profile and the id of a row, as the trees have them.
LEMMA TopFacts ==
    ASSUME BaseInv, TreeInv
    PROVE  /\ \A p \in Rows : /\ connect[p] \in Ids /\ original[p] \in Ids
                              /\ connect[p] < nextId /\ original[p] < nextId
                              /\ ~IsMerged(connect[p]) /\ original[p] \in Tree(connect[p])
           /\ \A c \in Current : c \in Ids /\ c < nextId /\ ~IsMerged(c)
           /\ nextId \in Nat /\ \A i \in Ids : IsMerged(i) => i < nextId
           /\ \A i \in Ids : i >= nextId => ~\E k \in Entries : log[k].from = i
           /\ \A k \in Entries : log[k].from \in Nat
<1>1. \A p \in Rows : /\ connect[p] \in Ids /\ original[p] \in Ids
                      /\ connect[p] < nextId /\ original[p] < nextId
                      /\ ~IsMerged(connect[p]) /\ original[p] \in Tree(connect[p])
  BY IdFacts DEF TreeInv, Tops, BaseInv, RowsOK
<1>2. \A c \in Current : c \in Ids /\ c < nextId /\ ~IsMerged(c)
  BY <1>1 DEF Current
<1>3. nextId \in Nat /\ Ids \subseteq Nat
  BY IdFacts
<1>4. \A k \in Entries : log[k].from \in Ids /\ log[k].from < nextId
  BY LogFacts DEF TreeInv, HistoryInv, EntriesOK
<1>5. Live \subseteq Entries
  BY DEF Live, Merges
<1>6. \A i \in Ids : IsMerged(i) => i < nextId
  BY <1>4, <1>5 DEF IsMerged
<1>7. \A i \in Ids : i >= nextId => ~\E k \in Entries : log[k].from = i
  BY <1>3, <1>4
<1> QED  BY <1>1, <1>2, <1>3, <1>4, <1>6, <1>7

\* What is to be shown of every row of the next state.
LEMMA TopsNext ==
    ASSUME \A p \in Rows' : \A c : c = connect'[p] =>
               c < nextId' /\ ~IsMerged(c)' /\ original'[p] \in Tree(c)'
    PROVE  Tops'
  BY DEF Tops, IsMerged, Tree, Reached

\* A put of a profile_id that is known or matches no profile.
LEMMA PutTree ==
    ASSUME BaseInv, TreeInv, NEW o \in Facts, PutKnown(o) \/ Put(o)
    PROVE  TreeInv' /\ ParentsByLog' = ParentsByLog
<1>1. /\ log' = log /\ used' = used /\ nextId \in Nat /\ nextId' \in Nat /\ nextId <= nextId'
  BY IdFacts DEF PutKnown, Put, PutNew
<1>2. \A p \in Rows : /\ connect[p] \in Ids /\ connect[p] < nextId
                      /\ ~IsMerged(connect[p]) /\ original[p] \in Tree(connect[p])
  BY TopFacts
<1>3. /\ HistoryInv' /\ ParentsByLog' = ParentsByLog
      /\ \A i \in Ids : Tree(i)' = Tree(i) /\ (IsMerged(i)' <=> IsMerged(i))
  BY <1>1, NothingRecorded, TopFacts DEF TreeInv
<1>4. CASE PutKnown(o)
  <2>1. Rows' = Rows /\ connect' = connect /\ original' = original
    BY <1>4 DEF PutKnown, Rows
  <2>2. Tops'
    BY <1>1, <1>2, <1>3, <2>1, IdFacts DEF Tops
  <2> QED  BY <1>3, <2>2 DEF TreeInv
<1>5. CASE Put(o)
  <2>1. nextId \in Ids
    BY <1>1, <1>5 DEF Put, PutNew, Ids, BaseInv, TypeOK
  <2>2. /\ Rows' = Rows \cup {o[1]} /\ o[1] \notin Rows /\ nextId' = nextId + 1
        /\ connect'[o[1]] = nextId /\ original'[o[1]] = nextId
        /\ \A p \in Rows : connect'[p] = connect[p] /\ original'[p] = original[p]
    BY <1>5, <2>1, PutNewFacts, IdFacts DEF Put
  <2>3. ~IsMerged(nextId) /\ nextId \in Tree(nextId)
    BY <2>1, TopFacts, Reaches DEF TreeInv, HistoryInv
  <2>4. ASSUME NEW p \in Rows', NEW c, c = connect'[p]
        PROVE  c < nextId' /\ ~IsMerged(c)' /\ original'[p] \in Tree(c)'
    <3>1. CASE p = o[1]
      BY <1>1, <1>3, <2>1, <2>2, <2>3, <2>4, <3>1
    <3>2. CASE p # o[1]
      <4>1. p \in Rows /\ c = connect[p] /\ c \in Nat
        BY <1>2, <2>2, <2>4, <3>2, IdFacts
      <4> QED  BY <1>1, <1>2, <1>3, <2>2, <4>1
    <3> QED  BY <3>1, <3>2
  <2>5. Tops'
    BY <2>4, TopsNext
  <2> QED  BY <1>3, <2>5 DEF TreeInv
<1> QED  BY <1>4, <1>5

\* One that matches m: its id is merged into m.
LEMMA PutMatchedTree ==
    ASSUME BaseInv, TreeInv, NEW o \in Facts, NEW m \in Current, PutMatched(o, m)
    PROVE  /\ TreeInv' /\ nextId \in Ids
           /\ \A i \in Ids : IsMerged(i)' <=> i = nextId \/ IsMerged(i)
           /\ LiveEdges \subseteq LiveEdges' /\ <<m, nextId>> \in LiveEdges'
<1> USE DEF HistoryInv
<1>1. /\ m \in Ids /\ m < nextId /\ ~IsMerged(m) /\ nextId \in Nat
      /\ \A i \in Ids : i >= nextId => ~\E k \in Entries : log[k].from = i
  BY TopFacts
<1>2. /\ Rows' = Rows \cup {o[1]} /\ o[1] \notin Rows /\ nextId' = nextId + 1 /\ nextId \in Ids
      /\ connect'[o[1]] = m /\ original'[o[1]] = nextId
      /\ \A p \in Rows : connect'[p] = connect[p] /\ original'[p] = original[p]
  BY <1>1, PutNewFacts, IdFacts DEF PutMatched
<1>3. /\ log' = Append(log, Entry("merge", m, nextId)) /\ "merge" \in Kinds
      /\ Spent' = Spent + 1 /\ Spent < MaxOperations
  BY SpendFacts DEF PutMatched, MatchEntry, Kinds, Operations
<1>4. ~IsMerged(nextId) /\ m # NoId /\ m # nextId
  <2>1. ~IsMerged(nextId)
    BY <1>1, <1>2, TopFacts
  <2> QED  BY <1>1, <2>1, IdFacts
<1>5. HistoryInv'
  BY <1>1, <1>2, <1>3, <1>4, HistoryStep DEF TreeInv
<1>6. /\ \A e \in LiveEdges : e[2] # nextId => e \in LiveEdges'
      /\ <<m, nextId>> \in LiveEdges'
      /\ \A e \in LiveEdges' : e[1] \in Ids /\ e[2] \in Ids
      /\ \A i \in Ids : IsMerged(i)' <=> i = nextId \/ IsMerged(i)
  <2>1. m \in Ids \cup {NoId} /\ (m = NoId <=> "merge" = "delete")
    BY <1>1, <1>4
  <2>2. /\ \A e \in LiveEdges : e[2] # nextId => e \in LiveEdges'
        /\ "merge" = "merge" => <<m, nextId>> \in LiveEdges'
        /\ \A e \in LiveEdges' : e[1] \in Ids /\ e[2] \in Ids
        /\ MergedNext("merge", nextId)
    BY <1>2, <1>3, <2>1, AppendSets DEF TreeInv
  <2> QED  BY <2>2 DEF MergedNext
<1>7. LiveEdges \subseteq LiveEdges'
  <2>1. \A e \in LiveEdges : e[2] # nextId
    BY <1>4 DEF LiveEdges, Edge, IsMerged
  <2> QED  BY <1>6, <2>1
<1>8. ASSUME NEW p \in Rows', NEW c, c = connect'[p]
      PROVE  c < nextId' /\ ~IsMerged(c)' /\ original'[p] \in Tree(c)'
  <2>1. CASE p = o[1]
    <3>1. c = m /\ original'[p] = nextId
      BY <1>2, <1>8, <2>1
    <3>2. nextId \in Tree(m)'
      BY <1>1, <1>6, TreeNext
    <3>3. c < nextId'
      BY <1>1, <1>2, <3>1, IdFacts
    <3>4. ~IsMerged(m)'
      BY <1>1, <1>4, <1>6
    <3>5. ~IsMerged(c)'
      BY <3>1, <3>4
    <3> QED  BY <3>1, <3>2, <3>3, <3>5
  <2>2. CASE p # o[1]
    <3>1. /\ c \in Ids /\ c < nextId /\ ~IsMerged(c) /\ original[p] \in Tree(c)
          /\ original'[p] = original[p]
      BY <1>2, <1>8, <2>2, TopFacts
    <3>2. Tree(c) \subseteq Tree(c)'
      BY <1>6, <1>7, <3>1, TreeMore
    <3>3. c < nextId' /\ c # nextId
      BY <1>1, <1>2, <3>1, IdFacts
    <3>4. ~IsMerged(c)'
      BY <1>6, <3>1, <3>3
    <3> QED  BY <3>1, <3>2, <3>3, <3>4
  <2> QED  BY <2>1, <2>2
<1>9. Tops'
  BY <1>8, TopsNext
<1> QED  BY <1>2, <1>5, <1>6, <1>7, <1>9 DEF TreeInv

\* A merge of two profiles puts the tree of one under the other.
LEMMA MergeTree ==
    ASSUME BaseInv, TreeInv, NEW s \in Current, NEW t \in Current, Merge(s, t)
    PROVE  /\ TreeInv' /\ s \in Ids /\ t \in Ids
           /\ \A i \in Ids : IsMerged(i)' <=> i = s \/ IsMerged(i)
           /\ LiveEdges \subseteq LiveEdges' /\ <<t, s>> \in LiveEdges'
<1> USE DEF HistoryInv
<1>1. /\ s \in Ids /\ s < nextId /\ ~IsMerged(s) /\ t \in Ids /\ t < nextId /\ ~IsMerged(t)
      /\ nextId \in Nat /\ s # t /\ t # NoId
  BY TopFacts, IdFacts DEF Merge
<1>2. /\ nextId' = nextId /\ original' = original
      /\ \A p \in ProfileIds : connect'[p] = IF connect[p] = s THEN t ELSE connect[p]
  BY DEF Merge
<1>3. /\ log' = Append(log, Entry("merge", t, s)) /\ "merge" \in Kinds
      /\ Spent' = Spent + 1 /\ Spent < MaxOperations
  BY SpendFacts DEF Merge, Kinds, Operations
<1>4. t \in Ids \cup {NoId} /\ (t = NoId <=> "merge" = "delete")
  BY <1>1
<1>5. HistoryInv'
  BY <1>1, <1>2, <1>3, <1>4, HistoryStep DEF TreeInv
<1>6. /\ \A e \in LiveEdges : e[2] # s => e \in LiveEdges'
      /\ <<t, s>> \in LiveEdges'
      /\ \A e \in LiveEdges' : e[1] \in Ids /\ e[2] \in Ids
      /\ \A i \in Ids : IsMerged(i)' <=> i = s \/ IsMerged(i)
  <2>1. /\ \A e \in LiveEdges : e[2] # s => e \in LiveEdges'
        /\ "merge" = "merge" => <<t, s>> \in LiveEdges'
        /\ \A e \in LiveEdges' : e[1] \in Ids /\ e[2] \in Ids
        /\ MergedNext("merge", s)
    BY <1>1, <1>3, <1>4, AppendSets DEF TreeInv
  <2> QED  BY <1>1, <2>1 DEF MergedNext
<1>7. LiveEdges \subseteq LiveEdges'
  <2>1. \A e \in LiveEdges : e[2] # s
    BY <1>1 DEF LiveEdges, Edge, IsMerged
  <2> QED  BY <1>6, <2>1
<1>8. Rows' = Rows /\ Rows \subseteq ProfileIds
  BY <1>1, <1>2, IdFacts DEF Rows
<1>9. ASSUME NEW p \in Rows', NEW c, c = connect'[p]
      PROVE  c < nextId' /\ ~IsMerged(c)' /\ original'[p] \in Tree(c)'
  <2>1. PICK b \in Ids : b = connect[p] /\ b < nextId /\ ~IsMerged(b) /\ original[p] \in Tree(b)
    BY <1>8, TopFacts
  <2>2. original'[p] = original[p] /\ p \in ProfileIds /\ c = IF b = s THEN t ELSE b
    BY <1>2, <1>8, <1>9, <2>1
  <2>3. Tree(b) \subseteq Tree(b)'
    BY <1>6, <1>7, <2>1, TreeMore
  <2>4. CASE b = s
    <3>1. s \in Tree(t)'
      BY <1>1, <1>6, TreeNext
    <3>2. Tree(s)' \subseteq Tree(t)'
      BY <1>1, <1>6, <3>1, TreeNext
    <3> QED  BY <1>1, <1>2, <1>6, <2>1, <2>2, <2>3, <2>4, <3>2
  <2>5. CASE b # s
    BY <1>2, <1>6, <2>1, <2>2, <2>3, <2>5
  <2> QED  BY <2>4, <2>5
<1>10. Tops'
  BY <1>9, TopsNext
<1> QED  BY <1>1, <1>5, <1>6, <1>7, <1>10 DEF TreeInv

(***************************************************************************)
(* What an unmerge of u takes along is what is part of u, when the history *)
(* of u is plain and the query reads all of it.                            *)
(***************************************************************************)
LEMMA LineageIs ==
    ASSUME BaseInv, TreeInv, MaxOperations <= HistoryDepth, NEW u \in Ids, Answers(u), Plain(u)
    PROVE  LineageOf(u) = {p \in Rows : original[p] \in Tree(u)}
<1>1. Len(log) <= HistoryDepth
  <2>1. /\ Len(log) \in Nat /\ MaxOperations \in Nat /\ HistoryDepth \in Nat
        /\ Len(log) <= MaxOperations
    BY LineageBounds, LogFacts DEF TreeInv, HistoryInv, LogShort
  <2> QED  BY <2>1
<1>2. Descendants(u) = Tree(u)
  BY <1>1, NothingElse, NothingLeft DEF TreeInv
<1> QED  BY <1>2 DEF LineageOf

\* An unmerge cuts the tree of u off: the rows in it move, and no others.
LEMMA UnmergeTree ==
    ASSUME BaseInv, TreeInv, ~Tangled, MaxOperations <= HistoryDepth,
           NEW r \in Rows, Unmerge(original[r], connect[r]),
           NEW u, NEW m, u = original[r], m = connect[r]
    PROVE  /\ TreeInv' /\ LeavesOthers(u, m)
           /\ u \in Ids /\ IsMerged(u)
           /\ \A i \in Ids : IsMerged(i)' <=> i # u /\ IsMerged(i)
           /\ \A e \in LiveEdges : e[2] # u => e \in LiveEdges'
<1> USE DEF HistoryInv
<1>1. /\ u \in Ids /\ m \in Ids /\ m < nextId /\ u < nextId /\ ~IsMerged(m) /\ u \in Tree(m)
      /\ nextId \in Nat /\ m # u /\ m # NoId
  BY TopFacts, IdFacts DEF Unmerge
<1>2. /\ nextId' = nextId /\ original' = original
      /\ \A p \in ProfileIds : connect'[p] = IF p \in LineageOf(u) THEN u ELSE connect[p]
  BY DEF Unmerge
<1>3. /\ log' = Append(log, Entry("unmerge", m, u)) /\ "unmerge" \in Kinds
      /\ Spent' = Spent + 1 /\ Spent < MaxOperations
  BY SpendFacts DEF Unmerge, Kinds, Operations
<1>4. m \in Ids \cup {NoId} /\ (m = NoId <=> "unmerge" = "delete")
  BY <1>1
<1>9. /\ \A e \in LiveEdges : e[2] # u => e \in LiveEdges'
      /\ \A e \in LiveEdges' : e[1] \in Ids /\ e[2] \in Ids
      /\ \A i \in Ids : IsMerged(i)' <=> i # u /\ IsMerged(i)
  <2>1. /\ \A e \in LiveEdges : e[2] # u => e \in LiveEdges'
        /\ \A e \in LiveEdges' : e[1] \in Ids /\ e[2] \in Ids
        /\ MergedNext("unmerge", u)
    BY <1>1, <1>3, <1>4, AppendSets DEF TreeInv
  <2> QED  BY <1>1, <2>1 DEF MergedNext
<1>5. \A e \in LiveEdges : e[1] \in Ids /\ e[2] \in Ids
  BY LogFacts DEF TreeInv
<1>6. PICK j \in Live : log[j].from = u /\ log[j].into \in Tree(m)
  <2>1. PICK e \in LiveEdges : e[2] = u /\ e[1] \in Tree(m)
    BY <1>1, <1>5, ReachedByEdge DEF Tree
  <2> QED  BY <2>1 DEF LiveEdges, Edge
<1>7. IsMerged(u) /\ j \in MergesOf(u) /\ log[j].into \in Merged(m)
  <2>1. j \in MergesOf(u)
    BY <1>6 DEF MergesOf, Live
  <2> QED  BY <1>1, <1>6, <2>1, Reaches DEF IsMerged, TreeInv
<1>8. HistoryInv'
  BY <1>1, <1>2, <1>3, <1>4, <1>7, HistoryStep DEF TreeInv
<1>10. LineageOf(u) = {p \in Rows : original[p] \in Tree(u)}
  <2>1. Answers(u) /\ Plain(u)
    BY DEF Unmerge
  <2> QED  BY <1>1, <2>1, LineageIs
<1>11. Rows' = Rows /\ Rows \subseteq ProfileIds
  BY <1>1, <1>2, IdFacts DEF Rows, LineageOf
<1>12. \A i \in Ids : /\ Tree(i) \subseteq Ids /\ i \in Tree(i)
                      /\ \A e \in LiveEdges : e[1] \in Tree(i) => e[2] \in Tree(i)
                      /\ \A x \in Tree(i) : Tree(x) \subseteq Tree(i)
  BY <1>5, ReachedClosed, ReachedOn DEF Tree
\* Nothing of the tree of u is lost, and of another tree just the tree of u.
<1>13. Tree(u) \subseteq Tree(u)'
  <2>1. /\ Tree(u)' \subseteq Ids /\ u \in Tree(u)'
        /\ \A e \in LiveEdges' : e[1] \in Tree(u)' => e[2] \in Tree(u)'
    BY <1>1, <1>9, TreeNext
  <2>2. \A e \in LiveEdges : e[1] \in Tree(u)' => e[2] \in Tree(u)'
    BY <1>9, <2>1
  <2> QED  BY <2>1, <2>2, ReachedSmallest DEF Tree
<1>14. ASSUME NEW c \in Ids
       PROVE  Tree(c) \subseteq Tree(c)' \cup Tree(u)
  <2> DEFINE S == Tree(c)' \cup Tree(u)
  <2>1. /\ Tree(c)' \subseteq Ids /\ c \in Tree(c)'
        /\ \A e \in LiveEdges' : e[1] \in Tree(c)' => e[2] \in Tree(c)'
    BY <1>9, TreeNext
  <2>2. S \in SUBSET Ids /\ c \in S
    BY <1>1, <1>12, <2>1
  <2>3. \A e \in LiveEdges : e[1] \in S => e[2] \in S
    BY <1>1, <1>9, <1>12, <2>1
  <2> HIDE DEF S
  <2>4. Tree(c) \subseteq S
    BY <2>2, <2>3, ReachedSmallest DEF Tree
  <2> QED  BY <2>4 DEF S
<1>15. ASSUME NEW p \in Rows', NEW c, c = connect'[p]
       PROVE  c < nextId' /\ ~IsMerged(c)' /\ original'[p] \in Tree(c)'
  <2>1. PICK b \in Ids : /\ b = connect[p] /\ b < nextId /\ ~IsMerged(b)
                         /\ original[p] \in Tree(b) /\ p \in Rows
    BY <1>11, TopFacts
  <2>2. original'[p] = original[p] /\ p \in ProfileIds /\ c = IF p \in LineageOf(u) THEN u ELSE b
    BY <1>2, <1>11, <1>15, <2>1
  <2>3. CASE p \in LineageOf(u)
    BY <1>1, <1>2, <1>9, <1>10, <1>13, <2>2, <2>3
  <2>4. CASE p \notin LineageOf(u)
    BY <1>2, <1>9, <1>10, <1>14, <2>1, <2>2, <2>4
  <2> QED  BY <2>3, <2>4
<1>16. Tops'
  BY <1>15, TopsNext
<1>17. LeavesOthers(u, m)
  <2> SUFFICES ASSUME NEW p \in ProfileIds, connect'[p] # connect[p]
               PROVE  connect[p] = m /\ original[p] # m
    BY DEF LeavesOthers
  <2>1. p \in Rows /\ original[p] \in Tree(u)
    BY <1>2, <1>10
  <2>2. /\ connect[p] \in Ids /\ ~IsMerged(connect[p]) /\ original[p] \in Tree(connect[p])
    BY <2>1, TopFacts
  <2>3. original[p] \in Tree(m)
    BY <1>1, <1>12, <2>1
  <2>4. connect[p] = m
    BY <1>1, <2>2, <2>3, TreesApart DEF TreeInv
  <2>5. original[p] # m
    <3>1. \A x \in Tree(u) : x # u => IsMerged(x)
      <4> SUFFICES ASSUME NEW x \in Tree(u), x # u PROVE IsMerged(x)
        OBVIOUS
      <4>1. PICK e \in LiveEdges : e[2] = x
        BY <1>1, <1>5, ReachedByEdge DEF Tree
      <4> QED  BY <4>1 DEF LiveEdges, Edge, IsMerged
    <3> QED  BY <1>1, <2>1, <3>1
  <2> QED  BY <2>4, <2>5
<1> QED  BY <1>1, <1>7, <1>8, <1>9, <1>16, <1>17 DEF TreeInv

\* A deletion of a profile leaves the trees as they are.
LEMMA DeleteTree ==
    ASSUME BaseInv, TreeInv, NEW c \in Current, Delete(c)
    PROVE  /\ TreeInv'
           /\ \A i \in Ids : IsMerged(i)' <=> IsMerged(i)
           /\ LiveEdges \subseteq LiveEdges'
<1> USE DEF HistoryInv
<1>1. c \in Ids /\ c < nextId /\ ~IsMerged(c) /\ nextId \in Nat
  BY TopFacts
<1>2. /\ nextId' = nextId /\ log' = Append(log, Entry("delete", NoId, c))
      /\ connect'  = [p \in ProfileIds |-> IF p \in DeletedRows(c) THEN NoId ELSE connect[p]]
      /\ original' = [p \in ProfileIds |-> IF p \in DeletedRows(c) THEN NoId ELSE original[p]]
  BY DEF Delete
<1>3. "delete" \in Kinds /\ Spent' = Spent + 1 /\ Spent < MaxOperations
  BY SpendFacts DEF Delete, Kinds, Operations
<1>4. NoId \in Ids \cup {NoId} /\ (NoId = NoId <=> "delete" = "delete")
  OBVIOUS
<1>5. HistoryInv'
  BY <1>1, <1>2, <1>3, <1>4, HistoryStep DEF TreeInv
<1>6. /\ \A e \in LiveEdges : e[2] # c => e \in LiveEdges'
      /\ \A e \in LiveEdges' : e[1] \in Ids /\ e[2] \in Ids
      /\ \A i \in Ids : IsMerged(i)' <=> IsMerged(i)
  <2>1. /\ \A e \in LiveEdges : e[2] # c => e \in LiveEdges'
        /\ \A e \in LiveEdges' : e[1] \in Ids /\ e[2] \in Ids
        /\ MergedNext("delete", c)
    BY <1>1, <1>2, <1>3, <1>4, AppendSets DEF TreeInv
  <2> QED  BY <1>1, <2>1 DEF MergedNext
<1>7. LiveEdges \subseteq LiveEdges'
  <2>1. \A e \in LiveEdges : e[2] # c
    BY <1>1 DEF LiveEdges, Edge, IsMerged
  <2> QED  BY <1>6, <2>1
<1>8. ASSUME NEW p \in Rows', NEW b, b = connect'[p]
      PROVE  b < nextId' /\ ~IsMerged(b)' /\ original'[p] \in Tree(b)'
  <2>1. p \in Rows /\ b = connect[p] /\ original'[p] = original[p]
    BY <1>2, <1>8 DEF Rows, DeletedRows
  <2>2. b \in Ids /\ b < nextId /\ ~IsMerged(b) /\ original[p] \in Tree(b)
    BY <2>1, TopFacts
  <2>3. Tree(b) \subseteq Tree(b)'
    BY <1>6, <1>7, <2>2, TreeMore
  <2> QED  BY <1>2, <1>6, <2>1, <2>2, <2>3
<1>9. Tops'
  BY <1>8, TopsNext
<1> QED  BY <1>5, <1>6, <1>7, <1>9 DEF TreeInv

----------------------------------------------------------------------------
(* What holds of plain histories *)

\* The empty history is in order.
LEMMA TreeInit == Init => TreeInv
<1> SUFFICES ASSUME Init PROVE TreeInv
  OBVIOUS
<1>1. log = <<>> /\ Rows = {} /\ \A op \in Operations : used[op] = 0
  BY DEF Init, Rows
<1>2. Entries = {} /\ Len(log) = 0
  BY <1>1 DEF Entries
<1>3. Merges = {} /\ Unmerges = {} /\ Live = {}
  BY <1>2 DEF Merges, Unmerges, Live
<1>4. \A i : MergesOf(i) = {} /\ UnmergesOf(i) = {} /\ ~IsMerged(i)
  BY <1>3 DEF MergesOf, UnmergesOf, IsMerged
<1>5. Balanced
  BY <1>4, FS_EmptySet DEF Balanced
<1>6. LogShort
  <2>1. MaxOperations \in Nat
    BY LineageBounds
  <2> QED  BY <1>1, <1>2, <2>1 DEF LogShort, Spent, Operations, Kinds
<1>7. EntriesOK /\ Undone /\ UnmergedBelow /\ Earlier
  BY <1>2, <1>3, <1>4 DEF EntriesOK, Undone, UnmergedBelow, Earlier
<1> QED  BY <1>1, <1>5, <1>6, <1>7 DEF TreeInv, HistoryInv, Tops

\* Every operation keeps the history in order and the rows in their trees.
LEMMA TreeStep ==
    ASSUME ~Tangled, MaxOperations <= HistoryDepth, BaseInv, TreeInv, [Next]_vars
    PROVE  TreeInv'
<1>1. ASSUME NEW o \in Facts, PutKnown(o) \/ Put(o)
      PROVE  TreeInv'
  BY <1>1, PutTree
<1>2. ASSUME NEW o \in Facts, NEW m \in Current, PutMatched(o, m)
      PROVE  TreeInv'
  BY <1>2, PutMatchedTree
<1>3. ASSUME NEW s \in Current, NEW t \in Current, Merge(s, t)
      PROVE  TreeInv'
  BY <1>3, MergeTree
<1>4. ASSUME NEW r \in Rows, Unmerge(original[r], connect[r])
      PROVE  TreeInv'
  BY <1>4, UnmergeTree
<1>5. ASSUME NEW c \in Current, Delete(c)
      PROVE  TreeInv'
  BY <1>5, DeleteTree
<1>6. CASE UNCHANGED vars
  <2>1. log' = log /\ used' = used /\ nextId' = nextId /\ connect' = connect /\ original' = original
    BY <1>6 DEF vars
  <2>2. /\ HistoryInv'
        /\ \A i \in Ids : Tree(i)' = Tree(i) /\ (IsMerged(i)' <=> IsMerged(i))
    BY <2>1, NothingRecorded, TopFacts DEF TreeInv
  <2>3. ASSUME NEW p \in Rows', NEW c, c = connect'[p]
        PROVE  c < nextId' /\ ~IsMerged(c)' /\ original'[p] \in Tree(c)'
    <3>1. p \in Rows /\ c = connect[p]
      BY <2>1, <2>3 DEF Rows
    <3> QED  BY <2>1, <2>2, <3>1, TopFacts
  <2>4. Tops'
    BY <2>3, TopsNext
  <2> QED  BY <2>2, <2>4 DEF TreeInv
<1> QED  BY <1>1, <1>2, <1>3, <1>4, <1>5, <1>6 DEF Next

(***************************************************************************)
(* UnmergeProfiles moves profile_ids out of the profile it unmerges from   *)
(* and out of no other, and not the one that profile was created for, if   *)
(* the histories of the unmerged ids are plain and no longer than the      *)
(* query reads.  The invariant is TreeInv: ids are merged and unmerged in  *)
(* turns, what stands is a forest, and a profile_id is in the tree of the  *)
(* profile its row names.                                                  *)
(***************************************************************************)
THEOREM UnmergesLeaveOthers ==
    ASSUME ~Tangled, MaxOperations <= HistoryDepth
    PROVE  Spec => UnmergeLeavesOthers
<1> DEFINE Leaves == \A u, m \in Ids : Unmerge(u, m) => LeavesOthers(u, m)
<1>1. BaseInv /\ TreeInv /\ [Next]_vars => TreeInv'
  BY TreeStep
<1>2. BaseInv /\ TreeInv => Leaves
  <2> SUFFICES ASSUME BaseInv, TreeInv, NEW u \in Ids, NEW m \in Ids, Unmerge(u, m)
               PROVE  LeavesOthers(u, m)
    OBVIOUS
  <2>1. PICK r \in Rows : original[r] = u /\ connect[r] = m
    BY DEF Unmerge, Resolve
  <2> QED  BY <2>1, UnmergeTree
<1>3. [][Leaves]_vars => UnmergeLeavesOthers
  BY DEF UnmergeLeavesOthers, LeavesOthers
<1> QED  BY <1>1, <1>2, <1>3, BaseInit, BaseStep, TreeInit, PTL DEF Spec

\* Then master rows, objects, search rows and the counter of profiles agree after
\* any sequence of puts, merges, unmerges and deletions.
THEOREM TablesAlwaysAgree ==
    ASSUME ~Tangled, MaxOperations <= HistoryDepth
    PROVE  Spec => []TablesAgree
  BY UnmergesLeaveOthers, TablesStayInStep, PTL

----------------------------------------------------------------------------
(* Refinement *)

\* The parents by the history are the edges that stand.
LEMMA ParentsAre ==
    BaseInv /\ EntriesOK =>
        /\ \A e \in LiveEdges : ParentsByLog[e[2]] = e[1]
        /\ \A i \in Ids : ParentsByLog[i] = NoId <=> ~IsMerged(i)
        /\ \A i \in Ids : IsMerged(i) => \E e \in LiveEdges : e[2] = i
        /\ \E f : ParentsByLog = [i \in Ids |-> f[i]]
<1> SUFFICES ASSUME BaseInv, EntriesOK
             PROVE  /\ \A e \in LiveEdges : ParentsByLog[e[2]] = e[1]
                    /\ \A i \in Ids : ParentsByLog[i] = NoId <=> ~IsMerged(i)
                    /\ \A i \in Ids : IsMerged(i) => \E e \in LiveEdges : e[2] = i
                    /\ \E f : ParentsByLog = [i \in Ids |-> f[i]]
  OBVIOUS
<1>1. ASSUME NEW k \in Live
      PROVE  ParentsByLog[log[k].from] = log[k].into
  BY LogFacts, ParentIs
<1>2. \A e \in LiveEdges : ParentsByLog[e[2]] = e[1]
  BY <1>1 DEF LiveEdges, Edge
<1>3. ASSUME NEW i \in Ids
      PROVE  ParentsByLog[i] = NoId <=> ~IsMerged(i)
  BY ParentIs
<1>4. ASSUME NEW i \in Ids, IsMerged(i)
      PROVE  \E e \in LiveEdges : e[2] = i
  <2>1. PICK k \in Live : log[k].from = i
    BY <1>4 DEF IsMerged
  <2>2. <<log[k].into, i>> \in LiveEdges
    BY <2>1 DEF LiveEdges, Edge
  <2> QED  BY <2>2
<1>5. ParentsByLog = [i \in Ids |-> ParentsByLog[i]]
  BY DEF ParentsByLog
<1> QED  BY <1>2, <1>3, <1>4, <1>5

(***************************************************************************)
(* The profile a master row names is the root of the tree its id is in:    *)
(* the one id without a parent that every set with the id and the parents  *)
(* of its members holds.                                                   *)
(***************************************************************************)
LEMMA Settled ==
    BaseInv /\ TreeInv =>
        connect = [p \in ProfileIds |->
                      IF original[p] = NoId THEN NoId
                      ELSE Forest!RootIn(ParentsByLog)[original[p]]]
<1> SUFFICES ASSUME BaseInv, TreeInv, NEW p \in ProfileIds
             PROVE  connect[p] = IF original[p] = NoId THEN NoId
                                 ELSE Forest!RootIn(ParentsByLog)[original[p]]
  BY DEF BaseInv, TypeOK
<1>1. CASE original[p] = NoId
  BY <1>1 DEF BaseInv, RowsOK
<1>2. CASE original[p] # NoId
  <2> DEFINE i == original[p]
             c == connect[p]
             Top(r) == /\ ParentsByLog[r] = NoId
                       /\ \A S \in Forest!Upward(ParentsByLog) : i \in S => r \in S
  <2>1. p \in Rows
    BY <1>2 DEF BaseInv, RowsOK, Rows
  <2>2. i \in Ids /\ c \in Ids /\ ~IsMerged(c) /\ i \in Tree(c)
    BY <2>1, TopFacts
  <2>3. /\ \A e \in LiveEdges : ParentsByLog[e[2]] = e[1]
        /\ \A j \in Ids : ParentsByLog[j] = NoId <=> ~IsMerged(j)
        /\ \A j \in Ids : IsMerged(j) => \E e \in LiveEdges : e[2] = j
    BY ParentsAre DEF TreeInv, HistoryInv
  <2>4. \A e \in LiveEdges : e[1] \in Ids /\ e[2] \in Ids /\ e[1] # NoId
    BY LogFacts, IdFacts DEF TreeInv, HistoryInv
  <2>5. Forest!RootIn(ParentsByLog)[i] = CHOOSE r \in Ids : Top(r)
    BY <2>2 DEF Forest!RootIn
  <2> HIDE DEF i, c
  <2>6. ASSUME NEW S \in Forest!Upward(ParentsByLog), i \in S
        PROVE  c \in S
    <3> SUFFICES ASSUME c \notin S PROVE FALSE
      OBVIOUS
    <3> DEFINE X == Ids \ S
    <3>1. \A e \in LiveEdges : e[2] \in S => e[1] \in S
      BY <2>3, <2>4 DEF Forest!Upward
    <3>2. X \in SUBSET Ids /\ c \in X /\ \A e \in LiveEdges : e[1] \in X => e[2] \in X
      BY <2>2, <2>4, <3>1
    <3> HIDE DEF X
    <3>3. Tree(c) \subseteq X
      BY <3>2, ReachedSmallest DEF Tree
    <3> QED  BY <2>2, <2>6, <3>3 DEF X
  <2>7. Top(c)
    BY <2>2, <2>3, <2>6
  <2>8. ASSUME NEW r \in Ids, Top(r)
        PROVE  r = c
    <3> DEFINE S == {x \in Ids : i \in Tree(x)}
    <3>1. \A x \in Ids : /\ Tree(x) \subseteq Ids /\ x \in Tree(x)
                         /\ \A e \in LiveEdges : e[1] \in Tree(x) => e[2] \in Tree(x)
                         /\ \A y \in Tree(x) : Tree(y) \subseteq Tree(x)
      BY <2>4, ReachedClosed, ReachedOn DEF Tree
    <3>2. ASSUME NEW x \in S, ParentsByLog[x] # NoId
          PROVE  ParentsByLog[x] \in S
      <4>1. PICK e \in LiveEdges : e[2] = x
        BY <2>3, <3>2
      <4>2. ParentsByLog[x] = e[1] /\ e[1] \in Ids /\ x \in Tree(e[1])
        BY <2>3, <2>4, <3>1, <4>1
      <4> QED  BY <3>1, <4>2
    <3>3. S \in Forest!Upward(ParentsByLog) /\ i \in S
      BY <2>2, <3>1, <3>2 DEF Forest!Upward
    <3> HIDE DEF S
    <3>4. i \in Tree(r) /\ ~IsMerged(r)
      <4>1. r \in S
        BY <2>8, <3>3
      <4> QED  BY <2>3, <2>8, <4>1 DEF S
    <3> QED  BY <2>2, <3>4, TreesApart DEF TreeInv, HistoryInv
  <2> HIDE DEF Top
  <2>9. (CHOOSE r \in Ids : Top(r)) = c
    BY <2>2, <2>7, <2>8
  <2> QED  BY <1>2, <2>5, <2>9 DEF i, c
<1> QED  BY <1>1, <1>2

\* One more entry changes the parent of one id.
LEMMA ParentsNext ==
    ASSUME BaseInv /\ EntriesOK, (BaseInv /\ EntriesOK)',
           NEW into \in Ids \cup {NoId}, NEW from \in Ids,
           \A e \in LiveEdges : e[2] # from => e \in LiveEdges',
           into # NoId => <<into, from>> \in LiveEdges',
           \A i \in Ids : IsMerged(i)' <=> (i = from /\ into # NoId) \/ (i # from /\ IsMerged(i))
    PROVE  ParentsByLog' = [ParentsByLog EXCEPT ![from] = into]
<1>1. (BaseInv /\ EntriesOK =>
        /\ \A e \in LiveEdges : ParentsByLog[e[2]] = e[1]
        /\ \A i \in Ids : ParentsByLog[i] = NoId <=> ~IsMerged(i)
        /\ \A i \in Ids : IsMerged(i) => \E e \in LiveEdges : e[2] = i
        /\ \E f : ParentsByLog = [i \in Ids |-> f[i]])'
  BY ParentsAre, PTL
<1>2. /\ \A e \in LiveEdges' : ParentsByLog'[e[2]] = e[1]
      /\ \A i \in Ids : ParentsByLog'[i] = NoId <=> ~IsMerged(i)'
      /\ \E f : ParentsByLog' = [i \in Ids |-> f[i]]
  BY <1>1
<1>3. /\ \A e \in LiveEdges : ParentsByLog[e[2]] = e[1]
      /\ \A i \in Ids : ParentsByLog[i] = NoId <=> ~IsMerged(i)
      /\ \A i \in Ids : IsMerged(i) => \E e \in LiveEdges : e[2] = i
      /\ \E f : ParentsByLog = [i \in Ids |-> f[i]]
  BY ParentsAre
<1>4. ASSUME NEW i \in Ids
      PROVE  ParentsByLog'[i] = IF i = from THEN into ELSE ParentsByLog[i]
  <2>1. CASE i = from /\ into # NoId
    BY <1>2, <2>1
  <2>2. CASE i = from /\ into = NoId
    BY <1>2, <2>2
  <2>3. CASE i # from /\ IsMerged(i)
    <3>1. PICK e \in LiveEdges : e[2] = i
      BY <1>3, <2>3
    <3>2. e \in LiveEdges'
      BY <2>3, <3>1
    <3> QED  BY <1>2, <1>3, <2>3, <3>1, <3>2
  <2>4. CASE i # from /\ ~IsMerged(i)
    BY <1>2, <1>3, <2>4
  <2> QED  BY <2>1, <2>2, <2>3, <2>4
<1> QED  BY <1>2, <1>3, <1>4

(***************************************************************************)
(* The master table is the forest: a step that changes master rows or      *)
(* parents is one merge, unmerge or deletion of a whole tree.              *)
(***************************************************************************)
LEMMA ForestStep ==
    ASSUME ~Tangled, MaxOperations <= HistoryDepth, BaseInv, TreeInv, [Next]_vars,
           BaseInv', TreeInv'
    PROVE  [Forest!Next]_(Forest!vars)
<1>1. (BaseInv /\ TreeInv =>
        connect = [p \in ProfileIds |->
                      IF original[p] = NoId THEN NoId
                      ELSE Forest!RootIn(ParentsByLog)[original[p]]])'
  BY Settled, PTL
<1>2. connect' = [p \in ProfileIds |->
                     IF original'[p] = NoId THEN NoId
                     ELSE Forest!RootIn(ParentsByLog')[original'[p]]]
  BY <1>1 DEF Forest!RootIn, Forest!Upward
<1>3. Forest!Settle(ParentsByLog', original')
  BY <1>2 DEF Forest!Settle
<1>4. /\ BaseInv /\ EntriesOK /\ (BaseInv /\ EntriesOK)' /\ NoId \notin Ids
      /\ \A i \in Ids : ParentsByLog[i] = NoId <=> ~IsMerged(i)
  BY ParentsAre, IdFacts DEF TreeInv, HistoryInv
<1>5. ParentsByLog = [i \in Ids |-> ParentsByLog[i]]
  BY DEF ParentsByLog
<1>6. Current = Forest!Owners /\ \A p \in Rows : original[p] \in Forest!Born
  BY DEF Current, Rows, Forest!Owners, Forest!Born, Forest!Unborn, BaseInv, RowsOK
<1>7. ASSUME NEW o \in Facts, PutKnown(o) \/ Put(o)
      PROVE  [Forest!Next]_(Forest!vars)
  <2>1. ParentsByLog' = ParentsByLog
    BY <1>7, PutTree
  <2>2. CASE PutKnown(o)
    BY <2>1, <2>2 DEF PutKnown, Forest!vars
  <2>3. CASE Put(o)
    <3>1. nextId \in Ids
      BY <2>3, IdFacts DEF Put, PutNew, Ids, BaseInv, TypeOK
    <3>2. o[1] \in ProfileIds /\ original' = [original EXCEPT ![o[1]] = nextId] /\ connect[o[1]] = NoId
      BY <2>3, LineageBounds DEF Put, PutNew
    <3>3. o[1] \in Forest!Unborn
      BY <3>2 DEF Forest!Unborn, BaseInv, RowsOK
    <3>4. nextId \notin Forest!Born
      <4>1. \A p \in Rows : original[p] # nextId
        BY TopFacts, IdFacts
      <4> QED  BY <4>1 DEF Forest!Born, Forest!Unborn, Rows, BaseInv, RowsOK
    <3>5. ParentsByLog[nextId] = NoId
      BY <1>4, <3>1, TopFacts
    <3>6. ParentsByLog' = [ParentsByLog EXCEPT ![nextId] = NoId]
      BY <1>5, <2>1, <3>1, <3>5
    <3>7. Forest!Create(o[1], nextId, NoId)
      BY <1>3, <3>2, <3>5, <3>6 DEF Forest!Create
    <3> QED  BY <3>1, <3>2, <3>3, <3>4, <3>7 DEF Forest!Next
  <2> QED  BY <1>7, <2>2, <2>3
<1>8. ASSUME NEW o \in Facts, NEW m \in Current, PutMatched(o, m)
      PROVE  [Forest!Next]_(Forest!vars)
  <2>1. /\ nextId \in Ids
        /\ \A i \in Ids : IsMerged(i)' <=> i = nextId \/ IsMerged(i)
        /\ LiveEdges \subseteq LiveEdges' /\ <<m, nextId>> \in LiveEdges'
    BY <1>8, PutMatchedTree
  <2>2. /\ o[1] \in ProfileIds /\ original' = [original EXCEPT ![o[1]] = nextId]
        /\ connect[o[1]] = NoId /\ m \in Ids
    BY <1>8, LineageBounds, IdFacts DEF PutMatched, PutNew
  <2>3. o[1] \in Forest!Unborn
    BY <2>2 DEF Forest!Unborn, BaseInv, RowsOK
  <2>4. nextId \notin Forest!Born
    <3>1. \A p \in Rows : original[p] # nextId
      BY TopFacts, IdFacts
    <3> QED  BY <3>1 DEF Forest!Born, Forest!Unborn, Rows, BaseInv, RowsOK
  <2>5. ParentsByLog[nextId] = NoId
    BY <1>4, <2>1, TopFacts
  <2>6. ParentsByLog' = [ParentsByLog EXCEPT ![nextId] = m]
    BY <1>4, <2>1, <2>2, ParentsNext
  <2>7. Forest!Create(o[1], nextId, m)
    BY <1>3, <2>2, <2>5, <2>6 DEF Forest!Create
  <2> QED  BY <1>6, <1>8, <2>1, <2>2, <2>3, <2>4, <2>7 DEF Forest!Next
<1>9. ASSUME NEW s \in Current, NEW t \in Current, Merge(s, t)
      PROVE  [Forest!Next]_(Forest!vars)
  <2>1. /\ s \in Ids /\ t \in Ids
        /\ \A i \in Ids : IsMerged(i)' <=> i = s \/ IsMerged(i)
        /\ LiveEdges \subseteq LiveEdges' /\ <<t, s>> \in LiveEdges'
    BY <1>9, MergeTree
  <2>2. ParentsByLog' = [ParentsByLog EXCEPT ![s] = t]
    BY <1>4, <2>1, ParentsNext
  <2>3. Forest!Merge(s, t)
    BY <1>3, <1>9, <2>2 DEF Forest!Merge, Merge
  <2> QED  BY <1>6, <1>9, <2>3 DEF Forest!Next
<1>10. ASSUME NEW r \in Rows, Unmerge(original[r], connect[r])
       PROVE  [Forest!Next]_(Forest!vars)
  <2>1. PICK u, m : u = original[r] /\ m = connect[r]
    OBVIOUS
  <2>2. /\ u \in Ids /\ IsMerged(u)
        /\ \A i \in Ids : IsMerged(i)' <=> i # u /\ IsMerged(i)
        /\ \A e \in LiveEdges : e[2] # u => e \in LiveEdges'
    BY <1>10, <2>1, UnmergeTree
  <2>3. ParentsByLog' = [ParentsByLog EXCEPT ![u] = NoId]
    BY <1>4, <2>2, ParentsNext
  <2>4. Forest!Unmerge(u)
    BY <1>3, <1>4, <1>10, <2>1, <2>2, <2>3 DEF Forest!Unmerge, Unmerge
  <2> QED  BY <1>6, <2>1, <2>4 DEF Forest!Next
<1>11. ASSUME NEW c \in Current, Delete(c)
       PROVE  [Forest!Next]_(Forest!vars)
  <2>1. /\ \A i \in Ids : IsMerged(i)' <=> IsMerged(i)
        /\ LiveEdges \subseteq LiveEdges'
    BY <1>11, DeleteTree
  <2>2. c \in Ids /\ ~IsMerged(c)
    BY TopFacts
  <2>3. ParentsByLog' = [ParentsByLog EXCEPT ![c] = NoId]
    <3>1. \A i \in Ids : IsMerged(i)' <=> (i = c /\ NoId # NoId) \/ (i # c /\ IsMerged(i))
      BY <2>1, <2>2
    <3>2. NoId \in Ids \cup {NoId}
      OBVIOUS
    <3> QED  BY <1>4, <2>1, <2>2, <3>1, <3>2, ParentsNext
  <2>4. ParentsByLog' = ParentsByLog
    BY <1>4, <1>5, <2>2, <2>3
  <2>5. original' = [p \in ProfileIds |-> IF connect[p] = c THEN NoId ELSE original[p]]
    BY <1>4, <1>11, <2>2 DEF Delete, DeletedRows, Rows
  <2>6. Forest!Delete(c)
    BY <1>3, <2>4, <2>5 DEF Forest!Delete
  <2> QED  BY <1>6, <2>6 DEF Forest!Next
<1>12. CASE UNCHANGED vars
  BY <1>12 DEF vars, Forest!vars, ParentsByLog, Live, Merges, Entries
<1> QED  BY <1>7, <1>8, <1>9, <1>10, <1>11, <1>12 DEF Next

(***************************************************************************)
(* The detailed specification implements the abstract one: whatever the    *)
(* sums over the history come to, the master table shows the forest of the *)
(* merges that were not undone, under the same two conditions.             *)
(***************************************************************************)
THEOREM ForestKept ==
    ASSUME ~Tangled, MaxOperations <= HistoryDepth
    PROVE  Spec => ForestSpec
<1>1. Init => Forest!Init
  <2> SUFFICES ASSUME Init PROVE Forest!Init
    OBVIOUS
  <2>1. Live = {}
    BY DEF Init, Live, Merges, Entries
  <2> QED  BY <2>1 DEF Init, Forest!Init, ParentsByLog
<1>2. BaseInv /\ TreeInv /\ [Next]_vars => TreeInv'
  BY TreeStep
<1>3. BaseInv /\ TreeInv /\ [Next]_vars /\ BaseInv' /\ TreeInv' => [Forest!Next]_(Forest!vars)
  BY ForestStep
<1> QED  BY <1>1, <1>2, <1>3, BaseInit, BaseStep, TreeInit, PTL DEF Spec, ForestSpec, Forest!Spec

----------------------------------------------------------------------------
(* The row of one field *)

Cells == [type : Types \cup {NoType}, ts : Nat \cup {Never}, value : Values]

\* A listed type has the priority of its place, NULL has none.
LEMMA PrioNat ==
  ASSUME ListAssumption, NEW t
  PROVE  /\ Prio(t) \in Nat
         /\ Listed(t) => Place(t) \in DOMAIN Priority /\ Priority[Place(t)] = t
         /\ Listed(t) => Prio(t) > 0
         /\ Prio(NoType) = 0
  <1>1. DOMAIN Priority = 1 .. Len(Priority) /\ Len(Priority) \in Nat
    BY DEF ListAssumption
  <1>2. Listed(t) => Place(t) \in DOMAIN Priority /\ Priority[Place(t)] = t
    BY DEF Listed, Place
  <1>3. ~Listed(NoType)
    BY <1>1 DEF ListAssumption, Listed
  <1>. QED BY <1>1, <1>2, <1>3 DEF Prio

\* One of two cells always replaces the other, and replacing is transitive.
LEMMA CellOrder ==
  ASSUME ListAssumption, NEW x \in Cells, NEW y \in Cells, NEW z \in Cells
  PROVE  /\ ShouldUpdate(x, y) \/ ShouldUpdate(y, x)
         /\ ShouldUpdate(x, y) /\ ShouldUpdate(y, z) => ShouldUpdate(x, z)
  <1>1. Prio(x.type) \in Nat /\ Prio(y.type) \in Nat /\ Prio(z.type) \in Nat
    BY PrioNat
  <1>2. x.ts \in Int /\ y.ts \in Int /\ z.ts \in Int
    BY DEF Cells, Never
  <1>. QED BY <1>1, <1>2 DEF ShouldUpdate

\* What an object writes replaces the empty row and is not replaced by it.
LEMMA OwnCell ==
  ASSUME ListAssumption, NEW e \in FieldEntries
  PROVE  /\ Cell(e) \in Cells /\ NoCell \in Cells /\ Cell(e) # NoCell
         /\ ShouldUpdate(NoCell, Cell(e)) /\ ~ShouldUpdate(Cell(e), NoCell)
  <1>1. Prio(e.type) \in Nat /\ Prio(NoType) = 0
    BY PrioNat
  <1>2. Cell(e) \in Cells /\ NoCell \in Cells /\ Cell(e).ts # Never
    BY DEF Cell, NoCell, Cells, FieldEntries, Times, Never, ListAssumption
  <1>. QED BY <1>1, <1>2 DEF ShouldUpdate, Cell, NoCell, FieldEntries, ListAssumption

\* What a row owes the entries it was given.
Shows(x, entries) ==
  IF entries = {} THEN x = NoCell
  ELSE /\ \E e \in entries : x = Cell(e)
       /\ \A e \in entries : ShouldUpdate(Cell(e), x)

\* The better of two rows owes to both their entries.
LEMMA Combine ==
  ASSUME ListAssumption, NEW x \in Cells, NEW y \in Cells,
         NEW X \in SUBSET FieldEntries, NEW Y \in SUBSET FieldEntries,
         Shows(x, X), Shows(y, Y)
  PROVE  Shows(Taken(x, y), X \cup Y)
  <1>1. CASE X = {} /\ Y = {}
    BY <1>1 DEF Shows, Taken
  <1>2. CASE X = {} /\ Y # {}
    <2>1. PICK e \in Y : y = Cell(e)
      BY <1>2 DEF Shows
    <2>2. Taken(x, y) = y
      BY <1>2, <2>1, OwnCell DEF Shows, Taken
    <2>3. X \cup Y = Y
      BY <1>2
    <2>. QED BY <2>2, <2>3
  <1>3. CASE X # {} /\ Y = {}
    <2>1. PICK e \in X : x = Cell(e)
      BY <1>3 DEF Shows
    <2>2. Taken(x, y) = x
      BY <1>3, <2>1, OwnCell DEF Shows, Taken
    <2>3. X \cup Y = X
      BY <1>3
    <2>. QED BY <2>2, <2>3
  <1>4. CASE X # {} /\ Y # {}
    <2>. DEFINE m == Taken(x, y)
    <2>1. m \in {x, y} /\ m \in Cells /\ ShouldUpdate(x, m) /\ ShouldUpdate(y, m)
      BY CellOrder DEF Taken
    <2>2. \A e \in X : ShouldUpdate(Cell(e), x)
      BY <1>4 DEF Shows
    <2>3. \A e \in Y : ShouldUpdate(Cell(e), y)
      BY <1>4 DEF Shows
    <2>4. \A e \in X \cup Y : Cell(e) \in Cells
      BY OwnCell
    <2>5. \A e \in X \cup Y : ShouldUpdate(Cell(e), m)
      <3>. HIDE DEF m
      <3>1. \A e \in X : ShouldUpdate(Cell(e), m)
        BY <2>1, <2>2, <2>4, CellOrder
      <3>2. \A e \in Y : ShouldUpdate(Cell(e), m)
        BY <2>1, <2>3, <2>4, CellOrder
      <3>. QED BY <3>1, <3>2
    <2>6. \E e \in X \cup Y : m = Cell(e)
      BY <1>4, <2>1 DEF Shows
    <2>7. X \cup Y # {}
      BY <1>4
    <2>. HIDE DEF m
    <2>8. Shows(m, X \cup Y)
      BY <2>5, <2>6, <2>7 DEF Shows
    <2>. QED BY <2>8 DEF m
  <1>. QED BY <1>1, <1>2, <1>3, <1>4

\* The values of the objects held have been seen.
HeldSeen == \A c \in ConnectIds : Filled(held[c]) \subseteq seen[c]

FieldInv == FieldTypeOK /\ HeldSeen /\ RowShowsOwn /\ \A c \in ConnectIds \ rebuilt : Shows(cell[c], seen[c])

\* What an unmerge writes: nothing, or the value and type of an object it holds.
LEMMA RebuildOwn ==
  ASSUME ListAssumption, NEW H \in SUBSET FieldEntries, NEW x \in Rebuilds(H)
  PROVE  /\ x \in Cells
         /\ \/ x = NoCell
            \/ \E e \in Filled(H) : x.type = e.type /\ x.value = e.value
  <1>1. CASE Filled(H) = {}
    BY <1>1 DEF Rebuilds, NoCell, Cells, Never, ListAssumption
  <1>2. CASE Filled(H) # {}
    <2>1. PICK e \in LastWritten(H) : x = [Cell(e) EXCEPT !.ts = ZeroTime]
      BY <1>2 DEF Rebuilds
    <2>2. e \in Filled(H) /\ e \in FieldEntries
      BY <2>1 DEF LastWritten, Filled
    <2>3. x = [type |-> e.type, ts |-> 0, value |-> e.value]
      BY <2>1 DEF Cell, ZeroTime
    <2>. QED BY <2>2, <2>3 DEF FieldEntries, Cells
  <1>. QED BY <1>1, <1>2

\* The types, with the columns of a row as one.
LEMMA FieldTyping ==
  FieldTypeOK <=> /\ cell \in [ConnectIds -> Cells] /\ held \in [ConnectIds -> SUBSET FieldEntries]
             /\ seen \in [ConnectIds -> SUBSET FieldEntries] /\ rebuilt \in SUBSET ConnectIds
  BY DEF FieldTypeOK, Cells

\* A put keeps what a row owes to the entries of its profile.
LEMMA PutFieldStep ==
  ASSUME ListAssumption, FieldInv, NEW c \in ConnectIds, NEW e \in FieldEntries, PutField(c, e)
  PROVE  FieldInv'
  <1>. USE FieldTyping DEF FieldInv
  <1>1. /\ cell' = [cell EXCEPT ![c] = IF e.value = Blank THEN cell[c] ELSE Taken(cell[c], Cell(e))]
        /\ held' = [held EXCEPT ![c] = (held[c] \ Of({e.key}, held[c])) \cup {e}]
        /\ seen' = [seen EXCEPT ![c] = seen[c] \cup Filled({e})]
        /\ rebuilt' = rebuilt
    BY DEF PutField
  <1>2. Cell(e) \in Cells
    BY OwnCell
  <1>3. FieldTypeOK'
    BY <1>1, <1>2 DEF FieldTypeOK, Taken, Filled, Cells
  <1>4. HeldSeen'
    BY <1>1 DEF HeldSeen, Filled
  <1>5. \A d \in ConnectIds : cell'[d] = cell[d] \/ (d = c /\ e.value # Blank /\ cell'[d] = Cell(e))
    BY <1>1 DEF Taken
  <1>6. RowShowsOwn'
    BY <1>1, <1>5 DEF RowShowsOwn, Filled, Cell
  <1>7. ASSUME NEW d \in ConnectIds \ rebuilt' PROVE Shows(cell'[d], seen'[d])
    <2>1. CASE d # c
      BY <1>1, <1>7, <2>1
    <2>2. CASE d = c /\ e.value = Blank
      BY <1>1, <1>7, <2>2 DEF Filled
    <2>3. CASE d = c /\ e.value # Blank
      <3>1. Shows(Cell(e), {e})
        BY <1>2, CellOrder DEF Shows
      <3>2. Shows(Taken(cell[c], Cell(e)), seen[c] \cup {e})
        BY <1>1, <1>2, <1>7, <2>3, <3>1, Combine
      <3>. QED BY <1>1, <2>3, <3>2 DEF Filled
    <2>. QED BY <2>1, <2>2, <2>3
  <1>. QED BY <1>3, <1>4, <1>6, <1>7

\* The same of a merge.
LEMMA MergeFieldStep ==
  ASSUME ListAssumption, FieldInv, NEW a \in ConnectIds, NEW b \in ConnectIds, MergeField(a, b)
  PROVE  FieldInv'
  <1>. USE FieldTyping DEF FieldInv
  <1>1. /\ a # b
        /\ cell' = [cell EXCEPT ![a] = Taken(cell[a], cell[b]), ![b] = NoCell]
        /\ held' = [held EXCEPT ![a] = held[a] \cup held[b], ![b] = {}]
        /\ seen' = [seen EXCEPT ![a] = seen[a] \cup seen[b], ![b] = {}]
        /\ rebuilt' = (rebuilt \ {b}) \cup (IF b \in rebuilt THEN {a} ELSE {})
    BY DEF MergeField
  <1>2. NoCell \in Cells
    BY DEF NoCell, Cells, ListAssumption
  <1>3. FieldTypeOK'
    BY <1>1, <1>2 DEF FieldTypeOK, Taken, Cells
  <1>4. HeldSeen'
    BY <1>1 DEF HeldSeen, Filled
  <1>5. RowShowsOwn'
    BY <1>1 DEF RowShowsOwn, Taken
  <1>6. ASSUME NEW d \in ConnectIds \ rebuilt' PROVE Shows(cell'[d], seen'[d])
    <2>1. CASE d = a
      <3>1. a \notin rebuilt /\ b \notin rebuilt
        BY <1>1, <1>6, <2>1
      <3>2. Shows(Taken(cell[a], cell[b]), seen[a] \cup seen[b])
        BY <3>1, Combine
      <3>. QED BY <1>1, <2>1, <3>2
    <2>2. CASE d = b
      BY <1>1, <2>2 DEF Shows
    <2>3. CASE d # a /\ d # b
      BY <1>1, <1>6, <2>3
    <2>. QED BY <2>1, <2>2, <2>3
  <1>. QED BY <1>3, <1>4, <1>5, <1>6

\* The same of an unmerge.
LEMMA UnmergeFieldStep ==
  ASSUME ListAssumption, FieldInv, NEW a \in ConnectIds, NEW b \in ConnectIds,
         NEW keys \in SUBSET Keys, UnmergeField(a, b, keys)
  PROVE  FieldInv'
  <1>. USE FieldTyping DEF FieldInv
  <1>. DEFINE stay == held[a] \ Of(keys, held[a])
              go   == Of(keys, held[a])
  <1>1. PICK x \in Rebuilds(stay), y \in Rebuilds(go) :
           cell' = [cell EXCEPT ![a] = x, ![b] = y]
    BY DEF UnmergeField
  <1>2. /\ a # b
        /\ held' = [held EXCEPT ![a] = stay, ![b] = go]
        /\ seen' = [seen EXCEPT ![a] = seen[a] \ Of(keys, seen[a]), ![b] = Of(keys, seen[a])]
        /\ rebuilt' = rebuilt \cup {a, b}
    BY DEF UnmergeField
  <1>3. stay \in SUBSET FieldEntries /\ go \in SUBSET FieldEntries /\ Of(keys, seen[a]) \subseteq FieldEntries
    BY DEF Of
  <1>4. /\ Filled(stay) \subseteq seen'[a] /\ Filled(go) \subseteq seen'[b]
    BY <1>2 DEF HeldSeen, Filled, Of
  <1>. HIDE DEF stay, go
  <1>5. x \in Cells /\ y \in Cells
    BY <1>3, RebuildOwn
  <1>6. FieldTypeOK'
    <2>1. cell' \in [ConnectIds -> Cells]
      BY <1>1, <1>5
    <2>2. held' \in [ConnectIds -> SUBSET FieldEntries] /\ seen' \in [ConnectIds -> SUBSET FieldEntries]
          /\ rebuilt' \in SUBSET ConnectIds
      BY <1>2, <1>3
    <2>. QED BY <2>1, <2>2 DEF FieldTypeOK, Cells
  <1>7. HeldSeen'
    BY <1>2, <1>4 DEF HeldSeen
  <1>8. RowShowsOwn'
    <2>1. ASSUME NEW d \in ConnectIds
          PROVE  \/ cell'[d] = NoCell
                 \/ \E e \in seen'[d] : cell'[d].type = e.type /\ cell'[d].value = e.value
      <3>1. CASE d = a
        BY <1>1, <1>2, <1>3, <1>4, <3>1, RebuildOwn
      <3>2. CASE d = b
        BY <1>1, <1>2, <1>3, <1>4, <3>2, RebuildOwn
      <3>3. CASE d # a /\ d # b
        BY <1>1, <1>2, <3>3 DEF RowShowsOwn
      <3>. QED BY <3>1, <3>2, <3>3
    <2>. QED BY <2>1 DEF RowShowsOwn
  <1>9. \A d \in ConnectIds \ rebuilt' : Shows(cell'[d], seen'[d])
    BY <1>1, <1>2
  <1>. QED BY <1>6, <1>7, <1>8, <1>9

(***************************************************************************)
(* Whatever is put, merged and unmerged in whatever order, a row shows a   *)
(* value of its own profile, and the best one unless an unmerge built it.  *)
(* The invariant adds that the values of the objects held have been seen,  *)
(* which is what an unmerge picks from.                                    *)
(***************************************************************************)
THEOREM RowsShowTheirOwn ==
  ASSUME ListAssumption
  PROVE  FieldSpec => [](FieldTypeOK /\ RowShowsOwn /\ RowShowsBest)
  <1>1. FieldInit => FieldInv
    BY FieldTyping DEF FieldInit, FieldInv, FieldTypeOK, HeldSeen, Filled, RowShowsOwn, Shows, NoCell, Cells, ListAssumption
  <1>2. FieldInv /\ [FieldNext]_fieldVars => FieldInv'
    <2>. SUFFICES ASSUME FieldInv, [FieldNext]_fieldVars PROVE FieldInv'
      OBVIOUS
    <2>1. CASE UNCHANGED fieldVars
      BY <2>1 DEF fieldVars, FieldInv, FieldTypeOK, HeldSeen, RowShowsOwn
    <2>2. CASE FieldNext
      BY <2>2, PutFieldStep, MergeFieldStep, UnmergeFieldStep DEF FieldNext
    <2>. QED BY <2>1, <2>2
  <1>3. FieldInv => FieldTypeOK /\ RowShowsOwn /\ RowShowsBest
    BY DEF FieldInv, RowShowsBest, Shows
  <1>. QED BY <1>1, <1>2, <1>3, PTL DEF FieldSpec

\* The object a rebuild takes: none is listed before it, and among objects of one
\* priority none is later.
LEMMA LastIsFirst ==
  ASSUME ListAssumption, NEW H \in SUBSET FieldEntries, NEW w \in LastWritten(H),
         NEW e \in Filled(H), Listed(e.type)
  PROVE  Listed(w.type) /\ Place(w.type) <= Place(e.type)
  <1>1. ~Before(w, e) /\ w \in FieldEntries /\ e \in FieldEntries
    BY DEF LastWritten, Filled
  <1>2. Place(e.type) \in 1 .. Len(Priority) /\ Len(Priority) \in Nat
    BY PrioNat DEF ListAssumption
  <1>3. Listed(w.type) => Place(w.type) \in 1 .. Len(Priority)
    BY PrioNat DEF ListAssumption
  <1>. QED BY <1>1, <1>2, <1>3 DEF Before, FindPriority

(***************************************************************************)
(* An unmerge and the statements before it read the list of priorities in  *)
(* opposite directions: of a profile with objects of two listed types the  *)
(* rebuilt row never shows the type that the puts and merges let win.      *)
(***************************************************************************)
THEOREM RebuildTurnsPriorityRound ==
  ASSUME ListAssumption, NEW H \in SUBSET FieldEntries,
         NEW d \in Filled(H), NEW e \in Filled(H),
         Listed(d.type), Listed(e.type), d.type # e.type,
         NEW w \in LastWritten(H),
         NEW best \in Filled(H), \A f \in Filled(H) : ShouldUpdate(Cell(f), Cell(best))
  PROVE  w.type # best.type
  <1>1. /\ Listed(w.type) /\ Place(w.type) <= Place(d.type) /\ Place(w.type) <= Place(e.type)
    BY LastIsFirst
  <1>2. \A f \in Filled(H) : Prio(f.type) <= Prio(best.type)
    <2>. SUFFICES ASSUME NEW f \in Filled(H) PROVE Prio(f.type) <= Prio(best.type)
      OBVIOUS
    <2>1. ShouldUpdate(Cell(f), Cell(best)) /\ Prio(f.type) \in Nat /\ Prio(best.type) \in Nat
      BY PrioNat
    <2>. QED BY <2>1 DEF ShouldUpdate, Cell
  <1>3. Place(d.type) # Place(e.type) /\ Place(d.type) \in Nat /\ Place(e.type) \in Nat
    BY PrioNat DEF ListAssumption
  <1>4. Place(w.type) \in Nat /\ Prio(w.type) = Place(w.type)
    BY <1>1, PrioNat DEF Prio, ListAssumption
  <1>5. Prio(d.type) = Place(d.type) /\ Prio(e.type) = Place(e.type)
    BY DEF Prio
  <1>6. Prio(best.type) \in Nat
    BY PrioNat
  <1>7. Prio(w.type) # Prio(best.type)
    BY <1>1, <1>2, <1>3, <1>4, <1>5, <1>6
  <1>. QED BY <1>7

(***************************************************************************)
(* With at most one listed type among the objects of a profile the two     *)
(* agree: the rebuilt row shows an object no other one would replace.      *)
(***************************************************************************)
THEOREM RebuildAgreesOnOneType ==
  ASSUME ListAssumption, NEW H \in SUBSET FieldEntries, NEW w \in LastWritten(H),
         \A d, e \in Filled(H) : Listed(d.type) /\ Listed(e.type) => d.type = e.type
  PROVE  \A e \in Filled(H) : ShouldUpdate(Cell(e), Cell(w))
  <1>. SUFFICES ASSUME NEW e \in Filled(H) PROVE ShouldUpdate(Cell(e), Cell(w))
    OBVIOUS
  <1>1. /\ w \in Filled(H) /\ ~Before(w, e)
        /\ w.ts \in Times /\ e.ts \in Times
    BY DEF LastWritten, Filled, FieldEntries
  <1>2. Prio(w.type) \in Nat /\ Prio(e.type) \in Nat
    BY PrioNat
  <1>3. CASE Listed(e.type)
    <2>1. w.type = e.type
      BY <1>1, <1>3, LastIsFirst
    <2>2. FindPriority(w.type) = FindPriority(e.type) /\ Prio(w.type) = Prio(e.type)
      BY <2>1
    <2>3. e.ts <= w.ts
      BY <1>1, <2>2 DEF Before, Times
    <2>. QED BY <1>1, <2>2, <2>3 DEF ShouldUpdate, Cell, Times, Never
  <1>4. CASE ~Listed(e.type) /\ Listed(w.type)
    BY <1>2, <1>4, PrioNat DEF ShouldUpdate, Cell, Prio
  <1>5. CASE ~Listed(e.type) /\ ~Listed(w.type)
    <2>1. FindPriority(w.type) = FindPriority(e.type) /\ Prio(w.type) = Prio(e.type)
      BY <1>5 DEF FindPriority, Prio
    <2>2. e.ts <= w.ts
      BY <1>1, <2>1 DEF Before, Times
    <2>. QED BY <1>1, <2>1, <2>2 DEF ShouldUpdate, Cell, Times, Never
  <1>. QED BY <1>3, <1>4, <1>5
=============================================================================
