--------------------------- MODULE ProfileLineage ---------------------------
(***************************************************************************)
(* Unmerging and deleting profiles over the Aurora tables of one domain.   *)
(* Both run in one transaction; what they depend on is the history of all  *)
(* merges, unmerges and deletions, from which an unmerge works out which   *)
(* profile_ids it has to take along (buildLineageForProfile).              *)
(*                                                                         *)
(* Operations run one after the other; a put and a merge are single steps  *)
(* here, which is what ProfileStore shows of them.                         *)
(***************************************************************************)
EXTENDS Integers, Sequences, FiniteSetsExt

CONSTANTS
    ProfileIds,    \* profile_id values of the ingested records
    Facts,         \* bound: the objects ever put, each a profile_id with a unique key
    MaxIds,        \* bound: connect ids ever generated
    MaxMatches,    \* bound: puts of a new profile_id that find a match
    MaxMerges,     \* bound: merges of two profiles
    MaxUnmerges,   \* bound: unmerges
    MaxDeletes,    \* bound: deletions of profiles
    MaxOperations, \* bound: of these four together
    Tangled,       \* bound: whether profiles with a history that is not plain are unmerged
    HistoryDepth   \* PROFILE_HISTORY_DEPTH, 1000 in the code

ASSUME LineageBounds ==
    /\ \A o \in Facts : o[1] \in ProfileIds
    /\ MaxIds \in Nat \ {0}
    /\ Tangled \in BOOLEAN
    /\ {MaxMatches, MaxMerges, MaxUnmerges, MaxDeletes, MaxOperations, HistoryDepth} \subseteq Nat

Ids   == 1 .. MaxIds
NoId  == 0               \* also the empty uuid of a deletion record

VARIABLES
    connect,       \* master: current connect_id of a profile_id, or NoId
    original,      \* master: original_connect_id of a profile_id, or NoId
    inter,         \* interaction table: connect_id of an object, or NoId
    searched,      \* connect ids that have a search row
    fields,        \* search row: the objects whose fields it holds
    log,           \* history table, in the order of its timestamps
    profileCount,  \* count table, entry of the profiles
    objectCount,   \* count table, entry of the one object type
    nextId,        \* the next uuid
    used           \* how often each operation ran

vars == <<connect, original, inter, searched, fields, log,
          profileCount, objectCount, nextId, used>>

Kinds == {"merge", "unmerge", "delete"}   \* merge_type, the merges taken together
Entry(kind, into, from) == [kind |-> kind, into |-> into, from |-> from]

Operations == Kinds \cup {"match"}

Limit == [op \in Operations |-> CASE op = "match"   -> MaxMatches
                                  [] op = "merge"   -> MaxMerges
                                  [] op = "unmerge" -> MaxUnmerges
                                  [] op = "delete"  -> MaxDeletes]

Spent == used["match"] + used["merge"] + used["unmerge"] + used["delete"]

Spend(op) ==
    /\ used[op] < Limit[op] /\ Spent < MaxOperations
    /\ used' = [used EXCEPT ![op] = @ + 1]

Init ==
    /\ connect  = [p \in ProfileIds |-> NoId]
    /\ original = [p \in ProfileIds |-> NoId]
    /\ inter    = [f \in Facts |-> NoId]
    /\ searched = {}
    /\ fields   = [c \in Ids |-> {}]
    /\ log      = <<>>
    /\ profileCount = 0
    /\ objectCount  = 0
    /\ nextId   = 1
    /\ used     = [op \in Operations |-> 0]

Rows       == {p \in ProfileIds : connect[p] # NoId}
Current    == {connect[p] : p \in Rows}
Stored     == {f \in Facts : inter[f] # NoId}
Resolve(u) == {connect[p] : p \in {q \in Rows : original[q] = u}}

----------------------------------------------------------------------------
(* Reading the history *)

Entries == DOMAIN log

(***************************************************************************)
(* RetrieveProfileHistory: the recursive query.  A row stands for one way  *)
(* down: the merges into the root first, then every entry whose            *)
(* merged_into is the to_merge of the row before.  Only the first level    *)
(* and the rows joined to leave unmerges out.                              *)
(***************************************************************************)
End(row) == log[row[Len(row)]]

FirstRows(root) == {<<k>> : k \in {j \in Entries : log[j].into = root /\ log[j].kind # "unmerge"}}

RowsBelow(rows) ==
    {Append(r[1], r[2]) : r \in {x \in {w \in rows : End(w).kind # "unmerge"} \X Entries :
                                   log[x[2]].into = End(x[1]).from}}

HistoryOf(root) ==
    LET rows[d \in 0 .. HistoryDepth] ==
            IF d = 0 THEN FirstRows(root)
            ELSE LET found == rows[d - 1] IN found \cup RowsBelow(found)
    IN  rows[HistoryDepth]

\* Mutant: unmerges are not taken out again.
NoUnmerges(hist, root) == {}

\* getUnmerges: unmerges from or of an id of the list.
UnmergesAmong(hist, root) ==
    LET list == {root} \cup {End(r).from : r \in hist}
    IN  {k \in Entries : /\ log[k].kind = "unmerge"
                         /\ log[k].into \in list \/ log[k].from \in list}

(***************************************************************************)
(* The children map as a set of edges: rows of the history are counted up, *)
(* each unmerge counts down once under every parent its id has there.      *)
(***************************************************************************)
Edge(entry) == <<entry.into, entry.from>>

Children(root) ==
    LET hist     == HistoryOf(root)
        unmerged == UnmergesAmong(hist, root)
        merges(e)   == Cardinality({r \in hist : Edge(End(r)) = e})
        unmerges(e) == Cardinality({k \in unmerged : log[k].from = e[2]})
    IN  {e \in {Edge(End(r)) : r \in hist} : merges(e) > unmerges(e)}

\* Sets of ids that hold the children of their members.
Closed(kids) == {S \in SUBSET Ids : \A e \in kids : e[1] \in S => e[2] \in S}

Reached(kids, root) ==
    LET closed == Closed(kids)
    IN  {i \in Ids : \A S \in closed : root \in S => i \in S}

\* buildDescendantsFromMap: everything reachable from the root.
Descendants(root) == Reached(Children(root), root)

\* Mutant: only the profile itself is taken out.
OnlyItself(u) == {p \in Rows : original[p] = u}

\* buildLineageForProfile: the profile_ids created with one of these ids.
LineageOf(u) == {p \in Rows : original[p] \in Descendants(u)}

\* getMergesLeadingToParent follows to_merge -> merged_into without a bound on
\* the depth: on a cycle of the history the query does not come back.
Answers(u) ==
    LET above(S) == {log[k].into : k \in {j \in Entries : log[j].from \in S}}
        level[d \in 0 .. Len(log)] == IF d = 0 THEN above({u}) ELSE above(level[d - 1])
    IN  level[Len(log)] = {}

----------------------------------------------------------------------------
(* Plain histories *)

Merges   == {k \in Entries : log[k].kind = "merge"}
Unmerges == {k \in Entries : log[k].kind = "unmerge"}

\* The merges that stand: the last word on the id that was merged.
Live == {k \in Merges : \A j \in k + 1 .. Len(log) : log[j].from # log[k].from}

\* The id each id is merged into by the history.
ParentsByLog ==
    LET live == Live
    IN  [i \in Ids |-> LET of == {k \in live : log[k].from = i}
                       IN  IF of = {} THEN NoId ELSE log[CHOOSE k \in of : TRUE].into]

(***************************************************************************)
(* The sums are right about u when of all that was ever merged into u,     *)
(* directly or not, only what was merged into u itself has been unmerged,  *)
(* and if that was merged anywhere else since, it is not part of u again.  *)
(***************************************************************************)
Plain(u) ==
    LET tree == Reached({Edge(log[k]) : k \in Merges}, u)
    IN  \A k \in Unmerges, j \in Merges :
            LET i == log[k].from
            IN  i \in tree \ {u} /\ log[j].from = i =>
                    \/ log[j].into = u
                    \/ log[j].into \notin tree /\ ParentsByLog[i] # u

----------------------------------------------------------------------------
(* Operations *)

\* What every put does to the profile c it ends up in.
Stow(o, c) ==
    /\ searched' = searched \cup {c}
    /\ fields'   = [fields EXCEPT ![c] = @ \cup {o}]
    /\ inter'    = [inter EXCEPT ![o] = c]
    /\ objectCount' = objectCount + 1

\* A put of a profile_id that has a master row: the profile of that row.
PutKnown(o) ==
    /\ connect[o[1]] # NoId /\ inter[o] = NoId
    /\ Stow(o, connect[o[1]])
    /\ UNCHANGED <<connect, original, log, profileCount, nextId, used>>

\* A put of a new profile_id: a master row under the profile c, one profile more.
PutNew(o, c) ==
    /\ connect[o[1]] = NoId /\ inter[o] = NoId
    /\ nextId <= MaxIds
    /\ nextId'   = nextId + 1
    /\ connect'  = [connect  EXCEPT ![o[1]] = c]
    /\ original' = [original EXCEPT ![o[1]] = nextId]
    /\ profileCount' = profileCount + 1
    /\ Stow(o, c)

\* PutProfileObject of a new profile_id that matches no profile.
Put(o) == PutNew(o, nextId) /\ UNCHANGED <<log, used>>

\* Mutant: the uuid of the new profile_id is not known yet.
BlankEntry(m) == Entry("merge", m, NoId)

MatchEntry(m) == Entry("merge", m, nextId)

\* The new profile_id is put under the profile it matches; the fresh uuid is
\* recorded as merged into it, and the profile is counted all the same.
PutMatched(o, m) ==
    /\ Spend("match")
    /\ log' = Append(log, MatchEntry(m))
    /\ PutNew(o, m)

\* MergeProfiles of two profiles as they are now.
Merge(s, t) ==
    /\ s # t
    /\ Spend("merge")
    /\ connect'  = [p \in ProfileIds |-> IF connect[p] = s THEN t ELSE connect[p]]
    /\ inter'    = [f \in Facts |-> IF inter[f] = s THEN t ELSE inter[f]]
    /\ searched' = searched \ {s}
    /\ fields'   = [fields EXCEPT ![t] = @ \cup fields[s], ![s] = {}]
    /\ log'      = Append(log, Entry("merge", t, s))
    /\ profileCount' = profileCount - 1
    /\ UNCHANGED <<original, objectCount, nextId>>

\* Mutant: the search row of the profile it is taken from is left as it was.
RebuiltOne(u, m) == {u}

\* recreatedMasterRecordFromInteractions for both profiles.
Rebuilt(u, m) == {u, m}
CountedBack   == 1

(***************************************************************************)
(* UnmergeProfiles: u is taken out of m, the profile it is part of now     *)
(* (the one an agent looks at), in one transaction: master rows and        *)
(* objects of the lineage move to u, both search rows are made anew from   *)
(* the objects.                                                            *)
(***************************************************************************)
Unmerge(u, m) ==
    LET pids == LineageOf(u)
    IN  /\ Spend("unmerge")
        /\ Resolve(u) = {m} /\ m # u
        /\ Answers(u)
        /\ Tangled \/ Plain(u)
        /\ connect'  = [p \in ProfileIds |-> IF p \in pids THEN u ELSE connect[p]]
        /\ inter'    = [f \in Facts |-> IF f \in Stored /\ f[1] \in pids
                                        THEN u ELSE inter[f]]
        /\ log'      = Append(log, Entry("unmerge", m, u))
        /\ searched' = searched \cup Rebuilt(u, m)
        /\ fields'   = [c \in Ids |-> IF c \in Rebuilt(u, m)
                                      THEN {f \in Stored : inter'[f] = c}
                                      ELSE fields[c]]
        /\ profileCount' = profileCount + CountedBack
        /\ UNCHANGED <<original, objectCount, nextId>>

\* Mutant: the master rows of profiles merged in before stay behind.
OwnRow(c) == {p \in Rows : original[p] = c}

\* DELETE FROM master WHERE connect_id = ...
DeletedRows(c) == {p \in Rows : connect[p] = c}

(***************************************************************************)
(* DeleteProfile of the profile an id is part of now, committed.  When a   *)
(* statement fails the transaction is rolled back and nothing is done.     *)
(* The counter of an object type goes down by one, whatever was deleted.   *)
(***************************************************************************)
Delete(c) ==
    /\ Spend("delete")
    /\ inter'    = [f \in Facts |-> IF inter[f] = c THEN NoId ELSE inter[f]]
    /\ log'      = Append(log, Entry("delete", NoId, c))
    /\ connect'  = [p \in ProfileIds |-> IF p \in DeletedRows(c) THEN NoId ELSE connect[p]]
    /\ original' = [p \in ProfileIds |-> IF p \in DeletedRows(c) THEN NoId ELSE original[p]]
    /\ profileCount' = profileCount - 1
    /\ objectCount'  = objectCount - 1
    /\ searched' = searched \ {c}
    /\ fields'   = [fields EXCEPT ![c] = {}]
    /\ UNCHANGED nextId

Next ==
    \/ \E o \in Facts : PutKnown(o) \/ Put(o) \/ \E m \in Current : PutMatched(o, m)
    \/ \E s, t \in Current : Merge(s, t)
    \/ \E p \in Rows : Unmerge(original[p], connect[p])
    \/ \E c \in Current : Delete(c)

Spec == Init /\ [][Next]_vars

----------------------------------------------------------------------------
(* Refinement *)

Forest == INSTANCE MergeForest WITH
              parent <- ParentsByLog, born <- original, owner <- connect

\* The master table is the forest of merges not undone: a merge, an unmerge or a
\* deletion moves the profile_ids of one tree, all of them and no others.
ForestSpec == Forest!Spec

----------------------------------------------------------------------------
(* Properties *)

\* Every table holds values of its type.
TypeOK ==
    /\ connect  \in [ProfileIds -> Ids \cup {NoId}]
    /\ original \in [ProfileIds -> Ids \cup {NoId}]
    /\ inter    \in [Facts -> Ids \cup {NoId}]
    /\ searched \in SUBSET Ids
    /\ fields   \in [Ids -> SUBSET Facts]
    /\ log      \in Seq([kind : Kinds, into : Ids \cup {NoId}, from : Ids])
    /\ {profileCount, objectCount} \subseteq Int
    /\ nextId   \in 1 .. MaxIds + 1
    /\ used     \in [Operations -> Nat]

(***************************************************************************)
(* After any sequence of operations the three tables and the counter tell  *)
(* one story, whether puts and merges built a search row or an unmerge did *)
(* anew: the objects of a profile_id are in its profile, a search row      *)
(* holds just the objects of its profile, the profiles with a row are      *)
(* those of the master table, and the counter counts them, except that a   *)
(* put that landed on its match was counted as a profile: by just those    *)
(* puts it is too high (InsertProfileObjectWithPreMatch).                  *)
(***************************************************************************)
TablesAgree ==
    /\ \A f \in Stored : inter[f] = connect[f[1]]
    /\ \A c \in Ids : fields[c] = {f \in Stored : inter[f] = c}
    /\ searched = Current
    /\ profileCount = Cardinality(Current) + used["match"]

(***************************************************************************)
(* An unmerge moves profile_ids out of the profile it unmerges from, but   *)
(* not the one that profile was created for, and leaves every other        *)
(* profile alone: the lineage of the unmerged id holds no profile that had *)
(* been unmerged from it before, nor one it is merged into itself.         *)
(***************************************************************************)
UnmergeLeavesOthers ==
    [][\A u, m \in Ids : Unmerge(u, m) =>
          \A p \in ProfileIds : connect'[p] # connect[p] =>
              connect[p] = m /\ original[p] # m]_vars
=============================================================================
