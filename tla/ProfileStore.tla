---------------------------- MODULE ProfileStore ----------------------------
(***************************************************************************)
(* The Aurora tables of one domain of the low-cost profile store and the   *)
(* two code paths that write them: PutProfileObject (ingestion lambdas)    *)
(* and the merge of two profiles (merge lambdas).                          *)
(*                                                                         *)
(*   master table       profile_id -> connect_id, original_connect_id      *)
(*   search table       connect_id -> the profile level fields             *)
(*   interaction tables (profile_id, unique key) -> connect_id             *)
(*   history table      merges, as <<merged_into, to_merge>>               *)
(*   count table        number of profiles, number of objects              *)
(*   rule index table   connect ids the identity resolution can match      *)
(*                                                                         *)
(* A worker is one lambda invocation.  An action is what the database      *)
(* makes atomic: one autocommitted statement or one committed transaction; *)
(* workers interleave between them.  Row locks on the search table are the *)
(* only ones two transactions can wait for each other on, so they are the  *)
(* only ones kept.                                                         *)
(***************************************************************************)
EXTENDS Integers, FiniteSets

CONSTANTS
    ProfileIds,        \* profile_id values of the ingested records
    Keys,              \* unique object keys of a profile's records
    Workers,           \* concurrent lambda invocations
    MaxIds,            \* bound: connect ids ever generated
    MaxPuts,           \* bound: objects ingested
    MaxMerges,         \* bound: merges asked for from outside the store
    MaxPutFailures,    \* bound: failed statements of a put
    MaxMergeFailures,  \* bound: failed statements of a merge
    MaxCrashes,        \* bound: invocations that die half way
    RuleBased          \* domain option RuleBaseIdResolutionOn, rules active

ASSUME WorkersAssumption == Workers # {}
ASSUME DataAssumption    == IsFiniteSet(ProfileIds) /\ IsFiniteSet(Keys)
ASSUME BoundsAssumption  ==
    /\ MaxIds \in Nat \ {0}
    /\ {MaxPuts, MaxMerges, MaxPutFailures, MaxMergeFailures, MaxCrashes} \subseteq Nat
ASSUME RulesAssumption   == RuleBased \in BOOLEAN

Ids   == 1 .. MaxIds            \* connect ids (uuids), handed out in order
NoId  == 0
Facts == ProfileIds \X Keys     \* an object, and what it adds to the search row

VARIABLES
    connect,       \* master: current connect_id of a profile_id, or NoId
    original,      \* master: original_connect_id of a profile_id, or NoId
    searched,      \* connect ids that have a search row
    fields,        \* search row: the objects whose fields it has absorbed
    inter,         \* interaction tables: connect_id of an object, or NoId
    history,       \* history table
    profileCount,  \* count table, entry of the profiles
    objectCount,   \* count table, entries of the objects
    indexed,       \* connect ids in the rule index table
    queue,         \* merge queue: requests <<source, target>> not yet done
    nextId,        \* the next uuid
    job,           \* what each worker is doing
    used           \* how much of each bound is spent

master  == <<connect, original>>
search  == <<searched, fields>>
counts  == <<profileCount, objectCount>>
tables  == <<connect, original, searched, fields, inter, history,
             profileCount, objectCount, indexed>>
vars    == <<connect, original, searched, fields, inter, history,
             profileCount, objectCount, indexed, queue, nextId, job, used>>

Phases == {"idle",
           "putMatch", "putMaster", "putHistory", "putTx", "putUndo", "putPublish",
           "mergeSource", "mergeTarget", "mergeCheck", "mergeMaster",
           "mergeSearch", "mergeTx", "mergeUndo", "mergeFinish"}

Bounds == {"puts", "merges", "putFailures", "mergeFailures", "crashes"}

Limit == [b \in Bounds |->
            CASE b = "puts"          -> MaxPuts
              [] b = "merges"        -> MaxMerges
              [] b = "putFailures"   -> MaxPutFailures
              [] b = "mergeFailures" -> MaxMergeFailures
              [] b = "crashes"       -> MaxCrashes]

Spend(b) == used[b] < Limit[b] /\ used' = [used EXCEPT ![b] = @ + 1]

(***************************************************************************)
(* The local variables of an invocation.                                   *)
(*   put:   obj, match and rest (the matches found), fresh (the uuid made  *)
(*          for this attempt), cid (connectID), up (upsertType), try       *)
(*   merge: rq (the queue message), src (connectIdToMerge), tgt            *)
(*          (connectIdMerged), pids (rows the master update returned),     *)
(*          carry (what the search update read from the old row), holds    *)
(*          (that update locked the surviving row)                         *)
(***************************************************************************)
IdOrNone == Ids \cup {NoId}
NoPair   == <<NoId, NoId>>

Jobs == [pc : Phases, obj : Facts \cup {NoPair},
         match : IdOrNone, rest : SUBSET Ids, fresh : IdOrNone, cid : IdOrNone,
         up : {"insert", "update"}, try : {1, 2},
         rq : IdOrNone \X IdOrNone, src : IdOrNone, tgt : IdOrNone,
         pids : SUBSET ProfileIds, carry : SUBSET Facts, holds : BOOLEAN]

Idle == [pc |-> "idle", obj |-> NoPair,
         match |-> NoId, rest |-> {}, fresh |-> NoId, cid |-> NoId,
         up |-> "update", try |-> 1,
         rq |-> NoPair, src |-> NoId, tgt |-> NoId,
         pids |-> {}, carry |-> {}, holds |-> FALSE]

Init ==
    /\ connect  = [p \in ProfileIds |-> NoId]
    /\ original = [p \in ProfileIds |-> NoId]
    /\ searched = {}
    /\ fields   = [c \in Ids |-> {}]
    /\ inter    = [f \in Facts |-> NoId]
    /\ history  = {}
    /\ profileCount = 0
    /\ objectCount  = 0
    /\ indexed  = {}
    /\ queue    = {}
    /\ nextId   = 1
    /\ job      = [w \in Workers |-> Idle]
    /\ used     = [b \in Bounds |-> 0]

At(w, pc)      == job[w].pc = pc
Become(w, j)   == job' = [job EXCEPT ![w] = j]
Goto(w, pc)    == Become(w, [job[w] EXCEPT !.pc = pc])
Finish(w)      == Become(w, Idle)

----------------------------------------------------------------------------
(* Reads of the tables *)

Rows       == {p \in ProfileIds : connect[p] # NoId}
OwnedBy(c) == {p \in Rows : connect[p] = c}
Current    == {connect[p] : p \in Rows}

\* connect_id of the master rows WHERE original_connect_id = u: one or none.
Resolve(u) == {connect[p] : p \in {q \in Rows : original[q] = u}}

\* GetProfileSearchRecord: the search row reached from id u through the master.
SearchHit(u) == Resolve(u) \cap searched

\* Search row c is locked by a merge transaction of a worker other than w.
LockedFor(w, c) == \E x \in Workers \ {w} :
                       At(x, "mergeTx") /\ job[x].holds /\ job[x].tgt = c

\* The search row the next statement of worker w has to lock.
Wanted(w) == CASE At(w, "mergeSearch")      -> job[w].tgt
               [] At(w, "mergeTx")          -> job[w].src
               [] OTHER                     -> NoId

WaitsFor(w, x) == /\ x # w
                  /\ At(x, "mergeTx") /\ job[x].holds
                  /\ job[x].tgt = Wanted(w)

\* A set of transactions each of which waits for another: Postgres aborts one.
Deadlocked(w) == \E S \in SUBSET Workers :
                     w \in S /\ \A x \in S : \E y \in S : WaitsFor(x, y)

----------------------------------------------------------------------------
(* PutProfileObject *)

StartPut(w, o) ==
    /\ At(w, "idle")
    /\ Spend("puts")
    /\ Become(w, [Idle EXCEPT !.pc = IF RuleBased THEN "putMatch" ELSE "putMaster",
                              !.obj = o])
    /\ UNCHANGED <<tables, queue, nextId>>

(***************************************************************************)
(* FindMatches reads the rule index (on the reader endpoint).  Which ids   *)
(* match depends on the data: any indexed id may, m is matches[0], r the   *)
(* first ids of the other matches.                                         *)
(***************************************************************************)
PutMatch(w) ==
    /\ At(w, "putMatch")
    /\ \/ Goto(w, "putMaster")
       \/ \E m \in indexed : \E r \in SUBSET indexed :
              Become(w, [job[w] EXCEPT !.pc = "putMaster", !.match = m, !.rest = r])
    /\ UNCHANGED <<tables, queue, nextId, used>>

\* Mutant: ON CONFLICT(profile_id) takes the connect_id of the insert.
HomeAnew(w) == IF job[w].match # NoId THEN job[w].match ELSE nextId

\* A profile_id stays with its connect_id; a new one goes to the match, if any.
Home(w) == IF connect[job[w].obj[1]] # NoId THEN connect[job[w].obj[1]]
           ELSE IF job[w].match # NoId THEN job[w].match ELSE nextId

(***************************************************************************)
(* INSERT ... ON CONFLICT(profile_id) into the master table, autocommitted *)
(* before the transaction: a new row is put under the match if there is    *)
(* one, an existing row keeps its connect_id.  All the matches remain to   *)
(* be merged unless the first one is where the profile now is.             *)
(***************************************************************************)
PutMaster(w) ==
    LET j       == job[w]
        p       == j.obj[1]
        isNew   == connect[p] = NoId
        matched == j.match # NoId
        home    == Home(w)
        merged  == matched /\ home = j.match
        drawn   == IF isNew \/ matched THEN 1 ELSE 0
    IN  /\ At(w, "putMaster")
        /\ nextId + drawn <= MaxIds + 1
        /\ nextId' = nextId + drawn
        /\ connect'  = [connect  EXCEPT ![p] = home]
        /\ original' = [original EXCEPT ![p] = IF isNew THEN nextId ELSE @]
        /\ Become(w, [j EXCEPT
               !.pc    = IF merged THEN "putHistory" ELSE "putTx",
               !.cid   = home,
               !.up    = IF isNew THEN "insert" ELSE "update",
               !.fresh = IF matched THEN nextId ELSE NoId,
               !.rest  = IF matched /\ ~merged THEN @ \cup {j.match} ELSE @])
        /\ UNCHANGED <<search, inter, history, counts, indexed, queue, used>>

\* Mutant: the id that is merged away is left out.
PutHistoryBlank(w) ==
    /\ At(w, "putHistory")
    /\ history' = history \cup {<<job[w].cid, NoId>>}
    /\ Goto(w, "putTx")
    /\ UNCHANGED <<master, search, inter, counts, indexed, queue, nextId, used>>

\* A put that landed on its first match records the merge of its fresh uuid.
PutHistory(w) ==
    /\ At(w, "putHistory")
    /\ history' = history \cup {<<job[w].cid, job[w].fresh>>}
    /\ Goto(w, "putTx")
    /\ UNCHANGED <<master, search, inter, counts, indexed, queue, nextId, used>>

\* Mutants: the upsert replaces the row, the counters move on every upsert.
OnlyThisObject(w) == {job[w].obj}
OneMore(w)        == 1

\* The upsert of the search row keeps what is there and adds the object's fields.
UpsertedRow(w) == fields[job[w].cid] \cup {job[w].obj}

\* The counters move for an insert and not for an update.
NewProfiles(w) == IF job[w].up = "insert" THEN 1 ELSE 0
NewObjects(w)  == IF inter[job[w].obj] = NoId THEN 1 ELSE 0

(***************************************************************************)
(* The transaction of the put, committed: search row upserted, profile     *)
(* count, object upserted (an object already there keeps its connect_id),  *)
(* object count.                                                           *)
(***************************************************************************)
PutTx(w) ==
    LET o == job[w].obj
        c == job[w].cid
    IN  /\ At(w, "putTx")
        /\ ~LockedFor(w, c)
        /\ searched' = searched \cup {c}
        /\ fields'   = [fields EXCEPT ![c] = UpsertedRow(w)]
        /\ profileCount' = profileCount + NewProfiles(w)
        /\ inter'    = [inter EXCEPT ![o] = IF @ = NoId THEN c ELSE @]
        /\ objectCount' = objectCount + NewObjects(w)
        /\ Goto(w, "putPublish")
        /\ UNCHANGED <<master, history, indexed, queue, nextId, used>>

\* InsertProfileObjectWithPreMatch returned an error: once more from the top.
Retry(w) ==
    Become(w, IF job[w].try = 1
              THEN [Idle EXCEPT !.pc = IF RuleBased THEN "putMatch" ELSE "putMaster",
                                !.obj = job[w].obj, !.try = 2]
              ELSE Idle)

\* A statement outside the transaction fails: nothing is undone.
PutFail(w) ==
    /\ job[w].pc \in {"putMaster", "putHistory"}
    /\ Spend("putFailures")
    /\ Retry(w)
    /\ UNCHANGED <<tables, queue, nextId>>

(***************************************************************************)
(* The transaction fails: "begin" before it starts, "early" up to and      *)
(* including the object upsert, "late" after it.  rollbackInsert then      *)
(* deletes the search row when upsertType is "insert", and a late failure  *)
(* finds the object's upsert type in that variable.                        *)
(***************************************************************************)
PutTxFail(w, stage) ==
    LET up == CASE stage = "begin" -> "update"
                [] stage = "early" -> job[w].up
                [] stage = "late"  -> IF inter[job[w].obj] = NoId
                                      THEN "insert" ELSE "update"
    IN  /\ At(w, "putTx")
        /\ ~LockedFor(w, job[w].cid)
        /\ Spend("putFailures")
        /\ IF up = "insert" THEN Goto(w, "putUndo") ELSE Retry(w)
        /\ UNCHANGED <<tables, queue, nextId>>

PutUndo(w) ==
    LET c == job[w].cid
    IN  /\ At(w, "putUndo")
        /\ ~LockedFor(w, c)
        /\ searched' = searched \ {c}
        /\ fields'   = [fields EXCEPT ![c] = {}]
        /\ Retry(w)
        /\ UNCHANGED <<master, inter, history, counts, indexed, queue, nextId, used>>

\* sendRuleBasedMatches: one request per match left over, from the fresh uuid.
Requests(w) == {<<job[w].fresh, m>> : m \in job[w].rest}

\* After the commit: re-read the profile, index it, queue the other matches.
PutPublish(w) ==
    /\ At(w, "putPublish")
    /\ Finish(w)
    /\ IF SearchHit(job[w].cid) = {} \/ ~RuleBased
       THEN UNCHANGED <<indexed, queue>>
       ELSE indexed' = indexed \cup {job[w].cid} /\ queue' = queue \cup Requests(w)
    /\ UNCHANGED <<master, search, inter, history, counts, nextId, used>>

\* The read may fail, or only the indexing, or sending from some request on:
\* after the commit nothing is undone and nothing tried again.
PutPublishFail(w) ==
    /\ At(w, "putPublish") /\ RuleBased
    /\ Spend("putFailures")
    /\ Finish(w)
    /\ IF SearchHit(job[w].cid) = {}
       THEN UNCHANGED <<indexed, queue>>
       ELSE /\ indexed' \in {indexed, indexed \cup {job[w].cid}}
            /\ \E sent \in SUBSET Requests(w) : queue' = queue \cup sent
    /\ UNCHANGED <<master, search, inter, history, counts, nextId>>

----------------------------------------------------------------------------
(* Merges *)

\* The match lambda asks for a merge of two profiles (AI matches).
RequestMerge(s, t) ==
    /\ s # t
    /\ Spend("merges")
    /\ queue' = queue \cup {<<s, t>>}
    /\ UNCHANGED <<tables, nextId, job>>

\* The transformer or an agent's request calls MergeProfiles itself, with ids
\* that were current when they were looked up.
DirectMerge(w, s, t) ==
    /\ At(w, "idle")
    /\ s # t
    /\ Spend("merges")
    /\ Become(w, [Idle EXCEPT !.pc = "mergeCheck", !.src = s, !.tgt = t])
    /\ UNCHANGED <<tables, queue, nextId>>

\* A merge lambda receives a message.  It stays queued until it succeeds.
TakeRequest(w, r) ==
    /\ At(w, "idle")
    /\ Become(w, [Idle EXCEPT !.pc = "mergeSource", !.rq = r])
    /\ UNCHANGED <<tables, queue, nextId, used>>

\* The request is done: the message is deleted.
Succeed(w) == Finish(w) /\ queue' = queue \ {job[w].rq}

\* The request failed: the message will be delivered again.
GiveUp(w) == Finish(w) /\ UNCHANGED queue

MergeSource(w) ==
    /\ At(w, "mergeSource")
    /\ \/ \E s \in Resolve(job[w].rq[1]) :
              Become(w, [job[w] EXCEPT !.pc = "mergeTarget", !.src = s])
       \/ Resolve(job[w].rq[1]) = {} /\ Finish(w)
    /\ UNCHANGED <<tables, queue, nextId, used>>

MergeTarget(w) ==
    /\ At(w, "mergeTarget")
    /\ \/ \E t \in Resolve(job[w].rq[2]) \ {job[w].src} :
              /\ Become(w, [job[w] EXCEPT !.pc = "mergeCheck", !.tgt = t])
              /\ UNCHANGED queue
       \/ job[w].src \in Resolve(job[w].rq[2]) /\ Succeed(w)
       \/ Resolve(job[w].rq[2]) = {} /\ GiveUp(w)
    /\ UNCHANGED <<tables, nextId, used>>

\* MergeProfiles re-reads connectIdToMerge; already merged counts as success.
MergeCheck(w) ==
    LET hit == SearchHit(job[w].src)
    IN  /\ At(w, "mergeCheck")
        /\ \/ \E s \in hit \ {job[w].tgt} :
                  /\ Become(w, [job[w] EXCEPT !.pc = "mergeMaster", !.src = s])
                  /\ UNCHANGED queue
           \/ job[w].tgt \in hit /\ Succeed(w)
           \/ hit = {} /\ GiveUp(w)
        /\ UNCHANGED <<tables, nextId, used>>

\* UPDATE master SET connect_id, autocommitted before the transaction.
MergeMaster(w) ==
    LET pids == OwnedBy(job[w].src)
    IN  /\ At(w, "mergeMaster")
        /\ connect' = [p \in ProfileIds |->
                          IF p \in pids THEN job[w].tgt ELSE connect[p]]
        /\ IF pids = {}
           THEN Finish(w)
           ELSE Become(w, [job[w] EXCEPT !.pc = "mergeSearch", !.pids = pids])
        /\ UNCHANGED <<original, search, inter, history, counts, indexed,
                       queue, nextId, used>>

(***************************************************************************)
(* First statement of the transaction: the surviving search row is locked  *)
(* and takes the old row's fields as they are now (both rows must exist).  *)
(***************************************************************************)
MergeSearch(w) ==
    LET j    == job[w]
        both == {j.src, j.tgt} \subseteq searched
    IN  /\ At(w, "mergeSearch")
        /\ ~LockedFor(w, j.tgt)
        /\ Become(w, [j EXCEPT !.pc = "mergeTx", !.holds = both,
                               !.carry = IF both THEN fields[j.src] ELSE {}])
        /\ UNCHANGED <<tables, queue, nextId, used>>

\* Mutants: the wrong search row is deleted, or none; objects stay; no history.
TargetRow(w) == {job[w].tgt}
Nothing(w)   == {}

OldRow(w)       == {job[w].src}
MovedObjects(w) == {f \in Facts : inter[f] = job[w].src}
MergeLog(w)     == {<<job[w].tgt, job[w].src>>}

(***************************************************************************)
(* The rest of the transaction, committed: old search row deleted, objects *)
(* moved, history, profile count.                                          *)
(***************************************************************************)
MergeTx(w) ==
    LET j == job[w]
    IN  /\ At(w, "mergeTx")
        /\ ~LockedFor(w, j.src)
        /\ searched' = searched \ OldRow(w)
        /\ fields'   = [fields EXCEPT ![j.tgt] = @ \cup j.carry, ![j.src] = {}]
        /\ inter'    = [f \in Facts |-> IF f \in MovedObjects(w) THEN j.tgt ELSE inter[f]]
        /\ history'  = history \cup MergeLog(w)
        /\ profileCount' = profileCount - 1
        /\ Goto(w, "mergeFinish")
        /\ UNCHANGED <<master, objectCount, indexed, queue, nextId, used>>

\* A statement of the transaction fails, or Postgres breaks a deadlock with it.
MergeTxFail(w) ==
    /\ job[w].pc \in {"mergeSearch", "mergeTx"}
    /\ \/ Deadlocked(w) /\ UNCHANGED used
       \/ Spend("mergeFailures")
    /\ Become(w, [job[w] EXCEPT !.pc = "mergeUndo", !.holds = FALSE])
    /\ UNCHANGED <<tables, queue, nextId>>

\* Mutant: the master table is left as the failed merge made it.
NotRestored(w) == connect

\* rollbackMasterTableChanges
Restored(w) == [p \in ProfileIds |->
                   IF p \in job[w].pids THEN job[w].src ELSE connect[p]]

\* Mutant: a merge that failed and was undone is reported as done.
MergeUndoDrops(w) ==
    /\ At(w, "mergeUndo")
    /\ connect' = Restored(w)
    /\ Succeed(w)
    /\ UNCHANGED <<original, search, inter, history, counts, indexed, nextId, used>>

(***************************************************************************)
(* rollbackMerge gives the rows back to the old id.  The check whether the *)
(* profiles "have already been merged" that follows is a query Postgres    *)
(* rejects, so the attempt always ends in failure.                         *)
(***************************************************************************)
MergeUndo(w) ==
    /\ At(w, "mergeUndo")
    /\ connect' = Restored(w)
    /\ Finish(w)
    /\ UNCHANGED <<original, search, inter, history, counts, indexed,
                   queue, nextId, used>>

\* ReindexProfileAfterMerge
Reindexed(w) == (indexed \ {job[w].src}) \cup {job[w].tgt}

\* After the commit: re-read, reindex, queue what the merged profile matches.
MergeFinish(w) ==
    LET j     == job[w]
        moved == Reindexed(w)
    IN  /\ At(w, "mergeFinish")
        /\ \/ SearchHit(j.tgt) = {} /\ GiveUp(w) /\ UNCHANGED indexed
           \/ SearchHit(j.tgt) # {} /\ ~RuleBased /\ Succeed(w) /\ UNCHANGED indexed
           \/ /\ SearchHit(j.tgt) # {} /\ RuleBased
              /\ indexed' = moved
              /\ Finish(w)
              /\ \E m \in SUBSET (moved \ {j.tgt}) :
                     queue' = (queue \ {j.rq}) \cup {<<j.tgt, x>> : x \in m}
        /\ UNCHANGED <<master, search, inter, history, counts, nextId, used>>

\* A read, the reindexing or the cache update fails after the commit.
MergeFinishFail(w) ==
    /\ At(w, "mergeFinish")
    /\ Spend("mergeFailures")
    /\ GiveUp(w)
    /\ UNCHANGED <<tables, nextId>>

----------------------------------------------------------------------------
\* The invocation dies; an open transaction is rolled back by the database.
Crash(w) ==
    /\ ~At(w, "idle")
    /\ Spend("crashes")
    /\ Finish(w)
    /\ UNCHANGED <<tables, queue, nextId>>

PutStep(w) == PutMatch(w) \/ PutMaster(w) \/ PutHistory(w) \/ PutTx(w)
              \/ PutUndo(w) \/ PutPublish(w)

PutFailure(w) == \/ PutFail(w)
                 \/ PutPublishFail(w)
                 \/ \E stage \in {"begin", "early", "late"} : PutTxFail(w, stage)

MergeStep(w) == MergeSource(w) \/ MergeTarget(w) \/ MergeCheck(w) \/ MergeMaster(w)
                \/ MergeSearch(w) \/ MergeTx(w) \/ MergeUndo(w) \/ MergeFinish(w)

Work(w) == PutStep(w) \/ MergeStep(w) \/ \E r \in queue : TakeRequest(w, r)

MergeFailure(w) == MergeTxFail(w) \/ MergeFinishFail(w)

Next ==
    \/ \E s, t \in Current : RequestMerge(s, t)
    \/ \E w \in Workers :
           \/ \E o \in Facts : StartPut(w, o)
           \/ \E s, t \in Current : DirectMerge(w, s, t)
           \/ Work(w)
           \/ PutFailure(w)
           \/ MergeFailure(w)
           \/ Crash(w)

Spec == Init /\ [][Next]_vars

\* SQS and Kinesis keep invoking the lambdas while there is something to do.
FairSpec == Spec /\ \A w \in Workers : WF_vars(Work(w))

----------------------------------------------------------------------------
(* The abstract specification, with the tables for its variables *)

Partition == INSTANCE ProfilePartition WITH home <- inter, merged <- history

\* As long as invocations run one after the other, the store is a partition of
\* the objects into profiles: every put and every merge is a step of it, however
\* many statements it takes, or fails and is no step at all.
PartitionSpec == Partition!Spec

----------------------------------------------------------------------------
(* Properties *)

\* Every table, queue entry and invocation holds values of its type.
TypeOK ==
    /\ connect  \in [ProfileIds -> IdOrNone]
    /\ original \in [ProfileIds -> IdOrNone]
    /\ searched \in SUBSET Ids
    /\ fields   \in [Ids -> SUBSET Facts]
    /\ inter    \in [Facts -> IdOrNone]
    /\ history  \in SUBSET (Ids \X Ids)
    /\ profileCount \in Int
    /\ objectCount  \in Int
    /\ indexed  \in SUBSET Ids
    /\ queue    \in SUBSET (Ids \X Ids)
    /\ nextId   \in 1 .. MaxIds + 1
    /\ job      \in [Workers -> Jobs]
    /\ used     \in [Bounds -> Nat]

Stored == {f \in Facts : inter[f] # NoId}

\* No invocation runs: what holds then is what the next one finds.
Quiet  == \A w \in Workers : At(w, "idle")

Originals == {original[p] : p \in Rows}

(***************************************************************************)
(* Every id an object, a search row, the rule index or another profile is  *)
(* filed under is the original_connect_id of a master row, so it can be    *)
(* followed to the profile it is part of now (FindCurrentParentOfProfile,  *)
(* getIdsForOriginalConnectIds).  Whatever interleaves, fails or dies.     *)
(***************************************************************************)
NoDanglingId ==
    /\ Current \subseteq Originals
    /\ searched \subseteq Originals
    /\ indexed \subseteq Originals
    /\ {inter[f] : f \in Stored} \subseteq Originals

(***************************************************************************)
(* The object counters equal the number of stored objects at every moment, *)
(* because the counter moves in the transaction that inserts the object    *)
(* (UpdateCount), also when puts of one object race or fail half way.      *)
(***************************************************************************)
ObjectCountInSync == objectCount = Cardinality(Stored)

(***************************************************************************)
(* An object changes profile only by a merge that is in the history from   *)
(* that moment on: unmerge finds its way back through the history.         *)
(***************************************************************************)
ObjectsMoveByMergeOnly ==
    [][\A f \in Stored : inter'[f] # inter[f] => <<inter'[f], inter[f]>> \in history']_vars

(***************************************************************************)
(* Between invocations a profile with objects is found from the id its     *)
(* profile_id was created with, however often it has been merged since     *)
(* (GetProfileSearchRecord).                                               *)
(***************************************************************************)
FoundUnlessDeleted ==
    Quiet => \A f \in Stored : SearchHit(original[f[1]]) # {}

(***************************************************************************)
(* Between invocations every object is filed under the profile its master  *)
(* row is in: the interaction tables and the master table tell the same    *)
(* (MergeProfiles updates both).                                           *)
(***************************************************************************)
ObjectsFollowMaster ==
    Quiet => \A f \in Stored : inter[f] = connect[f[1]]

(***************************************************************************)
(* Between invocations a search row is that of a profile and has absorbed  *)
(* the objects filed under its id, all and only: a merge takes the old row *)
(* away and its fields over, and a put does not bring it back as a shadow  *)
(* row (UpsertProfileInSearchTable, mergeSearchRecords).                   *)
(***************************************************************************)
SearchRowsComplete ==
    Quiet => \A c \in searched :
        c \in Current /\ fields[c] = {f \in Stored : inter[f] = c}

(***************************************************************************)
(* A search row is deleted only when no object is filed under its id any   *)
(* more: by the merge that moved them, or by rollbackInsert when the       *)
(* profile was not created after all ("to avoid shadow connect ID").       *)
(***************************************************************************)
LiveRowsKept ==
    [][\A c \in searched \ searched' : \A f \in Facts : inter'[f] # c]_vars

(***************************************************************************)
(* A merge request leaves the queue only when the merge is complete: its   *)
(* source is no profile any more and has no search row and no object left. *)
(* This is what lets the merger answer a redelivered request with success. *)
(***************************************************************************)
DoneMeansMerged ==
    [][\A r \in queue \ queue' :
          r[1] \notin Current =>
              r[1] \notin searched /\ \A f \in Facts : inter[f] # r[1]]_vars

\* Between invocations the profile counter equals the number of profiles, each
\* insert and each merge counted once (UpdateCount).
ProfileCountInSync == Quiet => profileCount = Cardinality(searched)

(***************************************************************************)
(* Between invocations the history and the master table tell the same: the *)
(* two sides of every recorded merge are one profile, and an id that is no *)
(* longer a profile of its own is in the history (unmerge relies on it).   *)
(***************************************************************************)
HistoryExplainsMaster ==
    Quiet => /\ \A h \in history : Resolve(h[1]) = Resolve(h[2]) /\ Resolve(h[2]) # {}
             /\ \A p \in Rows : connect[p] # original[p] =>
                    \E h \in history : h[2] = original[p]

\* A merge request is eventually carried out: its two sides become one profile
\* and it leaves the queue, although attempts fail (redelivery by SQS).
RequestsAreDone == \A s, t \in Ids :
    (<<s, t>> \in queue) ~> (Resolve(s) = Resolve(t) /\ <<s, t>> \notin queue)

(***************************************************************************)
(* As long as nothing was merged and nothing failed, the tables agree      *)
(* whenever no invocation runs, however the puts interleaved: invocations  *)
(* that ingest for one new profile_id at the same time settle on one       *)
(* profile, one search row with everybody's objects and one count          *)
(* (insertProfileMasterRow, the upserts of the search and object tables).  *)
(***************************************************************************)
PutsAgree ==
    (Quiet /\ history = {} /\ \A b \in Bounds \ {"puts"} : used[b] = 0) =>
        /\ \A f \in Stored : inter[f] = connect[f[1]]
        /\ \A c \in searched : fields[c] = {f \in Stored : inter[f] = c}
        /\ profileCount = Cardinality(searched)
=============================================================================
