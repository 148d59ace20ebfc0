---------------------------- MODULE ProfileCaches ----------------------------
(***************************************************************************)
(* What the profile store does after its transaction: it reads the profile *)
(* it has changed and brings the caches up to date, the DynamoDB table     *)
(* itself and Customer Profiles by messages to CustomerProfilesWriter.     *)
(*                                                                         *)
(* The changes of Aurora are single steps here (ProfileStore and           *)
(* ProfileLineage have their statements).  What happens afterwards is a    *)
(* list of stages that each worker goes through on its own: nothing keeps  *)
(* two of them from writing the cache of one profile in the other order    *)
(* than they changed it.                                                   *)
(***************************************************************************)
EXTENDS CustomerProfilesWriter, FiniteSetsExt

CONSTANTS
    Workers,      \* invocations of the store at one time
    Objects,      \* profile objects
    MaxTime,      \* bound: timestamps of objects
    MaxPuts, MaxMerges, MaxUnmerges, MaxErases, MaxRebuilds,   \* bounds on operations
    MaxOps,       \* bound on all of them together, weighted
    Skipped,      \* profiles whose data a cache rule applies to
    Matching,     \* TRUE: rule-based identity resolution may find matches
    Fallible,     \* operations whose writes to the caches may fail
    Apart,        \* TRUE: no operation works on a profile another one does away with
    Nobody        \* no connect id

ASSUME CacheBounds ==
    /\ {MaxTime, MaxPuts, MaxMerges, MaxUnmerges, MaxErases, MaxRebuilds, MaxOps}
         \subseteq Nat
    /\ Skipped \subseteq ProfileIds
    /\ {Matching, Apart} \subseteq BOOLEAN
    /\ Nobody \notin ProfileIds

Times == 0 .. MaxTime        \* 0: no such object, row or record
Ops   == {"put", "merge", "unmerge", "erase", "rebuild"}
Limit == [o \in Ops |-> CASE o = "put"     -> MaxPuts
                          [] o = "merge"   -> MaxMerges
                          [] o = "unmerge" -> MaxUnmerges
                          [] o = "erase"   -> MaxErases
                          [] o = "rebuild" -> MaxRebuilds]

VARIABLES
    \* Aurora
    connect,  \* the profile an id is found under, or Nobody
    row,      \* latest timestamp in the search row of a profile
    stamp,    \* timestamp of a stored object
    owner,    \* the id an object was ingested for, or Nobody
    gone,     \* ids that were erased
    \* DynamoDB
    cached,   \* lastUpdated of the profile's record
    items,    \* the profile's object records
    \* in flight
    awaited,  \* ids whose cache is left to the merge that a match asked for
    worker,   \* what each worker is doing
    failed,   \* ids whose operation returned an error to its caller
    done      \* how often each operation was started

auroraVars == <<connect, row, stamp, owner, gone>>
dynamoVars == <<cached, items>>
vars == <<writerVars, auroraVars, dynamoVars, awaited, worker, failed, done>>

Lives(p)     == connect[p] = p
ObjectsOf(p) == {o \in Objects : owner[o] # Nobody /\ connect[owner[o]] = p}
Latest(S)    == CHOOSE t \in S : \A u \in S : u <= t
Weight(o)    == IF o \in {"erase", "rebuild"} THEN 2 ELSE 1
Started      == MapThenSumSet(LAMBDA o : Weight(o) * done[o], Ops)

\* A stage is a set of steps that run side by side; a step is named with its profile.
Steps  == {"row", "build", "update", "record", "objects", "message",
           "withdraw", "find", "clear", "remove"}
Step(s, p) == {<<s, p>>}
Blank   == [at |-> 0, objs |-> {}]
Nothing == [record |-> FALSE, objs |-> {}]
Idle   == [op |-> "none", ids |-> {}, ending |-> {}, stages |-> <<>>,
           snap |-> [p \in ProfileIds |-> Blank], found |-> Nothing]
IsIdle(w) == worker[w].stages = <<>>

Init ==
    /\ WriterInit
    /\ connect = [p \in ProfileIds |-> Nobody]
    /\ row     = [p \in ProfileIds |-> 0]
    /\ stamp   = [o \in Objects |-> 0]
    /\ owner   = [o \in Objects |-> Nobody]
    /\ gone    = {}
    /\ cached  = [p \in ProfileIds |-> 0]
    /\ items   = [p \in ProfileIds |-> {}]
    /\ awaited = {}
    /\ worker  = [w \in Workers |-> Idle]
    /\ failed  = {}
    /\ done    = [o \in Ops |-> 0]

-----------------------------------------------------------------------------
\* Operations: the change in Aurora, and the stages that follow.

\* Operation op starts on the profiles ids and ends the life, or the cache entry, of
\* those in ending.
Starts(w, op, ids, ending, stages, snap) ==
    /\ IsIdle(w)
    /\ done[op] < Limit[op] /\ Started + Weight(op) <= MaxOps
    /\ Apart => \A v \in Workers \ {w} :
           IsIdle(v) \/ (worker[v].ids \cap ending = {} /\ worker[v].ending \cap ids = {})
    /\ worker' = [worker EXCEPT ![w] = [op |-> op, ids |-> ids, ending |-> ending,
                                        stages |-> stages, snap |-> snap, found |-> Nothing]]
    /\ done'   = [done EXCEPT ![op] = @ + 1]
    /\ UNCHANGED <<writerVars, dynamoVars, failed>>

NoSnap == Idle.snap
\* Stages of the update of a profile from a snapshot, and of the removal of its records.
Update(p)  == <<Step("update", p)>>
Clear(p)   == <<Step("find", p), Step("clear", p)>>

\* PutProfileObject: the object is filed under the profile of its traveller.
Put(w, p, o, t) ==
    LET c == IF connect[p] = Nobody THEN p ELSE connect[p] IN
    /\ p \notin gone
    /\ owner[o] \in {Nobody, p}
    /\ connect' = [connect EXCEPT ![p] = c]
    /\ row'     = [row EXCEPT ![c] = Latest({@, t})]
    /\ stamp'   = [stamp EXCEPT ![o] = t]
    /\ owner'   = [owner EXCEPT ![o] = p]
    /\ Starts(w, "put", {c}, {},
              <<Step("row", c)>> \o Update(c),
              [NoSnap EXCEPT ![c] = [at |-> 0, objs |-> {o}]])
    /\ UNCHANGED <<gone, awaited>>

\* MergeProfiles: b goes into a.
Merge(w, a, b) ==
    /\ Lives(a) /\ Lives(b) /\ a # b
    /\ connect' = [p \in ProfileIds |-> IF connect[p] = b THEN a ELSE connect[p]]
    /\ row'     = [row EXCEPT ![a] = Latest({@, row[b]}), ![b] = 0]
    /\ awaited' = awaited \ {a, b}
    /\ Starts(w, "merge", {a, b}, {b},
              <<Step("row", a), Step("build", a)>> \o Update(a)
              \o <<Step("withdraw", b)>> \o Clear(b), NoSnap)
    /\ UNCHANGED <<stamp, owner, gone>>

\* UnmergeProfiles: b leaves a with what was ingested for it; both rows are made anew
\* from the objects.  The record of a is removed because it may be newer than its next.
Recomputed(b, p) ==
    Latest({0} \cup {stamp[o] : o \in {x \in Objects : owner[x] # Nobody /\
        (IF owner[x] = b THEN b ELSE connect[owner[x]]) = p}})

Unmerge(w, a, b) ==
    /\ connect[b] = a /\ a # b
    /\ \A p \in ProfileIds : connect[p] # b
    /\ Prompt => ~Queued(a) /\ ~Queued(b)
    /\ connect' = [connect EXCEPT ![b] = b]
    /\ row'     = [row EXCEPT ![a] = Recomputed(b, a), ![b] = Recomputed(b, b)]
    /\ Starts(w, "unmerge", {a, b}, {a, b},
              <<Step("build", a), Step("build", b)>> \o Clear(a) \o Update(a) \o Update(b),
              NoSnap)
    /\ UNCHANGED <<stamp, owner, gone, awaited>>

\* DeleteProfile: of the profile an id is found under.
Erase(w, p) ==
    LET c == connect[p] IN
    /\ c # Nobody
    /\ Prompt => ~Queued(c)
    /\ connect' = [q \in ProfileIds |-> IF connect[q] = c THEN Nobody ELSE connect[q]]
    /\ gone'    = gone \cup {q \in ProfileIds : connect[q] = c}
    /\ row'     = [row EXCEPT ![c] = 0]
    /\ stamp'   = [o \in Objects |-> IF o \in ObjectsOf(c) THEN 0 ELSE stamp[o]]
    /\ owner'   = [o \in Objects |-> IF o \in ObjectsOf(c) THEN Nobody ELSE owner[o]]
    /\ awaited' = awaited \ {c}
    /\ Starts(w, "erase", {c}, {c}, Clear(c) \o <<Step("remove", c)>>, NoSnap)

\* CacheProfile, by the task that fills the caches anew.
Rebuild(w, p) ==
    /\ Lives(p)
    /\ Starts(w, "rebuild", {p}, {},
              <<Step("row", p), Step("build", p)>> \o Update(p), NoSnap)
    /\ UNCHANGED <<auroraVars, awaited>>

-----------------------------------------------------------------------------
\* Steps of a stage.

Doing(w, s, p) == ~IsIdle(w) /\ <<s, p>> \in Head(worker[w].stages)

\* The stages of w once step s of p is done and the steps more have joined its stage.
After(w, s, p, more) ==
    LET st   == worker[w].stages
        left == (Head(st) \ Step(s, p)) \cup more
    IN  IF left = {} THEN Tail(st) ELSE <<left>> \o Tail(st)

Resume(w, stages, snap, found) ==
    worker' = [worker EXCEPT ![w] =
        IF stages = <<>> THEN Idle
        ELSE [@ EXCEPT !.stages = stages, !.snap = snap, !.found = found]]
Proceed(w, s, p, more) ==
    Resume(w, After(w, s, p, more), worker[w].snap, worker[w].found)

Unchanged == UNCHANGED <<auroraVars, failed, done>>

\* A call to the caches fails: the operation ends with what runs beside the call, and its
\* caller files the error.  Only a merge is delivered again, found to be done already,
\* and acknowledged.
Fails(w) ==
    /\ ~IsIdle(w)
    /\ worker[w].op \in Fallible
    /\ \E x \in Head(worker[w].stages) : x[1] \in {"record", "objects", "find", "clear"}
    /\ Fault
    /\ failed' = IF worker[w].op = "merge" THEN failed ELSE failed \cup worker[w].ids
    /\ worker' = [worker EXCEPT ![w] = Idle]
    /\ UNCHANGED <<queue, service, names, stream, index, reported, dynamoVars, awaited>>
    /\ UNCHANGED <<auroraVars, done>>

\* GetProfileSearchRecord finds the row by any id of the profile.  The profile may be
\* gone by now.
ReadRow(w, p) ==
    /\ Doing(w, "row", p)
    /\ IF connect[p] = Nobody
       THEN /\ worker' = [worker EXCEPT ![w] = Idle]
            /\ failed' = failed \cup {p}
       ELSE /\ Resume(w, After(w, "row", p, {}),
                      [worker[w].snap EXCEPT ![p].at = row[connect[p]]], worker[w].found)
            /\ UNCHANGED failed
    /\ UNCHANGED <<writerVars, dynamoVars, awaited, auroraVars, done>>

\* buildProfile: all objects filed under the id, and without a row their timestamps.
Build(w, p) ==
    /\ Doing(w, "build", p)
    /\ LET objs == ObjectsOf(p)
           at   == IF worker[w].snap[p].at # 0 THEN worker[w].snap[p].at
                   ELSE Latest({0} \cup {stamp[o] : o \in objs})
       IN  Resume(w, After(w, "build", p, {}),
                  [worker[w].snap EXCEPT ![p] = [at |-> at, objs |-> objs]],
                  worker[w].found)
    /\ UNCHANGED <<writerVars, dynamoVars, awaited>>
    /\ Unchanged

\* With a match the merge is asked for and the update left to it.  Otherwise
\* UpdateDownstreamCache: both caches at the same time, or none when a rule applies.
Updates(w, p) ==
    /\ Doing(w, "update", p)
    /\ \/ /\ Proceed(w, "update", p, IF p \in Skipped THEN {}
                                     ELSE Step("message", p) \cup Step("record", p))
          /\ UNCHANGED awaited
       \/ /\ Matching /\ worker[w].op \in {"put", "merge"}
          /\ Proceed(w, "update", p, {})
          /\ awaited' = awaited \cup {p}
    /\ UNCHANGED <<writerVars, dynamoVars>>
    /\ Unchanged

\* UpdateProfileLowLatencyStore: the record on condition, then the objects.
AnyAge(p, at)  == TRUE
Accepts(p, at) == cached[p] <= at

SaveRecord(w, p) ==
    /\ Doing(w, "record", p)
    /\ LET at == worker[w].snap[p].at
       IN  cached' = IF Accepts(p, at) THEN [cached EXCEPT ![p] = at] ELSE cached
    /\ Proceed(w, "record", p, Step("objects", p))
    /\ UNCHANGED <<writerVars, items, awaited>>
    /\ Unchanged

SaveObjects(w, p) ==
    /\ Doing(w, "objects", p)
    /\ items' = [items EXCEPT ![p] = @ \cup worker[w].snap[p].objs]
    /\ Proceed(w, "objects", p, {})
    /\ UNCHANGED <<writerVars, cached, awaited>>
    /\ Unchanged

\* Messages to the writer.
Send(w, s, p, m) ==
    /\ Doing(w, s, p)
    /\ queue' = Append(queue, m)
    /\ Proceed(w, s, p, {})
    /\ UNCHANGED <<service, names, stream, index, reported, faults, dynamoVars, awaited>>
    /\ Unchanged

SendProfile(w, p)  == Send(w, "message", p, PutMessage(p))
SendDeletion(w, p) == Send(w, "withdraw", p, DeleteMessage(p, NumRetries))

\* DeleteProfileFromCache: looks for the records and deletes those it found.
Found(p) == [record |-> cached[p] # 0, objs |-> items[p]]

FindRecords(w, p) ==
    /\ Doing(w, "find", p)
    /\ Resume(w, After(w, "find", p, {}), worker[w].snap, Found(p))
    /\ UNCHANGED <<writerVars, dynamoVars, awaited>>
    /\ Unchanged

ClearRecords(w, p) ==
    /\ Doing(w, "clear", p)
    /\ cached' = IF worker[w].found.record THEN [cached EXCEPT ![p] = 0] ELSE cached
    /\ items'  = [items EXCEPT ![p] = @ \ worker[w].found.objs]
    /\ Proceed(w, "clear", p, {})
    /\ UNCHANGED <<writerVars, awaited>>
    /\ Unchanged

\* The end of DeleteProfile: by a search at the service, not by the writer's queue.
RemoveFromService(w, p) ==
    /\ Doing(w, "remove", p)
    /\ IF service[p] = NoName
       THEN failed' = failed \cup {p} /\ UNCHANGED service
       ELSE service' = [service EXCEPT ![p] = NoName] /\ UNCHANGED failed
    /\ Proceed(w, "remove", p, {})
    /\ UNCHANGED <<queue, names, stream, index, reported, faults, dynamoVars, awaited>>
    /\ UNCHANGED <<auroraVars, done>>

Operation(w) ==
    \/ \E p \in ProfileIds, o \in Objects, t \in 1 .. MaxTime : Put(w, p, o, t)
    \/ \E a, b \in ProfileIds : Merge(w, a, b) \/ Unmerge(w, a, b)
    \/ \E p \in ProfileIds : Erase(w, p) \/ Rebuild(w, p)

Continue(w) == \E p \in ProfileIds :
    \/ ReadRow(w, p) \/ Build(w, p) \/ Updates(w, p)
    \/ SaveRecord(w, p) \/ SaveObjects(w, p) \/ SendProfile(w, p) \/ SendDeletion(w, p)
    \/ FindRecords(w, p) \/ ClearRecords(w, p) \/ RemoveFromService(w, p)

StoreVars == <<auroraVars, dynamoVars, awaited, worker, failed, done>>

Next ==
    \/ \E w \in Workers : Operation(w) \/ Continue(w) \/ Fails(w)
    \/ WriterNext /\ UNCHANGED StoreVars

Spec == Init /\ [][Next]_vars

-----------------------------------------------------------------------------
Snaps == [at : Times, objs : SUBSET Objects]
Busy  == [op : Ops, ids : SUBSET ProfileIds, ending : SUBSET ProfileIds,
          stages : Seq(SUBSET (Steps \X ProfileIds)), snap : [ProfileIds -> Snaps],
          found : [record : BOOLEAN, objs : SUBSET Objects]]

\* Types of the tables, the queue, the stream and the workers; a message never has more
\* retries left than a deletion starts with.
TypeOK ==
    /\ queue \in Seq(Messages) /\ stream \in Seq(Events)
    /\ service \in [ProfileIds -> Names \cup {NoName}]
    /\ index \in [ProfileIds -> Names \cup {NoName}]
    /\ names \in 0 .. MaxNames /\ faults \in 0 .. MaxFaults
    /\ reported \subseteq ProfileIds /\ failed \subseteq ProfileIds
    /\ connect \in [ProfileIds -> ProfileIds \cup {Nobody}]
    /\ row \in [ProfileIds -> Times] /\ cached \in [ProfileIds -> Times]
    /\ stamp \in [Objects -> Times] /\ owner \in [Objects -> ProfileIds \cup {Nobody}]
    /\ gone \subseteq ProfileIds /\ awaited \subseteq ProfileIds
    /\ items \in [ProfileIds -> SUBSET Objects]
    /\ \A w \in Workers : worker[w] \in Busy \cup {Idle}
    /\ done \in [Ops -> Nat] /\ \A o \in Ops : done[o] <= Limit[o]

Settled == \A w \in Workers : IsIdle(w)

\* Once nothing is under way the DynamoDB table shows what Aurora holds: of a profile the
\* latest timestamp and all its objects, of an id that is no profile nothing; however
\* concurrent operations on it were ordered.  Left out are ids whose operation returned
\* an error and those whose update was left to a merge to come.
DynamoInSync ==
    Settled => \A p \in ProfileIds \ failed :
        IF Lives(p)
        THEN p \in Skipped \cup awaited \/ (cached[p] = row[p] /\ items[p] = ObjectsOf(p))
        ELSE cached[p] = 0 /\ items[p] = {}

Drained == Settled /\ queue = <<>> /\ stream = <<>>

\* Once the queue and the stream are empty too, the service has no profile left of an id
\* that was merged away or erased, or a failure was reported.
GhostsAreReported ==
    Drained => \A p \in ProfileIds :
        Lives(p) \/ service[p] = NoName \/ p \in reported \cup failed

\* And it has every profile there is, unless a failure was reported.
ProfilesAreServed ==
    Drained => \A p \in ProfileIds :
        Lives(p) => p \in Skipped \cup awaited \cup reported \cup failed
                    \/ service[p] # NoName
=============================================================================
