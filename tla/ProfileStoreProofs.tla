------------------------- MODULE ProfileStoreProofs -------------------------
(***************************************************************************)
(* Proofs about ProfileStore, for any number of profiles, objects, workers *)
(* and any bounds: first with every interleaving, failure and crash the    *)
(* module has, then of invocations that run one after the other, which     *)
(* implement ProfilePartition.                                             *)
(***************************************************************************)
EXTENDS ProfileStore, FiniteSetTheorems, TLAPS

PutPhases   == {"putMatch", "putMaster", "putHistory", "putTx", "putUndo", "putPublish"}
Landed      == {"putHistory", "putTx", "putUndo", "putPublish"}
Sourced     == {"mergeTarget", "mergeCheck", "mergeMaster", "mergeSearch",
                "mergeTx", "mergeUndo", "mergeFinish"}
Targeted    == Sourced \ {"mergeTarget"}

(***************************************************************************)
(* What an invocation has read stays good while it waits: the ids it holds *)
(* are among the known original ids, the rows it moved among the rows.     *)
(***************************************************************************)
JobOK(j, known, rows) ==
    /\ j.match \in known \cup {NoId}
    /\ j.rest \subseteq known
    /\ j.pids \subseteq rows
    /\ j.pc \in {"putMatch", "putMaster"} /\ j.match = NoId => j.rest = {}
    /\ j.pc \in PutPhases => j.obj \in Facts
    /\ j.pc \in Landed => j.cid \in known /\ (j.rest # {} => j.fresh \in Ids)
    /\ j.pc = "putHistory" => j.fresh \in Ids
    /\ j.pc \in Sourced  => j.src \in known
    /\ j.pc \in Targeted => j.tgt \in known

RowsOK == \A p \in Rows : original[p] \in Ids
JobsOK == \A w \in Workers : JobOK(job[w], Originals, Rows)

IInv == TypeOK /\ RowsOK /\ NoDanglingId /\ JobsOK

----------------------------------------------------------------------------
\* An invocation that does nothing holds nothing.
LEMMA IdleLemma ==
    ASSUME NEW known, NEW rows
    PROVE  Idle \in Jobs /\ JobOK(Idle, known, rows)
  BY DEF Idle, Jobs, Phases, IdOrNone, NoPair, NoId, JobOK, PutPhases, Landed,
         Sourced, Targeted

\* What is good stays good when more ids and rows are known.
LEMMA JobOKMonotone ==
    ASSUME NEW j, NEW known, NEW rows, NEW known2, NEW rows2,
           JobOK(j, known, rows), known \subseteq known2, rows \subseteq rows2
    PROVE  JobOK(j, known2, rows2)
  BY DEF JobOK

(***************************************************************************)
(* A step in which one invocation goes on and rows are never lost keeps    *)
(* all the invocations good.                                               *)
(***************************************************************************)
LEMMA JobsStep ==
    ASSUME IInv, NEW w \in Workers, NEW j \in Jobs, Become(w, j),
           Rows \subseteq Rows', Originals \subseteq Originals',
           JobOK(j, Originals', Rows')
    PROVE  JobsOK' /\ job' \in [Workers -> Jobs]
<1>1. job' \in [Workers -> Jobs] /\ job'[w] = j
  BY DEF Become, IInv, TypeOK
<1>2. ASSUME NEW x \in Workers \ {w}
      PROVE  JobOK(job'[x], Originals', Rows')
  <2>1. job'[x] = job[x]
    BY DEF Become, IInv, TypeOK
  <2>2. JobOK(job[x], Originals, Rows)
    BY DEF IInv, JobsOK
  <2> QED  BY <2>1, <2>2, JobOKMonotone
<1> QED  BY <1>1, <1>2 DEF JobsOK

\* As long as the master table is left alone, so is what is known.
LEMMA MasterSame ==
    ASSUME UNCHANGED master
    PROVE  Rows' = Rows /\ Originals' = Originals /\ Current' = Current
           /\ (RowsOK => RowsOK')
  BY DEF master, Rows, Originals, Current, RowsOK

\* Tables left alone keep what the invariant says of them.
LEMMA TablesSame ==
    ASSUME IInv, UNCHANGED tables
    PROVE  RowsOK' /\ NoDanglingId'
  BY MasterSame DEF tables, master, IInv, NoDanglingId, Stored

\* An action that only spends a bound and moves one invocation on.
LEMMA LocalStep ==
    ASSUME IInv, UNCHANGED <<tables, nextId>>, used' \in [Bounds -> Nat],
           queue' \in SUBSET (Ids \X Ids),
           NEW w \in Workers, NEW j \in Jobs, Become(w, j), JobOK(j, Originals, Rows)
    PROVE  IInv'
<1>1. Rows' = Rows /\ Originals' = Originals
  BY MasterSame DEF tables, master
<1>2. JobsOK' /\ job' \in [Workers -> Jobs]
  BY <1>1, JobsStep
<1>3. TypeOK'
  BY <1>2 DEF IInv, TypeOK, tables
<1> QED  BY <1>2, <1>3, TablesSame DEF IInv

\* Spending a bound keeps its type.
LEMMA SpendLemma ==
    ASSUME TypeOK, NEW b \in Bounds, Spend(b)
    PROVE  used' \in [Bounds -> Nat]
  BY DEF TypeOK, Spend

\* Original ids are ids, and NoId is none.
LEMMA IdsLemma ==
    ASSUME IInv
    PROVE  Originals \subseteq Ids /\ Current \subseteq Ids /\ NoId \notin Ids
           /\ (\A u : Resolve(u) \subseteq Current) /\ (\A u : SearchHit(u) \subseteq Current)
  BY DEF IInv, RowsOK, NoDanglingId, Originals, Current, Resolve, SearchHit, Ids, NoId, Rows

----------------------------------------------------------------------------
\* The empty store satisfies the invariant.
LEMMA InitInv == Init => IInv
  BY IdleLemma, BoundsAssumption
     DEF Init, IInv, TypeOK, RowsOK, NoDanglingId, JobsOK, Rows, Originals, Current,
         Stored, IdOrNone, NoId, Ids

----------------------------------------------------------------------------
(* Actions that only move an invocation on *)

USE DEF At, Home, UpsertedRow, NewProfiles, NewObjects, OldRow, MovedObjects, MergeLog,
        Restored, Reindexed, Requests

\* A put at its first step, first or second attempt.
LEMMA FreshPut ==
    ASSUME NEW o \in Facts, NEW pc \in {"putMatch", "putMaster"},
           NEW j \in {[Idle EXCEPT !.pc = pc, !.obj = o],
                      [Idle EXCEPT !.pc = pc, !.obj = o, !.try = 2]}
    PROVE  j \in Jobs /\ \A known, rows : JobOK(j, known, rows)
<1>1. CASE j = [Idle EXCEPT !.pc = pc, !.obj = o]
  <2>1. j \in Jobs
    BY <1>1 DEF Idle, Jobs, Phases, IdOrNone, NoPair, NoId
  <2>2. \A known, rows : JobOK(j, known, rows)
    BY <1>1 DEF Idle, JobOK, PutPhases, Landed, Sourced, Targeted
  <2> QED  BY <2>1, <2>2
<1>2. CASE j = [Idle EXCEPT !.pc = pc, !.obj = o, !.try = 2]
  <2>1. j \in Jobs
    BY <1>2 DEF Idle, Jobs, Phases, IdOrNone, NoPair, NoId
  <2>2. \A known, rows : JobOK(j, known, rows)
    BY <1>2 DEF Idle, JobOK, PutPhases, Landed, Sourced, Targeted
  <2> QED  BY <2>1, <2>2
<1> QED  BY <1>1, <1>2

\* An object arrives: nothing is known of it yet.
LEMMA StartPutInv ==
    ASSUME IInv, NEW w \in Workers, NEW o \in Facts, StartPut(w, o)
    PROVE  IInv'
<1> DEFINE pc == IF RuleBased THEN "putMatch" ELSE "putMaster"
           j  == [Idle EXCEPT !.pc = pc, !.obj = o]
<1>1. Become(w, j)
  BY ZenonT(40) DEF StartPut
<1>2. pc \in {"putMatch", "putMaster"}
  BY ZenonT(40)
<1>3. j \in Jobs /\ JobOK(j, Originals, Rows)
  BY <1>2, FreshPut, ZenonT(40)
<1>4. used' \in [Bounds -> Nat]
  BY SpendLemma DEF StartPut, IInv, Bounds
<1> QED  BY <1>1, <1>3, <1>4, LocalStep DEF StartPut, IInv, TypeOK

\* A failed put starts over with its object, or ends.
LEMMA RetryLemma ==
    ASSUME IInv, NEW w \in Workers, job[w].pc \in PutPhases, Retry(w)
    PROVE  \E j \in Jobs : Become(w, j) /\ \A known, rows : JobOK(j, known, rows)
<1> DEFINE pc    == IF RuleBased THEN "putMatch" ELSE "putMaster"
           again == [Idle EXCEPT !.pc = pc, !.obj = job[w].obj, !.try = 2]
<1>0. pc \in {"putMatch", "putMaster"}
  BY ZenonT(40)
<1>1. job[w].obj \in Facts
  BY DEF IInv, JobsOK, JobOK
<1>2. again \in Jobs /\ \A known, rows : JobOK(again, known, rows)
  BY <1>1, <1>0, FreshPut, ZenonT(40)
<1>3. Become(w, again) \/ Become(w, Idle)
  BY DEF Retry
<1> QED  BY <1>2, <1>3, IdleLemma

\* What the index offers is known, as long as the index has known ids only.
LEMMA PutMatchInv ==
    ASSUME IInv, NEW w \in Workers, PutMatch(w)
    PROVE  IInv'
<1>1. job[w] \in Jobs /\ JobOK(job[w], Originals, Rows) /\ indexed \subseteq Originals
  BY DEF IInv, TypeOK, JobsOK, NoDanglingId
<1>2. Originals \subseteq Ids /\ NoId \notin Ids
  BY IdsLemma
<1>3. PICK m \in indexed \cup {NoId}, r \in SUBSET indexed :
        \/ Goto(w, "putMaster")
        \/ m # NoId /\ Become(w, [job[w] EXCEPT !.pc = "putMaster", !.match = m, !.rest = r])
  BY <1>1, <1>2 DEF PutMatch
<1>4. CASE Goto(w, "putMaster")
  <2> DEFINE j == [job[w] EXCEPT !.pc = "putMaster"]
  <2>1. j \in Jobs
    BY <1>1 DEF Jobs, Phases
  <2>2. JobOK(j, Originals, Rows)
    BY <1>1 DEF Jobs, JobOK, PutPhases, Landed, Sourced, Targeted, PutMatch
  <2> QED  BY <1>4, <2>1, <2>2, LocalStep DEF PutMatch, Goto, IInv, TypeOK
<1>5. CASE m # NoId /\ Become(w, [job[w] EXCEPT !.pc = "putMaster", !.match = m, !.rest = r])
  <2> DEFINE j == [job[w] EXCEPT !.pc = "putMaster", !.match = m, !.rest = r]
  <2>1. j \in Jobs
    BY <1>1, <1>2, <1>5 DEF Jobs, Phases, IdOrNone
  <2>2. JobOK(j, Originals, Rows)
    BY <1>1, <1>5 DEF Jobs, JobOK, PutPhases, Landed, Sourced, Targeted, PutMatch
  <2> QED  BY <1>5, <2>1, <2>2, LocalStep DEF PutMatch, IInv, TypeOK
<1> QED  BY <1>3, <1>4, <1>5

\* The failures of a put write no table; one may lead to the rollback.
LEMMA PutFailInv ==
    ASSUME IInv, NEW w \in Workers,
           PutFail(w) \/ \E stage \in {"begin", "early", "late"} : PutTxFail(w, stage)
    PROVE  IInv'
<1>1. /\ job[w].pc \in {"putMaster", "putHistory", "putTx"}
      /\ Spend("putFailures") /\ UNCHANGED <<tables, queue, nextId>>
      /\ Retry(w) \/ (job[w].pc = "putTx" /\ Goto(w, "putUndo"))
  BY DEF PutFail, PutTxFail
<1>2. used' \in [Bounds -> Nat] /\ queue' \in SUBSET (Ids \X Ids)
  BY <1>1, SpendLemma DEF IInv, Bounds, TypeOK
<1>3. CASE Retry(w)
  BY <1>1, <1>2, <1>3, RetryLemma, LocalStep DEF PutPhases
<1>4. CASE job[w].pc = "putTx" /\ Goto(w, "putUndo")
  <2>1. job[w] \in Jobs /\ JobOK(job[w], Originals, Rows)
    BY DEF IInv, TypeOK, JobsOK
  <2> DEFINE j == [job[w] EXCEPT !.pc = "putUndo"]
  <2>2. j \in Jobs /\ JobOK(j, Originals, Rows)
    BY <1>4, <2>1 DEF Jobs, Phases, JobOK, PutPhases, Landed, Sourced, Targeted
  <2> QED  BY <1>1, <1>2, <1>4, <2>2, LocalStep DEF Goto
<1> QED  BY <1>1, <1>3, <1>4

\* An invocation may end at any time.
LEMMA FinishInv ==
    ASSUME IInv, NEW w \in Workers, Finish(w), UNCHANGED <<tables, nextId>>,
           used' \in [Bounds -> Nat], queue' \in SUBSET (Ids \X Ids)
    PROVE  IInv'
  BY IdleLemma, LocalStep DEF Finish

\* A request from outside names two profiles.
LEMMA RequestMergeInv ==
    ASSUME IInv, NEW s \in Current, NEW t \in Current, RequestMerge(s, t)
    PROVE  IInv'
<1>1. used' \in [Bounds -> Nat] /\ queue' \in SUBSET (Ids \X Ids)
  BY SpendLemma, IdsLemma DEF RequestMerge, IInv, TypeOK, Bounds
<1>2. JobsOK' /\ Rows' = Rows
  BY MasterSame DEF RequestMerge, tables, master, IInv, JobsOK
<1> QED  BY <1>1, <1>2, TablesSame DEF RequestMerge, IInv, TypeOK, tables

\* A direct merge starts with two profiles.
LEMMA DirectMergeInv ==
    ASSUME IInv, NEW w \in Workers, NEW s \in Current, NEW t \in Current,
           DirectMerge(w, s, t)
    PROVE  IInv'
<1> DEFINE j == [Idle EXCEPT !.pc = "mergeCheck", !.src = s, !.tgt = t]
<1>1. s \in Originals /\ t \in Originals /\ Originals \subseteq Ids
  BY IdsLemma DEF IInv, NoDanglingId
<1>2. j \in Jobs /\ JobOK(j, Originals, Rows)
  BY <1>1 DEF Idle, Jobs, Phases, IdOrNone, NoPair, NoId, JobOK, PutPhases,
        Landed, Sourced, Targeted
<1>3. used' \in [Bounds -> Nat]
  BY SpendLemma DEF DirectMerge, IInv, Bounds
<1> QED  BY <1>2, <1>3, LocalStep DEF DirectMerge, IInv, TypeOK

\* A message taken from the queue is not looked at yet.
LEMMA TakeRequestInv ==
    ASSUME IInv, NEW w \in Workers, NEW r \in queue, TakeRequest(w, r)
    PROVE  IInv'
<1> DEFINE j == [Idle EXCEPT !.pc = "mergeSource", !.rq = r]
<1>1. r \in IdOrNone \X IdOrNone
  BY DEF IInv, TypeOK, IdOrNone
<1>2. j \in Jobs /\ JobOK(j, Originals, Rows)
  BY <1>1 DEF Idle, Jobs, Phases, IdOrNone, NoPair, NoId, JobOK, PutPhases,
        Landed, Sourced, Targeted
<1> QED  BY <1>2, LocalStep DEF TakeRequest, IInv, TypeOK

\* The three reads of a merge find ids in the master table, so known ones.
LEMMA MergeReadsInv ==
    ASSUME IInv, NEW w \in Workers, MergeSource(w) \/ MergeTarget(w) \/ MergeCheck(w)
    PROVE  IInv'
<1>1. /\ job[w] \in Jobs /\ JobOK(job[w], Originals, Rows)
      /\ used' \in [Bounds -> Nat] /\ UNCHANGED <<tables, nextId>>
  BY DEF IInv, TypeOK, JobsOK, MergeSource, MergeTarget, MergeCheck
<1>2. queue' \in SUBSET (Ids \X Ids)
  BY DEF IInv, TypeOK, MergeSource, MergeTarget, MergeCheck, Succeed, GiveUp
<1>3. \A u : Resolve(u) \subseteq Originals /\ SearchHit(u) \subseteq Originals
  BY IdsLemma DEF IInv, NoDanglingId
<1>4. Originals \subseteq Ids
  BY IdsLemma
<1>5. CASE Finish(w)
  BY <1>1, <1>2, <1>5, FinishInv
<1>6. ASSUME NEW s \in Originals, job[w].pc = "mergeSource",
             Become(w, [job[w] EXCEPT !.pc = "mergeTarget", !.src = s])
      PROVE  IInv'
  <2> DEFINE j == [job[w] EXCEPT !.pc = "mergeTarget", !.src = s]
  <2>1. j \in Jobs
    BY <1>1, <1>4, <1>6 DEF Jobs, Phases, IdOrNone
  <2>2. JobOK(j, Originals, Rows)
    BY <1>1, <1>6 DEF Jobs, JobOK, PutPhases, Landed, Sourced, Targeted
  <2> QED  BY <1>1, <1>2, <1>6, <2>1, <2>2, LocalStep
<1>7. ASSUME NEW t \in Originals, job[w].pc = "mergeTarget",
             Become(w, [job[w] EXCEPT !.pc = "mergeCheck", !.tgt = t])
      PROVE  IInv'
  <2> DEFINE j == [job[w] EXCEPT !.pc = "mergeCheck", !.tgt = t]
  <2>1. j \in Jobs
    BY <1>1, <1>4, <1>7 DEF Jobs, Phases, IdOrNone
  <2>2. JobOK(j, Originals, Rows)
    BY <1>1, <1>7 DEF Jobs, JobOK, PutPhases, Landed, Sourced, Targeted
  <2> QED  BY <1>1, <1>2, <1>7, <2>1, <2>2, LocalStep
<1>8. ASSUME NEW s \in Originals, job[w].pc = "mergeCheck",
             Become(w, [job[w] EXCEPT !.pc = "mergeMaster", !.src = s])
      PROVE  IInv'
  <2> DEFINE j == [job[w] EXCEPT !.pc = "mergeMaster", !.src = s]
  <2>1. j \in Jobs
    BY <1>1, <1>4, <1>8 DEF Jobs, Phases, IdOrNone
  <2>2. JobOK(j, Originals, Rows)
    BY <1>1, <1>8 DEF Jobs, JobOK, PutPhases, Landed, Sourced, Targeted
  <2> QED  BY <1>1, <1>2, <1>8, <2>1, <2>2, LocalStep
<1>9. CASE MergeSource(w)
  BY <1>3, <1>5, <1>6, <1>9 DEF MergeSource
<1>10. CASE MergeTarget(w)
  BY <1>3, <1>5, <1>7, <1>10 DEF MergeTarget, Succeed, GiveUp
<1>11. CASE MergeCheck(w)
  BY <1>3, <1>5, <1>8, <1>11 DEF MergeCheck, Succeed, GiveUp
<1> QED  BY <1>9, <1>10, <1>11

\* Locking the surviving row changes what the invocation holds only.
LEMMA MergeSearchInv ==
    ASSUME IInv, NEW w \in Workers, MergeSearch(w)
    PROVE  IInv'
<1>1. /\ job[w] \in Jobs /\ JobOK(job[w], Originals, Rows) /\ job[w].pc = "mergeSearch"
      /\ fields \in [Ids -> SUBSET Facts] /\ Originals \subseteq Ids
  BY IdsLemma DEF IInv, TypeOK, JobsOK, MergeSearch
<1> DEFINE both == {job[w].src, job[w].tgt} \subseteq searched
           j == [job[w] EXCEPT !.pc = "mergeTx", !.holds = both,
                               !.carry = IF both THEN fields[job[w].src] ELSE {}]
<1>2. job[w].src \in Ids
  BY <1>1 DEF JobOK, Sourced
<1>3. j \in Jobs /\ JobOK(j, Originals, Rows)
  <2>1. both \in BOOLEAN /\ (IF both THEN fields[job[w].src] ELSE {}) \in SUBSET Facts
    BY <1>1, <1>2
  <2> HIDE DEF both
  <2>2. j \in Jobs
    BY <1>1, <2>1 DEF Jobs, Phases
  <2>3. JobOK(j, Originals, Rows)
    BY <1>1, <2>1 DEF Jobs, JobOK, PutPhases, Landed, Sourced, Targeted
  <2> QED  BY <2>2, <2>3
<1>4. Become(w, j)
  BY DEF MergeSearch
<1> QED  BY <1>3, <1>4, LocalStep DEF MergeSearch, IInv, TypeOK

\* A failed transaction leaves the tables to the rollback.
LEMMA MergeTxFailInv ==
    ASSUME IInv, NEW w \in Workers, MergeTxFail(w)
    PROVE  IInv'
<1> DEFINE j == [job[w] EXCEPT !.pc = "mergeUndo", !.holds = FALSE]
<1>1. job[w] \in Jobs /\ JobOK(job[w], Originals, Rows) /\ used' \in [Bounds -> Nat]
  BY SpendLemma DEF IInv, TypeOK, JobsOK, MergeTxFail, Bounds
<1>2. j \in Jobs /\ JobOK(j, Originals, Rows)
  BY <1>1 DEF MergeTxFail, Jobs, Phases, JobOK, PutPhases, Landed, Sourced, Targeted
<1> QED  BY <1>1, <1>2, LocalStep DEF MergeTxFail, IInv, TypeOK

\* Failures after the commit and crashes end the invocation.
LEMMA DyingInv ==
    ASSUME IInv, NEW w \in Workers, Crash(w) \/ MergeFinishFail(w)
    PROVE  IInv'
  BY FinishInv, SpendLemma DEF Crash, MergeFinishFail, GiveUp, IInv, TypeOK, Bounds

----------------------------------------------------------------------------
(* Actions that write the master table *)

\* What a put notes down when it has its master row is of the right types.
LEMMA PlacedJob ==
    ASSUME NEW x \in Jobs, NEW pc \in Phases, NEW c \in IdOrNone,
           NEW u \in {"insert", "update"}, NEW f \in IdOrNone, NEW r \in SUBSET Ids
    PROVE  [x EXCEPT !.pc = pc, !.cid = c, !.up = u, !.fresh = f, !.rest = r] \in Jobs
  BY DEF Jobs

(***************************************************************************)
(* The master row of a put: a new row makes its uuid known before any id   *)
(* is filed under it, an old row keeps its ids.                            *)
(***************************************************************************)
LEMMA PutMasterInv ==
    ASSUME IInv, NEW w \in Workers, PutMaster(w)
    PROVE  IInv'
<1> DEFINE p       == job[w].obj[1]
           isNew   == connect[p] = NoId
           matched == job[w].match # NoId
           home    == IF ~isNew THEN connect[p] ELSE IF matched THEN job[w].match ELSE nextId
           merged  == matched /\ home = job[w].match
           drawn   == IF isNew \/ matched THEN 1 ELSE 0
           j == [job[w] EXCEPT
                    !.pc    = IF merged THEN "putHistory" ELSE "putTx",
                    !.cid   = home,
                    !.up    = IF isNew THEN "insert" ELSE "update",
                    !.fresh = IF matched THEN nextId ELSE NoId,
                    !.rest  = IF matched /\ ~merged THEN @ \cup {job[w].match} ELSE @]
<1>1. /\ job[w] \in Jobs /\ JobOK(job[w], Originals, Rows) /\ job[w].pc = "putMaster"
      /\ p \in ProfileIds /\ TypeOK /\ NoDanglingId /\ RowsOK
      /\ Originals \subseteq Ids /\ NoId \notin Ids
  BY IdsLemma, SMTT(30) DEF IInv, TypeOK, JobsOK, PutMaster, JobOK, PutPhases, Facts
<1>2. /\ connect'  = [connect  EXCEPT ![p] = home]
      /\ original' = [original EXCEPT ![p] = IF isNew THEN nextId ELSE @]
      /\ nextId + drawn <= MaxIds + 1 /\ nextId' = nextId + drawn
      /\ Become(w, j)
      /\ UNCHANGED <<search, inter, history, counts, indexed, queue, used>>
  BY SMTT(60) DEF PutMaster
<1>3. (isNew \/ matched => nextId \in Ids) /\ nextId' \in 1 .. MaxIds + 1
  BY <1>1, <1>2, BoundsAssumption, SMTT(30) DEF TypeOK, Ids
<1>4. home \in Ids
  BY <1>1, <1>3 DEF TypeOK, IdOrNone, JobOK
<1>5. connect' \in [ProfileIds -> IdOrNone] /\ original' \in [ProfileIds -> IdOrNone]
  BY <1>1, <1>2, <1>3, <1>4, SMTT(30) DEF TypeOK, IdOrNone
<1>6. Rows' = Rows \cup {p} /\ \A q \in Rows : original'[q] = original[q]
  BY <1>1, <1>2, <1>4 DEF Rows, TypeOK
<1>7. isNew => original'[p] = nextId
  BY <1>1, <1>2 DEF TypeOK
<1>8. RowsOK' /\ Originals \subseteq Originals'
  <2>1. Originals \subseteq Originals'
    BY <1>6 DEF Originals
  <2>2. original'[p] \in Ids
    BY <1>1, <1>3, <1>6, <1>7 DEF RowsOK, Rows
  <2> QED  BY <1>1, <1>6, <2>1, <2>2 DEF RowsOK
<1>9. home \in Originals'
  <2>1. CASE ~isNew
    BY <1>1, <1>8, <2>1 DEF NoDanglingId, Current, Rows
  <2>2. CASE isNew /\ matched
    BY <1>1, <1>8, <2>2 DEF JobOK
  <2>3. CASE isNew /\ ~matched
    BY <1>6, <1>7, <2>3 DEF Originals
  <2> QED  BY <2>1, <2>2, <2>3
<1>10. NoDanglingId'
  <2>1. Current' \subseteq Current \cup {home}
    <3>1. \A q \in ProfileIds : connect'[q] = IF q = p THEN home ELSE connect[q]
      BY <1>1, <1>2 DEF TypeOK
    <3>2. Rows \subseteq ProfileIds
      BY SMTT(30) DEF Rows
    <3> HIDE DEF home
    <3> QED  BY <1>1, <1>6, <3>1, <3>2, SMTT(30) DEF Current
  <2>2. searched' = searched /\ indexed' = indexed /\ inter' = inter /\ Stored' = Stored
    BY <1>2 DEF search, Stored
  <2> QED  BY <1>1, <1>8, <1>9, <2>1, <2>2 DEF NoDanglingId
<1>11. j \in Jobs
  <2>1. /\ home \in IdOrNone
        /\ (IF matched THEN nextId ELSE NoId) \in IdOrNone
        /\ (IF matched /\ ~merged THEN job[w].rest \cup {job[w].match} ELSE job[w].rest)
              \in SUBSET Ids
    BY <1>1, <1>3, <1>4 DEF IdOrNone, JobOK
  <2>2. /\ (IF merged THEN "putHistory" ELSE "putTx") \in Phases
        /\ (IF isNew THEN "insert" ELSE "update") \in {"insert", "update"}
    BY DEF Phases
  <2>3. job[w] \in Jobs
    BY <1>1
  <2> HIDE DEF home, merged, matched, isNew
  <2> QED  BY <2>1, <2>2, <2>3, PlacedJob, ZenonT(40)
<1>12. JobOK(j, Originals', Rows')
  <2>1. JobOK(job[w], Originals', Rows')
    BY <1>1, <1>6, <1>8, JobOKMonotone
  <2>2. merged => matched
    OBVIOUS
  <2>3. /\ matched <=> job[w].match # NoId
        /\ matched => nextId \in Ids
        /\ ~matched => job[w].rest = {}
    BY <1>1, <1>3 DEF JobOK
  <2> HIDE DEF home, merged, matched, isNew
  <2>4. /\ j.match = job[w].match /\ j.pids = job[w].pids /\ j.obj = job[w].obj
        /\ j.pc \in {"putHistory", "putTx"} /\ (j.pc = "putHistory" => merged)
        /\ j.cid = home
        /\ j.fresh = IF matched THEN nextId ELSE NoId
        /\ j.rest = IF matched /\ ~merged THEN job[w].rest \cup {job[w].match}
                    ELSE job[w].rest
    BY <1>1 DEF Jobs
  <2> HIDE DEF j
  <2> QED  BY <1>1, <1>9, <2>1, <2>2, <2>3, <2>4
           DEF JobOK, PutPhases, Landed, Sourced, Targeted
<1>13. JobsOK' /\ job' \in [Workers -> Jobs]
  BY <1>2, <1>6, <1>8, <1>11, <1>12, JobsStep, ZenonT(40)
<1>14. TypeOK'
  BY <1>1, <1>2, <1>3, <1>5, <1>13 DEF TypeOK, search, counts
<1> QED  BY <1>8, <1>10, <1>13, <1>14, SMTT(30) DEF IInv

\* Moving rows to a known id, as a merge and its rollback do.
LEMMA MasterMoves ==
    ASSUME IInv, NEW w \in Workers, NEW pids \in SUBSET Rows, NEW c \in Originals,
           connect' = [p \in ProfileIds |-> IF p \in pids THEN c ELSE connect[p]],
           UNCHANGED <<original, search, inter, history, counts, indexed,
                       queue, nextId, used>>,
           NEW j \in Jobs, Become(w, j), JobOK(j, Originals, Rows)
    PROVE  IInv'
<1>1. c \in Ids /\ c # NoId
  BY IdsLemma
<1>2. /\ connect' \in [ProfileIds -> IdOrNone] /\ Rows' = Rows
      /\ Current' \subseteq Current \cup {c}
  BY <1>1 DEF IInv, TypeOK, IdOrNone, Rows, Current
<1>3. Originals' = Originals /\ RowsOK'
  BY <1>2 DEF Originals, RowsOK, IInv
<1>4. NoDanglingId'
  BY <1>2, <1>3 DEF NoDanglingId, IInv, search, Stored
<1>5. JobsOK' /\ job' \in [Workers -> Jobs]
  BY <1>2, <1>3, JobsStep
<1> QED  BY <1>2, <1>3, <1>4, <1>5 DEF IInv, TypeOK, search, counts

\* The master update of a merge moves rows to its target ...
LEMMA MergeMasterInv ==
    ASSUME IInv, NEW w \in Workers, MergeMaster(w)
    PROVE  IInv'
<1> DEFINE pids == OwnedBy(job[w].src)
           j == [job[w] EXCEPT !.pc = "mergeSearch", !.pids = pids]
<1>1. /\ job[w] \in Jobs /\ JobOK(job[w], Originals, Rows) /\ job[w].pc = "mergeMaster"
      /\ job[w].tgt \in Originals /\ pids \subseteq Rows /\ Rows \subseteq ProfileIds
  BY DEF IInv, TypeOK, JobsOK, MergeMaster, JobOK, Targeted, Sourced, OwnedBy, Rows
<1>2. j \in Jobs /\ JobOK(j, Originals, Rows)
  BY <1>1 DEF Jobs, Phases, JobOK, PutPhases, Landed, Sourced, Targeted
<1>3. Become(w, j) \/ Become(w, Idle)
  BY DEF MergeMaster, Finish
<1> QED  BY <1>1, <1>2, <1>3, IdleLemma, MasterMoves DEF MergeMaster

\* ... and its rollback moves the same rows back.
LEMMA MergeUndoInv ==
    ASSUME IInv, NEW w \in Workers, MergeUndo(w)
    PROVE  IInv'
<1>1. job[w].src \in Originals /\ job[w].pids \subseteq Rows
  BY DEF IInv, JobsOK, MergeUndo, JobOK, Targeted, Sourced
<1> QED  BY <1>1, IdleLemma, MasterMoves DEF MergeUndo, Finish

----------------------------------------------------------------------------
(* Actions that write the other tables *)

(***************************************************************************)
(* Writing known ids into the other tables keeps the invariant, given that *)
(* the invocation that writes them goes on as a good one.                  *)
(***************************************************************************)
LEMMA OtherTables ==
    ASSUME IInv, UNCHANGED master,
           searched' \in SUBSET Originals, indexed' \in SUBSET Originals,
           fields' \in [Ids -> SUBSET Facts],
           inter' \in [Facts -> Originals \cup {NoId}],
           history' \in SUBSET (Ids \X Ids), queue' \in SUBSET (Ids \X Ids),
           profileCount' \in Int, objectCount' \in Int,
           nextId' = nextId, used' \in [Bounds -> Nat],
           NEW w \in Workers, NEW j \in Jobs, Become(w, j), JobOK(j, Originals, Rows)
    PROVE  IInv'
<1>1. Rows' = Rows /\ Originals' = Originals /\ Current' = Current /\ RowsOK'
  BY MasterSame DEF IInv
<1>2. JobsOK' /\ job' \in [Workers -> Jobs]
  BY <1>1, JobsStep
<1>3. Originals \subseteq Ids
  BY IdsLemma
<1>4. TypeOK'
  BY <1>2, <1>3 DEF IInv, TypeOK, master, IdOrNone
<1>5. NoDanglingId'
  BY <1>1 DEF IInv, NoDanglingId, Stored
<1> QED  BY <1>1, <1>2, <1>4, <1>5 DEF IInv

\* Objects are filed under ids.
LEMMA InterType ==
    ASSUME IInv
    PROVE  inter \in [Facts -> Originals \cup {NoId}]
  BY DEF IInv, TypeOK, NoDanglingId, Stored

\* The states an invocation goes to after its row is in the master table.
LEMMA LandedGoto ==
    ASSUME IInv, NEW w \in Workers, job[w].pc \in Landed,
           NEW pc \in {"putTx", "putPublish"}, Goto(w, pc)
    PROVE  \E j \in Jobs : Become(w, j) /\ JobOK(j, Originals, Rows)
<1> DEFINE j == [job[w] EXCEPT !.pc = pc]
<1>1. job[w] \in Jobs /\ JobOK(job[w], Originals, Rows)
  BY DEF IInv, TypeOK, JobsOK
<1>2. j \in Jobs /\ JobOK(j, Originals, Rows)
  BY <1>1 DEF Jobs, Phases, JobOK, PutPhases, Landed, Sourced, Targeted
<1> QED  BY <1>2 DEF Goto

\* The history entry of a pre-merge has two ids.
LEMMA PutHistoryInv ==
    ASSUME IInv, NEW w \in Workers, PutHistory(w)
    PROVE  IInv'
<1>1. job[w].cid \in Ids /\ job[w].fresh \in Ids /\ job[w].pc = "putHistory"
  BY IdsLemma DEF IInv, JobsOK, JobOK, PutHistory, Landed
<1>2. PICK j \in Jobs : Become(w, j) /\ JobOK(j, Originals, Rows)
  BY <1>1, LandedGoto DEF PutHistory, Landed
<1> QED  BY <1>1, <1>2, OtherTables, InterType
         DEF PutHistory, IInv, TypeOK, NoDanglingId, search, counts

\* The transaction of a put files the object under the id of its master row.
LEMMA PutTxInv ==
    ASSUME IInv, NEW w \in Workers, PutTx(w)
    PROVE  IInv'
<1>1. /\ job[w].cid \in Originals /\ job[w].obj \in Facts /\ job[w].pc = "putTx"
      /\ Originals \subseteq Ids
  BY IdsLemma DEF IInv, JobsOK, JobOK, PutTx, Landed, PutPhases
<1>2. PICK j \in Jobs : Become(w, j) /\ JobOK(j, Originals, Rows)
  BY <1>1, LandedGoto DEF PutTx, Landed
<1>3. searched' \in SUBSET Originals /\ indexed' \in SUBSET Originals
  BY <1>1 DEF PutTx, IInv, NoDanglingId
<1>4. fields' \in [Ids -> SUBSET Facts] /\ inter' \in [Facts -> Originals \cup {NoId}]
  BY <1>1, InterType DEF PutTx, IInv, TypeOK
<1>5. profileCount' \in Int /\ objectCount' \in Int
  BY DEF PutTx, IInv, TypeOK
<1> QED  BY <1>2, <1>3, <1>4, <1>5, OtherTables DEF PutTx, IInv, TypeOK

\* The rollback of a put takes a search row away.
LEMMA PutUndoInv ==
    ASSUME IInv, NEW w \in Workers, PutUndo(w)
    PROVE  IInv'
<1>1. job[w].cid \in Ids /\ job[w].pc \in PutPhases
  BY IdsLemma DEF IInv, JobsOK, JobOK, PutUndo, Landed, PutPhases
<1>2. PICK j \in Jobs : Become(w, j) /\ JobOK(j, Originals, Rows)
  BY <1>1, RetryLemma DEF PutUndo
<1>3. searched' \in SUBSET Originals /\ fields' \in [Ids -> SUBSET Facts]
  BY <1>1 DEF PutUndo, IInv, TypeOK, NoDanglingId
<1> QED  BY <1>2, <1>3, OtherTables, InterType
         DEF PutUndo, IInv, TypeOK, NoDanglingId, counts

\* After its commit a put indexes a known id and queues known ids.
LEMMA PutPublishInv ==
    ASSUME IInv, NEW w \in Workers, PutPublish(w) \/ PutPublishFail(w)
    PROVE  IInv'
<1>1. /\ job[w].cid \in Originals
      /\ job[w].rest \subseteq Originals /\ (job[w].rest # {} => job[w].fresh \in Ids)
  BY DEF IInv, JobsOK, JobOK, PutPublish, PutPublishFail, Landed
<1>2. {<<job[w].fresh, m>> : m \in job[w].rest} \subseteq Ids \X Ids
  BY <1>1, IdsLemma
<1>3. queue' \in SUBSET (Ids \X Ids) /\ indexed' \in SUBSET Originals
  BY <1>1, <1>2 DEF PutPublish, PutPublishFail, IInv, TypeOK, NoDanglingId
<1>4. used' \in [Bounds -> Nat]
  BY SpendLemma DEF PutPublish, PutPublishFail, IInv, TypeOK, Bounds
<1> QED  BY <1>3, <1>4, IdleLemma, OtherTables, InterType
         DEF PutPublish, PutPublishFail, Finish, IInv, TypeOK, NoDanglingId, search, counts

\* The transaction of a merge files objects under its target.
LEMMA MergeTxInv ==
    ASSUME IInv, NEW w \in Workers, MergeTx(w)
    PROVE  IInv'
<1> DEFINE j == [job[w] EXCEPT !.pc = "mergeFinish"]
<1>1. /\ job[w] \in Jobs /\ JobOK(job[w], Originals, Rows) /\ job[w].pc = "mergeTx"
      /\ Originals \subseteq Ids
  BY IdsLemma DEF IInv, TypeOK, JobsOK, MergeTx
<1>2. job[w].src \in Originals /\ job[w].tgt \in Originals /\ job[w].carry \subseteq Facts
  BY <1>1 DEF JobOK, Sourced, Targeted, Jobs
<1>3. j \in Jobs /\ JobOK(j, Originals, Rows) /\ Become(w, j)
  <2>1. j \in Jobs
    BY <1>1 DEF Jobs, Phases
  <2>2. JobOK(j, Originals, Rows)
    BY <1>1 DEF Jobs, JobOK, PutPhases, Landed, Sourced, Targeted
  <2> QED  BY <2>1, <2>2 DEF MergeTx, Goto
<1>4. searched' \in SUBSET Originals /\ indexed' \in SUBSET Originals
  BY DEF MergeTx, IInv, NoDanglingId
<1>5. fields' \in [Ids -> SUBSET Facts]
  BY <1>1, <1>2 DEF MergeTx, IInv, TypeOK
<1>6. inter' \in [Facts -> Originals \cup {NoId}]
  BY <1>2, InterType DEF MergeTx
<1>7. history' \in SUBSET (Ids \X Ids) /\ profileCount' \in Int
  BY <1>1, <1>2 DEF MergeTx, IInv, TypeOK
<1> QED  BY <1>3, <1>4, <1>5, <1>6, <1>7, OtherTables DEF MergeTx, IInv, TypeOK

\* After its commit a merge indexes its target.
LEMMA MergeFinishInv ==
    ASSUME IInv, NEW w \in Workers, MergeFinish(w)
    PROVE  IInv'
<1>1. job[w].tgt \in Originals /\ Originals \subseteq Ids
  BY IdsLemma DEF IInv, JobsOK, JobOK, MergeFinish, Targeted, Sourced
<1> DEFINE moved == (indexed \ {job[w].src}) \cup {job[w].tgt}
<1>2. moved \subseteq Originals
  BY <1>1 DEF IInv, NoDanglingId
<1>3. /\ indexed' \in SUBSET Originals
      /\ queue' \in SUBSET (Ids \X Ids)
  <2>1. CASE UNCHANGED indexed /\ (GiveUp(w) \/ Succeed(w))
    BY <2>1 DEF GiveUp, Succeed, IInv, TypeOK, NoDanglingId
  <2>2. CASE indexed' = moved /\ \E m \in SUBSET (moved \ {job[w].tgt}) :
                queue' = (queue \ {job[w].rq}) \cup {<<job[w].tgt, x>> : x \in m}
    BY <1>1, <1>2, <2>2 DEF IInv, TypeOK
  <2> QED  BY <2>1, <2>2 DEF MergeFinish
<1>4. Finish(w)
  BY DEF MergeFinish, Succeed, GiveUp
<1> QED  BY <1>3, <1>4, IdleLemma, OtherTables, InterType
         DEF MergeFinish, Finish, IInv, TypeOK, NoDanglingId, search, counts

----------------------------------------------------------------------------
(* The invariant *)

\* Steps that change nothing.
LEMMA StutterInv ==
    ASSUME IInv, UNCHANGED vars
    PROVE  IInv'
<1>1. RowsOK' /\ NoDanglingId'
  BY TablesSame DEF vars, tables
<1>2. Rows' = Rows /\ Originals' = Originals
  BY MasterSame DEF vars, master
<1>3. JobsOK'
  BY <1>2 DEF vars, JobsOK, IInv
<1>4. TypeOK'
  BY DEF vars, TypeOK, IInv
<1> QED  BY <1>1, <1>3, <1>4 DEF IInv

\* Every step keeps the invariant: one lemma per action.
LEMMA NextInv == IInv /\ [Next]_vars => IInv'
<1> SUFFICES ASSUME IInv, Next PROVE IInv'
  BY StutterInv
<1>1. ASSUME NEW s \in Current, NEW t \in Current, RequestMerge(s, t) PROVE IInv'
  BY <1>1, RequestMergeInv
<1>2. ASSUME NEW w \in Workers, NEW o \in Facts, StartPut(w, o) PROVE IInv'
  BY <1>2, StartPutInv
<1>3. ASSUME NEW w \in Workers, NEW s \in Current, NEW t \in Current, DirectMerge(w, s, t)
      PROVE  IInv'
  BY <1>3, DirectMergeInv
<1>4. ASSUME NEW w \in Workers, PutStep(w) PROVE IInv'
  BY <1>4, PutMatchInv, PutMasterInv, PutHistoryInv, PutTxInv, PutUndoInv, PutPublishInv
     DEF PutStep
<1>5. ASSUME NEW w \in Workers, MergeStep(w) PROVE IInv'
  BY <1>5, MergeReadsInv, MergeMasterInv, MergeSearchInv, MergeTxInv, MergeUndoInv,
     MergeFinishInv DEF MergeStep
<1>6. ASSUME NEW w \in Workers, NEW r \in queue, TakeRequest(w, r) PROVE IInv'
  BY <1>6, TakeRequestInv
<1>7. ASSUME NEW w \in Workers, PutFailure(w) PROVE IInv'
  BY <1>7, PutFailInv, PutPublishInv DEF PutFailure
<1>8. ASSUME NEW w \in Workers, MergeFailure(w) \/ Crash(w) PROVE IInv'
  BY <1>8, MergeTxFailInv, DyingInv DEF MergeFailure
<1> QED  BY <1>1, <1>2, <1>3, <1>4, <1>5, <1>6, <1>7, <1>8 DEF Next, Work

(***************************************************************************)
(* Type correctness, with what the invocations hold in their hands: the    *)
(* strengthening that makes the two theorems below inductive.              *)
(***************************************************************************)
THEOREM StoreInvariant == Spec => []IInv
  BY InitInv, NextInv, PTL DEF Spec

\* The tables, the queue and the invocations always hold values of their type.
THEOREM TypeCorrect == Spec => []TypeOK
<1>1. IInv => TypeOK
  BY DEF IInv
<1> QED  BY <1>1, StoreInvariant, PTL

\* No table ever refers to an id that the master table cannot resolve.
THEOREM NoDangling == Spec => []NoDanglingId
<1>1. IInv => NoDanglingId
  BY DEF IInv
<1> QED  BY <1>1, StoreInvariant, PTL

----------------------------------------------------------------------------
(* The object counters *)

\* Objects are finitely many, so they can be counted.
LEMMA StoredFinite == IsFiniteSet(Stored)
<1>1. IsFiniteSet(Facts)
  BY FS_Product, DataAssumption DEF Facts
<1> QED  BY <1>1, FS_Subset DEF Stored

\* Only the two transactions write the interaction tables.
LEMMA InterWriters ==
    ASSUME Next
    PROVE  \/ UNCHANGED <<inter, objectCount>>
           \/ \E w \in Workers : PutTx(w) \/ MergeTx(w)
<1>1. ASSUME NEW w \in Workers, PutStep(w), ~PutTx(w)
      PROVE  UNCHANGED <<inter, objectCount>>
  BY <1>1, ZenonT(40) DEF PutStep, PutMatch, PutMaster, PutHistory, PutUndo, PutPublish, tables, counts
<1>2. ASSUME NEW w \in Workers, MergeStep(w), ~MergeTx(w)
      PROVE  UNCHANGED <<inter, objectCount>>
  BY <1>2, ZenonT(40) DEF MergeStep, MergeSource, MergeTarget, MergeCheck, MergeMaster, MergeSearch,
              MergeUndo, MergeFinish, tables, counts
<1>3. ASSUME NEW w \in Workers, PutFailure(w) \/ MergeFailure(w) \/ Crash(w)
      PROVE  UNCHANGED <<inter, objectCount>>
  BY <1>3, SMTT(30) DEF PutFailure, PutFail, PutPublishFail, PutTxFail, MergeFailure, MergeTxFail,
              MergeFinishFail, Crash, tables, counts
<1>4. ASSUME NEW w \in Workers,
             \/ \E o \in Facts : StartPut(w, o)
             \/ \E s, t \in Current : DirectMerge(w, s, t)
             \/ \E r \in queue : TakeRequest(w, r)
      PROVE  UNCHANGED <<inter, objectCount>>
  BY <1>4 DEF StartPut, DirectMerge, TakeRequest, tables
<1>5. ASSUME NEW s \in Current, NEW t \in Current, RequestMerge(s, t)
      PROVE  UNCHANGED <<inter, objectCount>>
  BY <1>5 DEF RequestMerge, tables
<1> QED  BY <1>1, <1>2, <1>3, <1>4, <1>5, ZenonT(40) DEF Next, Work

\* The object counter moves with the objects in every step.
LEMMA CountStep == IInv /\ ObjectCountInSync /\ [Next]_vars => ObjectCountInSync'
<1> SUFFICES ASSUME IInv, ObjectCountInSync, [Next]_vars
             PROVE  ObjectCountInSync'
  OBVIOUS
<1>1. CASE UNCHANGED <<inter, objectCount>>
  BY <1>1 DEF ObjectCountInSync, Stored
<1>2. ASSUME NEW w \in Workers, PutTx(w)
      PROVE  ObjectCountInSync'
  <2> DEFINE o == job[w].obj
  <2>1. o \in Facts /\ job[w].cid \in Ids /\ job[w].cid # NoId
    BY <1>2, IdsLemma DEF IInv, JobsOK, JobOK, PutTx, PutPhases, Landed
  <2>2. inter \in [Facts -> IdOrNone]
    BY DEF IInv, TypeOK
  <2>3. CASE inter[o] = NoId
    <3>1. Stored' = Stored \cup {o} /\ o \notin Stored
      BY <1>2, <2>1, <2>2, <2>3 DEF PutTx, Stored
    <3>2. Cardinality(Stored') = Cardinality(Stored) + 1
      BY <3>1, StoredFinite, FS_AddElement
    <3> QED  BY <1>2, <2>3, <3>2 DEF PutTx, ObjectCountInSync
  <2>4. CASE inter[o] # NoId
    <3>1. Stored' = Stored
      BY <1>2, <2>1, <2>2, <2>4 DEF PutTx, Stored
    <3> QED  BY <1>2, <2>4, <3>1 DEF PutTx, ObjectCountInSync, IInv, TypeOK
  <2> QED  BY <2>3, <2>4
<1>3. ASSUME NEW w \in Workers, MergeTx(w)
      PROVE  ObjectCountInSync'
  <2>1. job[w].src # NoId /\ job[w].tgt # NoId
    BY <1>3, IdsLemma DEF IInv, JobsOK, JobOK, MergeTx, Sourced, Targeted
  <2>2. Stored' = Stored
    BY <1>3, <2>1 DEF MergeTx, Stored
  <2> QED  BY <1>3, <2>2 DEF MergeTx, ObjectCountInSync
<1> QED  BY <1>1, <1>2, <1>3, InterWriters DEF vars

\* The object counters equal the number of stored objects, at every moment.
THEOREM ObjectCount == Spec => []ObjectCountInSync
<1>1. Init => ObjectCountInSync
  <2> SUFFICES ASSUME Init PROVE ObjectCountInSync
    OBVIOUS
  <2>1. Stored = {}
    BY DEF Init, Stored
  <2> QED  BY <2>1, FS_EmptySet DEF Init, ObjectCountInSync
<1> QED  BY <1>1, CountStep, StoreInvariant, PTL DEF Spec

----------------------------------------------------------------------------
(* Objects and history *)

\* An object changes profile only by a merge that the history then holds.
THEOREM ObjectsMove == Spec => ObjectsMoveByMergeOnly
<1> DEFINE Moves == \A f \in Stored :
                        inter'[f] # inter[f] => <<inter'[f], inter[f]>> \in history'
<1>1. ASSUME IInv, [Next]_vars
      PROVE  [Moves]_vars
  <2>1. CASE UNCHANGED <<inter, objectCount>>
    BY <2>1
  <2>2. ASSUME NEW w \in Workers, PutTx(w)
        PROVE  Moves
    BY <2>2 DEF PutTx, Stored, IInv, TypeOK
  <2>3. ASSUME NEW w \in Workers, MergeTx(w)
        PROVE  Moves
    BY <2>3 DEF MergeTx, Stored
  <2> QED  BY <1>1, <2>1, <2>2, <2>3, InterWriters DEF vars
<1> QED  BY <1>1, StoreInvariant, PTL DEF Spec, ObjectsMoveByMergeOnly

----------------------------------------------------------------------------
(* Live search rows *)

Moving == {"mergeMaster", "mergeSearch", "mergeTx", "mergeUndo", "mergeFinish"}

\* Without failing puts nothing is undone, and a merge has two different sides.
CalmOK(j) == j.pc # "putUndo" /\ (j.pc \in Moving => j.src # j.tgt)
CalmInv   == (\A w \in Workers : CalmOK(job[w])) /\ used["putFailures"] = 0

\* Where a put goes on to when nothing fails.
Advanced == {"putMaster", "putHistory", "putTx", "putPublish"}

\* Spending one bound leaves the others alone.
LEMMA SpendOther ==
    ASSUME TypeOK, NEW b \in Bounds \ {"putFailures"}, Spend(b)
    PROVE  used'["putFailures"] = used["putFailures"]
  BY DEF TypeOK, Spend, Bounds

\* A bound of zero cannot be spent.
LEMMA SpendNone ==
    ASSUME TypeOK, MaxPutFailures = 0
    PROVE  ~Spend("putFailures")
  BY DEF TypeOK, Spend, Bounds, Limit

\* Without failures of puts no rollback of a put is ever under way.
LEMMA CalmStep ==
    ASSUME IInv, CalmInv, MaxPutFailures = 0, Next
    PROVE  CalmInv'
<1>0. TypeOK /\ job \in [Workers -> Jobs] /\ \A w \in Workers : CalmOK(job[w])
  BY DEF IInv, TypeOK, CalmInv
<1>1. ASSUME NEW s \in Current, NEW t \in Current, RequestMerge(s, t)
      PROVE  CalmInv'
  BY <1>0, <1>1, SpendOther DEF RequestMerge, CalmInv, Bounds
<1>2. ASSUME NEW w \in Workers, Finish(w), used'["putFailures"] = 0
      PROVE  CalmInv'
  BY <1>0, <1>2 DEF Finish, Become, CalmInv, CalmOK, Idle, Moving
<1>3. ASSUME NEW w \in Workers, NEW o \in Facts, StartPut(w, o)
      PROVE  CalmInv'
  BY <1>0, <1>3, SpendOther DEF StartPut, Become, CalmInv, CalmOK, Idle, Moving, Bounds
<1>4. ASSUME NEW w \in Workers, NEW s \in Current, NEW t \in Current, DirectMerge(w, s, t)
      PROVE  CalmInv'
  BY <1>0, <1>4, SpendOther DEF DirectMerge, Become, CalmInv, CalmOK, Idle, Moving, Bounds
<1>5. ASSUME NEW w \in Workers, NEW r \in queue, TakeRequest(w, r)
      PROVE  CalmInv'
  BY <1>0, <1>5 DEF TakeRequest, Become, CalmInv, CalmOK, Idle, Moving
<1>6. ASSUME NEW w \in Workers, PutMatch(w) \/ PutMaster(w) \/ PutHistory(w) \/ PutTx(w)
      PROVE  CalmInv'
  <2>1. used' = used
    BY <1>6, Zenon DEF PutMatch, PutMaster, PutHistory, PutTx
  <2>2. /\ job' \in [Workers -> Jobs]
        /\ \A x \in Workers \ {w} : job'[x] = job[x]
        /\ job'[w].pc \in Advanced
    <3>1. job' \in [Workers -> Jobs]
      BY NextInv DEF IInv, TypeOK
    <3>2. \E j : Become(w, j)
      BY <1>6, Zenon DEF PutMatch, PutMaster, PutHistory, PutTx, Goto
    <3>3. \A x \in Workers \ {w} : job'[x] = job[x]
      BY <1>0, <3>2 DEF Become
    <3>4. \A j : Become(w, j) => job'[w] = j
      BY <1>0 DEF Become
    <3>5. "pc" \in DOMAIN job[w]
      BY <1>0 DEF Jobs
    <3>6. ASSUME PutMatch(w) PROVE job'[w].pc \in Advanced
      <4>1. PICK m, r : \/ job'[w] = [job[w] EXCEPT !.pc = "putMaster"]
                        \/ job'[w] = [job[w] EXCEPT !.pc = "putMaster", !.match = m, !.rest = r]
        BY <3>4, <3>6, Zenon DEF PutMatch, Goto
      <4> QED  BY <3>5, <4>1 DEF Advanced
    <3>7. ASSUME PutMaster(w) PROVE job'[w].pc \in Advanced
      <4> DEFINE j       == job[w]
                 matched == j.match # NoId
                 merged  == matched /\ Home(w) = j.match
                 isNew   == connect[j.obj[1]] = NoId
                 pc      == IF merged THEN "putHistory" ELSE "putTx"
                 up      == IF isNew THEN "insert" ELSE "update"
                 fresh   == IF matched THEN nextId ELSE NoId
                 rest    == IF matched /\ ~merged THEN j.rest \cup {j.match} ELSE j.rest
      <4>1. Become(w, [j EXCEPT !.pc = pc, !.cid = Home(w), !.up = up, !.fresh = fresh,
                                !.rest = rest])
        BY <3>7 DEF PutMaster
      <4>2. pc \in {"putHistory", "putTx"}
        BY Zenon
      <4> HIDE DEF pc, up, fresh, rest
      <4>3. job'[w] = [j EXCEPT !.pc = pc, !.cid = Home(w), !.up = up, !.fresh = fresh,
                                !.rest = rest]
        BY <3>4, <4>1, Zenon
      <4>4. job'[w].pc = pc
        BY <3>5, <4>3
      <4> QED  BY <4>2, <4>4 DEF Advanced
    <3>8. ASSUME PutHistory(w) \/ PutTx(w) PROVE job'[w].pc \in Advanced
      <4>1. PICK pc \in {"putTx", "putPublish"} : job'[w] = [job[w] EXCEPT !.pc = pc]
        BY <3>4, <3>8, Zenon DEF PutHistory, PutTx, Goto
      <4> QED  BY <3>5, <4>1 DEF Advanced
    <3> QED  BY <1>6, <3>1, <3>3, <3>6, <3>7, <3>8
  <2>3. \A x \in Workers : CalmOK(job'[x])
    <3>1. CalmOK(job'[w])
      BY <2>2 DEF CalmOK, Moving, Advanced
    <3> QED  BY <1>0, <2>2, <3>1
  <2> QED  BY <2>1, <2>3, Zenon DEF CalmInv
<1>7. ASSUME NEW w \in Workers,
             PutUndo(w) \/ PutPublish(w) \/ PutFailure(w)
      PROVE  CalmInv'
  <2>1. PutPublish(w)
    BY <1>0, <1>7, SpendNone DEF PutUndo, CalmOK, PutFailure, PutFail, PutTxFail, PutPublishFail
  <2> QED  BY <1>2, <2>1 DEF PutPublish, CalmInv
<1>8. ASSUME NEW w \in Workers,
             MergeSource(w) \/ MergeTarget(w) \/ MergeCheck(w) \/ MergeMaster(w)
      PROVE  CalmInv'
  <2>1. used' = used
    BY <1>8 DEF MergeSource, MergeTarget, MergeCheck, MergeMaster
  <2>2. CASE Finish(w)
    BY <1>2, <2>1, <2>2 DEF CalmInv
  <2>3. CASE ~Finish(w)
    <3>1. /\ job' \in [Workers -> Jobs]
          /\ \A x \in Workers \ {w} : job'[x] = job[x]
      BY <1>0, <1>8, <2>3, NextInv
         DEF MergeSource, MergeTarget, MergeCheck, MergeMaster, Become, IInv, TypeOK,
             Succeed, GiveUp
    <3>2. CASE MergeSource(w)
      <4>1. PICK s : Become(w, [job[w] EXCEPT !.pc = "mergeTarget", !.src = s])
        BY <2>3, <3>2 DEF MergeSource
      <4>2. job'[w].pc = "mergeTarget"
        BY <1>0, <4>1 DEF Become, Jobs
      <4> QED  BY <1>0, <2>1, <3>1, <4>2 DEF CalmInv, CalmOK, Moving
    <3>3. CASE MergeTarget(w)
      <4>1. PICK t : Become(w, [job[w] EXCEPT !.pc = "mergeCheck", !.tgt = t])
        BY <2>3, <3>3 DEF MergeTarget, Succeed, GiveUp
      <4>2. job'[w].pc = "mergeCheck"
        BY <1>0, <4>1 DEF Become, Jobs
      <4> QED  BY <1>0, <2>1, <3>1, <4>2 DEF CalmInv, CalmOK, Moving
    <3>4. CASE MergeCheck(w)
      <4>1. PICK s : /\ s # job[w].tgt
                     /\ Become(w, [job[w] EXCEPT !.pc = "mergeMaster", !.src = s])
        BY <2>3, <3>4 DEF MergeCheck, Succeed, GiveUp
      <4>2. job'[w].pc = "mergeMaster" /\ job'[w].src = s /\ job'[w].tgt = job[w].tgt
        BY <1>0, <4>1 DEF Become, Jobs
      <4> QED  BY <1>0, <2>1, <3>1, <4>1, <4>2 DEF CalmInv, CalmOK
    <3>5. CASE MergeMaster(w)
      <4>1. PICK ps : Become(w, [job[w] EXCEPT !.pc = "mergeSearch", !.pids = ps])
        BY <2>3, <3>5 DEF MergeMaster
      <4>2. /\ job'[w].pc = "mergeSearch" /\ job'[w].src = job[w].src
            /\ job'[w].tgt = job[w].tgt
        BY <1>0, <4>1 DEF Become, Jobs
      <4>3. job[w].src # job[w].tgt
        BY <1>0, <3>5 DEF MergeMaster, CalmOK, Moving
      <4> QED  BY <1>0, <2>1, <3>1, <4>2, <4>3 DEF CalmInv, CalmOK
    <3> QED  BY <1>8, <3>2, <3>3, <3>4, <3>5
  <2> QED  BY <2>2, <2>3, ZenonT(40)
<1>9. ASSUME NEW w \in Workers, MergeSearch(w) \/ MergeTx(w) \/ MergeTxFail(w)
      PROVE  CalmInv'
  <2>1. used'["putFailures"] = 0
    BY <1>0, <1>9, SpendOther DEF MergeSearch, MergeTx, MergeTxFail, CalmInv, Bounds
  <2>2. job[w].src # job[w].tgt
    BY <1>0, <1>9 DEF MergeSearch, MergeTx, MergeTxFail, CalmOK, Moving
  <2>3. /\ \A x \in Workers \ {w} : job'[x] = job[x]
        /\ job'[w].pc \in Moving /\ job'[w].src = job[w].src /\ job'[w].tgt = job[w].tgt
    <3>1. CASE MergeSearch(w)
      BY <1>0, <3>1 DEF MergeSearch, Become, Jobs, Moving
    <3>2. CASE MergeTx(w)
      BY <1>0, <3>2 DEF MergeTx, Goto, Become, Jobs, Moving
    <3>3. CASE MergeTxFail(w)
      BY <1>0, <3>3 DEF MergeTxFail, Become, Jobs, Moving
    <3> QED  BY <1>9, <3>1, <3>2, <3>3
  <2> QED  BY <1>0, <2>1, <2>2, <2>3 DEF CalmInv, CalmOK, Moving
<1>10. ASSUME NEW w \in Workers,
              MergeUndo(w) \/ MergeFinish(w) \/ MergeFinishFail(w) \/ Crash(w)
       PROVE  CalmInv'
  <2>1. Finish(w)
    BY <1>10 DEF MergeUndo, MergeFinish, MergeFinishFail, Crash, GiveUp, Succeed
  <2>2. used'["putFailures"] = 0
    BY <1>0, <1>10, SpendOther DEF MergeUndo, MergeFinish, MergeFinishFail, Crash, CalmInv, Bounds
  <2> QED  BY <1>2, <2>1, <2>2
<1> QED  BY <1>1, <1>3, <1>4, <1>5, <1>6, <1>7, <1>8, <1>9, <1>10
         DEF Next, Work, PutStep, MergeStep, MergeFailure

\* Only the two transactions and the rollback of a put write the search table.
LEMMA RowWriters ==
    ASSUME Next
    PROVE  \/ searched' = searched
           \/ \E w \in Workers : PutTx(w) \/ MergeTx(w) \/ PutUndo(w)
<1>1. ASSUME NEW w \in Workers, PutStep(w), ~PutTx(w), ~PutUndo(w)
      PROVE  searched' = searched
  BY <1>1, ZenonT(40) DEF PutStep, PutMatch, PutMaster, PutHistory, PutPublish, tables, search
<1>2. ASSUME NEW w \in Workers, MergeStep(w), ~MergeTx(w)
      PROVE  searched' = searched
  BY <1>2, ZenonT(40) DEF MergeStep, MergeSource, MergeTarget, MergeCheck, MergeMaster, MergeSearch,
              MergeUndo, MergeFinish, tables, search
<1>3. ASSUME NEW w \in Workers, PutFailure(w) \/ MergeFailure(w) \/ Crash(w)
      PROVE  searched' = searched
  BY <1>3, Zenon DEF PutFailure, PutFail, PutTxFail, PutPublishFail, MergeFailure,
                     MergeTxFail, MergeFinishFail, Crash, tables, search
<1>4. ASSUME NEW w \in Workers, NEW r \in queue, TakeRequest(w, r)
      PROVE  searched' = searched
  BY <1>4 DEF TakeRequest, tables
<1>5. ASSUME NEW s, NEW t, RequestMerge(s, t)
      PROVE  searched' = searched
  BY <1>5 DEF RequestMerge, tables
<1>6. ASSUME NEW w \in Workers, NEW o, StartPut(w, o)
      PROVE  searched' = searched
  BY <1>6 DEF StartPut, tables
<1>7. ASSUME NEW w \in Workers, NEW s, NEW t, DirectMerge(w, s, t)
      PROVE  searched' = searched
  BY <1>7 DEF DirectMerge, tables
<1> QED  BY <1>1, <1>2, <1>3, <1>4, <1>5, <1>6, <1>7, ZenonT(40) DEF Next, Work

(***************************************************************************)
(* As long as no put fails, a search row disappears only with the last     *)
(* object filed under it, however merges race, fail or die.                *)
(***************************************************************************)
THEOREM LiveRows ==
    ASSUME MaxPutFailures = 0
    PROVE  Spec => LiveRowsKept
<1> DEFINE Kept == \A c \in searched \ searched' : \A f \in Facts : inter'[f] # c
<1>1. Init => CalmInv
  BY DEF Init, CalmInv, CalmOK, Idle, Moving, Bounds
<1>2. IInv /\ CalmInv /\ [Next]_vars => CalmInv'
  BY CalmStep DEF vars, CalmInv
<1>3. ASSUME IInv, CalmInv, [Next]_vars
      PROVE  [Kept]_vars
  <2>1. ASSUME NEW w \in Workers, MergeTx(w)
        PROVE  Kept
    <3>1. job[w].src # job[w].tgt
      BY <1>3, <2>1 DEF MergeTx, CalmInv, CalmOK, Moving
    <3> QED  BY <2>1, <3>1 DEF MergeTx
  <2>2. ASSUME NEW w \in Workers, PutTx(w)
        PROVE  Kept
    BY <2>2 DEF PutTx
  <2>3. CASE \A w \in Workers : ~MergeTx(w) /\ ~PutTx(w)
    <3>1. \A w \in Workers : ~PutUndo(w)
      BY <1>3 DEF PutUndo, CalmInv, CalmOK
    <3>2. CASE Next
      BY <2>3, <3>1, <3>2, RowWriters
    <3> QED  BY <1>3, <3>2
  <2> QED  BY <2>1, <2>2, <2>3
<1> QED  BY <1>1, <1>2, <1>3, StoreInvariant, PTL DEF Spec, LiveRowsKept

----------------------------------------------------------------------------
(* Concurrent puts *)

\* Nothing was merged so far and nothing failed.
Untouched == history = {} /\ \A b \in Bounds \ {"puts"} : used[b] = 0

\* What invocations can be doing then: putting, or looking at a request whose
\* source is an id no profile was created with.
PutOnly == {"idle", "putMatch", "putMaster", "putHistory", "putTx", "putPublish",
            "mergeSource"}

\* Puts that have created a profile in the master table and nowhere else yet.
Pending    == {w \in Workers : job[w].pc = "putTx" /\ job[w].up = "insert"}
Uncounted  == {job[w].cid : w \in Pending}
Counted    == Current \ Uncounted
Unknown(u) == u \notin Originals /\ u < nextId

PutGoesOn(w) ==
    /\ job[w].pc \in PutOnly
    /\ job[w].pc = "putMatch" => job[w].match = NoId /\ job[w].rest = {}
    /\ job[w].pc = "putMaster" =>
         \/ job[w].match = NoId /\ job[w].rest = {}
         \/ job[w].match \in Current
    /\ job[w].pc \in {"putTx", "putPublish"} =>
         /\ job[w].cid = connect[job[w].obj[1]]
         /\ job[w].rest # {} => Unknown(job[w].fresh)
    /\ job[w].pc = "putPublish" => job[w].cid \in searched
    /\ job[w].pc = "mergeSource" => Unknown(job[w].rq[1])

(***************************************************************************)
(* The tables agree but for the profiles whose put is between its master   *)
(* row and its transaction: those may lack a search row, and each of them  *)
(* is the one profile its put still has to count.                          *)
(***************************************************************************)
Told ==
    /\ \A p \in Rows : original[p] < nextId
    /\ \A f \in Stored : inter[f] = connect[f[1]]
    /\ \A c \in Ids : fields[c] = {f \in Facts : inter[f] = c}
    /\ indexed \subseteq searched /\ searched \subseteq Current
    /\ Counted \subseteq searched /\ Uncounted \subseteq Current
    /\ profileCount = Cardinality(Counted)
    /\ \A v, w \in Pending : job[v].cid = job[w].cid => v = w
    /\ \A r \in queue : Unknown(r[1])

PutInv == Untouched => Told /\ \A w \in Workers : PutGoesOn(w)

\* A step that spends another bound than that of the puts ends the quiet times.
LEMMA SpendTouches ==
    ASSUME TypeOK, NEW b \in Bounds \ {"puts"}, Spend(b)
    PROVE  ~Untouched'
<1>1. used \in [Bounds -> Nat] /\ used'[b] = used[b] + 1
  BY DEF TypeOK, Spend
<1> QED  BY <1>1 DEF Untouched

\* Objects put: the bound the puts themselves spend does not count.
LEMMA PutsTouchNothing ==
    ASSUME TypeOK, used' = used \/ Spend("puts"), history \subseteq history', Untouched'
    PROVE  Untouched
  BY DEF TypeOK, Spend, Untouched, Bounds

\* The history only grows and bounds are only spent.
LEMMA UntouchedBefore ==
    ASSUME TypeOK, [Next]_vars, Untouched'
    PROVE  Untouched
<1>1. ASSUME NEW b \in Bounds \ {"puts"}, Spend(b)
      PROVE  FALSE
  BY <1>1, SpendTouches
<1>2. ~Spend("merges") /\ ~Spend("putFailures") /\ ~Spend("mergeFailures") /\ ~Spend("crashes")
  BY <1>1 DEF Bounds
<1>3. ASSUME NEW w \in Workers, Work(w)
      PROVE  used' = used /\ history \subseteq history'
  <2>1. CASE PutStep(w)
    <3>1. ~PutUndo(w) => used' = used /\ history \subseteq history'
      BY <2>1, ZenonT(40) DEF PutStep, PutMatch, PutMaster, PutHistory, PutTx, PutPublish, tables
    <3>2. PutUndo(w) => used' = used /\ history \subseteq history'
      BY <1>2 DEF PutUndo, counts, master
    <3> QED  BY <3>1, <3>2
  <2>2. CASE MergeStep(w)
    BY <2>2, ZenonT(40) DEF MergeStep, MergeSource, MergeTarget, MergeCheck, MergeMaster,
          MergeSearch, MergeTx, MergeUndo, MergeFinish, tables
  <2>3. CASE \E r \in queue : TakeRequest(w, r)
    BY <2>3 DEF TakeRequest, tables
  <2> QED  BY <1>3, <2>1, <2>2, <2>3 DEF Work
<1>4. ASSUME NEW w \in Workers, PutFailure(w)
      PROVE  FALSE
  BY <1>2, <1>4, Zenon DEF PutFailure, PutFail, PutPublishFail, PutTxFail
<1>5. ASSUME NEW w \in Workers, MergeFailure(w) \/ Crash(w)
      PROVE  used' = used /\ history' = history
  BY <1>2, <1>5 DEF MergeFailure, MergeTxFail, MergeFinishFail, Crash, tables
<1>6. ASSUME NEW w \in Workers, NEW o \in Facts, StartPut(w, o)
      PROVE  Spend("puts") /\ history' = history
  BY <1>6 DEF StartPut, tables
<1>7. ASSUME NEW s, NEW t, RequestMerge(s, t) \/ \E w \in Workers : DirectMerge(w, s, t)
      PROVE  FALSE
  BY <1>2, <1>7 DEF RequestMerge, DirectMerge
<1>8. UNCHANGED vars => used' = used /\ history' = history
  BY DEF vars
<1>9. (used' = used \/ Spend("puts")) /\ history \subseteq history'
  BY <1>3, <1>4, <1>5, <1>6, <1>7, <1>8, ZenonT(40) DEF Next
<1> QED  BY <1>9, PutsTouchNothing

(***************************************************************************)
(* What the other invocations have read stays good when rows are only      *)
(* added: the master rows they hold on to do not move.                     *)
(***************************************************************************)
LEMMA OthersGoOn ==
    ASSUME IInv, NEW x \in Workers, PutGoesOn(x), job'[x] = job[x],
           \A p \in Rows : connect'[p] = connect[p],
           Originals' \subseteq Originals \cup {nextId}, nextId' \in Nat, nextId <= nextId',
           Current \subseteq Current', searched \subseteq searched'
    PROVE  PutGoesOn(x)'
<1>1. job[x] \in Jobs /\ nextId \in Nat /\ JobOK(job[x], Originals, Rows)
      /\ connect \in [ProfileIds -> IdOrNone] /\ NoId \notin Ids /\ Originals \subseteq Ids
  BY IdsLemma DEF IInv, TypeOK, Ids, JobsOK
<1>2. \A u \in IdOrNone : Unknown(u) => Unknown(u)'
  BY <1>1 DEF Unknown, IdOrNone, Ids, NoId
<1>3. job[x].fresh \in IdOrNone /\ job[x].rq[1] \in IdOrNone
  BY <1>1 DEF Jobs
<1>4. ASSUME job[x].pc \in {"putTx", "putPublish"}
      PROVE  connect'[job[x].obj[1]] = connect[job[x].obj[1]]
  <2>1. job[x].obj[1] \in ProfileIds /\ job[x].cid \in Ids
    BY <1>1, <1>4 DEF JobOK, Landed, PutPhases, Facts
  <2>2. connect[job[x].obj[1]] # NoId
    BY <1>1, <1>4, <2>1 DEF PutGoesOn
  <2> QED  BY <2>1, <2>2 DEF Rows
<1> QED  BY <1>2, <1>3, <1>4 DEF PutGoesOn

\* Steps that leave the tables alone and begin or end no pending put.
LEMMA ToldStays ==
    ASSUME Told, UNCHANGED <<tables, queue, nextId>>,
           Pending' = Pending, \A v \in Pending : job'[v].cid = job[v].cid
    PROVE  Told'
<1>1. /\ Rows' = Rows /\ Originals' = Originals /\ Current' = Current
      /\ Stored' = Stored /\ Uncounted' = Uncounted
  BY MasterSame DEF tables, master, Stored, Uncounted
<1>2. Counted' = Counted
  BY <1>1 DEF Counted
<1>3. \A u : Unknown(u)' <=> Unknown(u)
  BY <1>1 DEF Unknown
<1> QED  BY <1>1, <1>2, <1>3 DEF Told, tables

\* One invocation goes on, to a step that is not the transaction of a put.
LEMMA PendingSame ==
    ASSUME TypeOK, NEW w \in Workers, job[w].pc # "putTx", NEW j, Become(w, j), j.pc # "putTx"
    PROVE  Pending' = Pending /\ \A v \in Pending : job'[v].cid = job[v].cid
<1>1. job'[w] = j /\ \A v \in Workers \ {w} : job'[v] = job[v]
  BY DEF TypeOK, Become
<1> QED  BY <1>1 DEF Pending

\* Steps that write no table at all: a put begins or finds its matches, a
\* request is taken or found to have no source.
LEMMA PutLocalStep ==
    ASSUME IInv, Told, \A x \in Workers : PutGoesOn(x),
           UNCHANGED <<tables, queue, nextId>>,
           NEW w \in Workers, job[w].pc # "putTx", NEW j, Become(w, j),
           j.pc \in {"idle", "putMatch", "putMaster", "mergeSource"},
           j.pc = "putMatch" => j.match = NoId /\ j.rest = {},
           j.pc = "putMaster" => \/ j.match = NoId /\ j.rest = {}
                                 \/ j.match \in Current,
           j.pc = "mergeSource" => Unknown(j.rq[1])
    PROVE  Told' /\ \A x \in Workers : PutGoesOn(x)'
<1>1. TypeOK /\ nextId \in Nat
  BY DEF IInv, TypeOK, Ids
<1>2. Told'
  BY <1>1, PendingSame, ToldStays
<1>3. job'[w] = j /\ \A v \in Workers \ {w} : job'[v] = job[v]
  BY <1>1 DEF TypeOK, Become
<1>4. Rows' = Rows /\ Originals' = Originals /\ Current' = Current
  BY MasterSame DEF tables, master
<1>5. ASSUME NEW x \in Workers \ {w}
      PROVE  PutGoesOn(x)'
  BY <1>1, <1>3, <1>4, <1>5, OthersGoOn DEF tables
<1>6. Unknown(j.rq[1]) => Unknown(j.rq[1])'
  BY <1>4 DEF Unknown
<1>7. PutGoesOn(w)'
  BY <1>3, <1>4, <1>6 DEF PutGoesOn, PutOnly
<1> QED  BY <1>2, <1>5, <1>7

\* An object arrives.
LEMMA StartPutTold ==
    ASSUME IInv, Told, \A x \in Workers : PutGoesOn(x),
           NEW w \in Workers, NEW o \in Facts, StartPut(w, o)
    PROVE  Told' /\ \A x \in Workers : PutGoesOn(x)'
<1> DEFINE pc == IF RuleBased THEN "putMatch" ELSE "putMaster"
           j  == [Idle EXCEPT !.pc = pc, !.obj = o]
<1>1. Become(w, j) /\ job[w].pc # "putTx" /\ UNCHANGED <<tables, queue, nextId>>
  BY DEF StartPut
<1>2. pc \in {"putMatch", "putMaster"}
  BY ZenonT(40)
<1>3. j.pc = pc /\ j.match = NoId /\ j.rest = {}
  BY DEF Idle
<1> HIDE DEF pc, j
<1> QED  BY <1>1, <1>2, <1>3, PutLocalStep

\* What the index offers is a profile.
LEMMA PutMatchTold ==
    ASSUME IInv, Told, \A x \in Workers : PutGoesOn(x),
           NEW w \in Workers, PutMatch(w)
    PROVE  Told' /\ \A x \in Workers : PutGoesOn(x)'
<1>1. job[w] \in Jobs /\ job[w].match = NoId /\ job[w].rest = {} /\ indexed \subseteq Current
  BY DEF IInv, TypeOK, PutMatch, PutGoesOn, Told
<1>2. \/ Become(w, [job[w] EXCEPT !.pc = "putMaster"])
      \/ \E m \in indexed : \E r \in SUBSET indexed :
             Become(w, [job[w] EXCEPT !.pc = "putMaster", !.match = m, !.rest = r])
  BY DEF PutMatch, Goto
<1>3. job[w].pc # "putTx" /\ UNCHANGED <<tables, queue, nextId>>
  BY DEF PutMatch
<1>4. CASE Become(w, [job[w] EXCEPT !.pc = "putMaster"])
  <2> DEFINE j == [job[w] EXCEPT !.pc = "putMaster"]
  <2>1. j.pc = "putMaster" /\ j.match = NoId /\ j.rest = {}
    BY <1>1 DEF Jobs
  <2>2. Become(w, j)
    BY <1>4
  <2> HIDE DEF j
  <2> QED  BY <1>3, <2>1, <2>2, PutLocalStep
<1>5. ASSUME NEW m \in indexed, NEW r \in SUBSET indexed,
             Become(w, [job[w] EXCEPT !.pc = "putMaster", !.match = m, !.rest = r])
      PROVE  Told' /\ \A x \in Workers : PutGoesOn(x)'
  <2> DEFINE j == [job[w] EXCEPT !.pc = "putMaster", !.match = m, !.rest = r]
  <2>1. j.pc = "putMaster" /\ j.match = m
    BY <1>1 DEF Jobs
  <2>2. Become(w, j) /\ m \in Current
    BY <1>1, <1>5
  <2> HIDE DEF j
  <2> QED  BY <1>3, <2>1, <2>2, PutLocalStep
<1> QED  BY <1>2, <1>4, <1>5

\* A request is taken whose source no profile has ever had for its id, and
\* the merge ends there.
LEMMA MergesTold ==
    ASSUME IInv, Told, \A x \in Workers : PutGoesOn(x), NEW w \in Workers,
           (\E r \in queue : TakeRequest(w, r)) \/ MergeSource(w)
    PROVE  Told' /\ \A x \in Workers : PutGoesOn(x)'
<1>1. ASSUME NEW r \in queue, TakeRequest(w, r)
      PROVE  Told' /\ \A x \in Workers : PutGoesOn(x)'
  <2> DEFINE j == [Idle EXCEPT !.pc = "mergeSource", !.rq = r]
  <2>1. j.pc = "mergeSource" /\ j.rq = r
    BY DEF Idle
  <2>2. Become(w, j) /\ job[w].pc # "putTx" /\ UNCHANGED <<tables, queue, nextId>>
    BY <1>1 DEF TakeRequest
  <2>3. Unknown(r[1])
    BY DEF Told
  <2> HIDE DEF j
  <2> QED  BY <2>1, <2>2, <2>3, PutLocalStep
<1>2. ASSUME MergeSource(w)
      PROVE  Told' /\ \A x \in Workers : PutGoesOn(x)'
  <2>1. Unknown(job[w].rq[1]) /\ job[w].pc # "putTx" /\ UNCHANGED <<tables, queue, nextId>>
    BY <1>2 DEF MergeSource, PutGoesOn
  <2>2. Resolve(job[w].rq[1]) = {}
    BY <2>1 DEF Unknown, Resolve, Originals
  <2>3. Become(w, Idle) /\ Idle.pc = "idle"
    BY <1>2, <2>2 DEF MergeSource, Finish, Idle
  <2> QED  BY <2>1, <2>3, PutLocalStep
<1> QED  BY <1>1, <1>2

(***************************************************************************)
(* The master row of a put: a new profile becomes the one its put still    *)
(* has to count, an old one stays as it is.                                *)
(***************************************************************************)
LEMMA PutMasterTold ==
    ASSUME IInv, Told, \A x \in Workers : PutGoesOn(x), NEW w \in Workers, PutMaster(w)
    PROVE  Told' /\ \A x \in Workers : PutGoesOn(x)'
<1> DEFINE p       == job[w].obj[1]
           isNew   == connect[p] = NoId
           matched == job[w].match # NoId
           home    == IF ~isNew THEN connect[p] ELSE IF matched THEN job[w].match ELSE nextId
           merged  == matched /\ home = job[w].match
           drawn   == IF isNew \/ matched THEN 1 ELSE 0
           pc      == IF merged THEN "putHistory" ELSE "putTx"
           up      == IF isNew THEN "insert" ELSE "update"
           fresh   == IF matched THEN nextId ELSE NoId
           rest    == IF matched /\ ~merged THEN job[w].rest \cup {job[w].match} ELSE job[w].rest
           j == [job[w] EXCEPT !.pc = pc, !.cid = home, !.up = up, !.fresh = fresh,
                               !.rest = rest]
           created == isNew /\ ~matched
<1>1. /\ job[w] \in Jobs /\ JobOK(job[w], Originals, Rows) /\ job[w].pc = "putMaster"
      /\ p \in ProfileIds /\ TypeOK /\ nextId \in Nat
      /\ Originals \subseteq Ids /\ NoId \notin Ids /\ Current \subseteq Originals
      /\ connect \in [ProfileIds -> IdOrNone] /\ original \in [ProfileIds -> IdOrNone]
  BY IdsLemma, SMTT(30) DEF IInv, TypeOK, JobsOK, PutMaster, JobOK, PutPhases, Facts, Ids,
                            NoDanglingId
<1>2. /\ connect'  = [connect  EXCEPT ![p] = home]
      /\ original' = [original EXCEPT ![p] = IF isNew THEN nextId ELSE @]
      /\ nextId' = nextId + drawn
      /\ Become(w, j)
      /\ UNCHANGED <<search, inter, history, counts, indexed, queue, used>>
  BY SMTT(60) DEF PutMaster
<1>3. /\ matched => job[w].match \in Current
      /\ ~matched => rest = {}
      /\ \A u \in Originals : u \in Nat /\ u < nextId
      /\ nextId \notin Originals /\ nextId # NoId
  <2>1. \A u \in Originals : u \in Nat /\ u < nextId
    BY <1>1 DEF Told, Originals, Ids
  <2>2. nextId \notin Originals /\ nextId # NoId
    BY <1>1, <2>1 DEF IInv, TypeOK, NoId
  <2>3. \/ job[w].match = NoId /\ job[w].rest = {}
        \/ job[w].match \in Current
    BY <1>1 DEF PutGoesOn
  <2> QED  BY <1>1, <2>1, <2>2, <2>3
<1>4. /\ job'[w] = j /\ \A v \in Workers \ {w} : job'[v] = job[v]
      /\ j.pc = pc /\ j.cid = home /\ j.up = up /\ j.fresh = fresh /\ j.rest = rest
      /\ j.obj = job[w].obj
  BY <1>1, <1>2 DEF TypeOK, Become, Jobs
<1>5. /\ home # NoId
      /\ created => home = nextId
      /\ ~created => home \in Current
      /\ ~isNew => home = connect[p]
      /\ pc \in {"putHistory", "putTx"} /\ (pc = "putTx" <=> ~merged)
      /\ up = "insert" <=> isNew
      /\ isNew /\ matched => merged
      /\ ~matched => ~merged
      /\ rest # {} => fresh = nextId /\ nextId' = nextId + 1
      /\ nextId <= nextId' /\ nextId' \in Nat
      /\ isNew => nextId' = nextId + 1
  <2>1. /\ home # NoId /\ (created => home = nextId)
        /\ (~created => home \in Current) /\ (~isNew => home = connect[p])
    BY <1>1, <1>3 DEF Current, Rows
  <2>2. /\ pc \in {"putHistory", "putTx"} /\ (pc = "putTx" <=> ~merged)
        /\ (up = "insert" <=> isNew)
    BY Zenon
  <2>3. (isNew /\ matched => merged) /\ (~matched => ~merged)
    OBVIOUS
  <2>4. /\ drawn \in {0, 1} /\ (isNew => drawn = 1) /\ (matched => drawn = 1)
        /\ (rest # {} => matched) /\ (matched => fresh = nextId)
    BY <1>3
  <2> HIDE DEF drawn, fresh, rest, home, isNew, matched, merged, pc, up
  <2> QED  BY <1>1, <1>2, <2>1, <2>2, <2>3, <2>4
<1>6. /\ \A q \in ProfileIds \ {p} : connect'[q] = connect[q] /\ original'[q] = original[q]
      /\ connect'[p] = home /\ original'[p] = IF isNew THEN nextId ELSE original[p]
  BY <1>1, <1>2
<1> HIDE DEF home, merged, pc, up, fresh, rest, j, drawn
<1>7. Rows' = Rows \cup {p} /\ (isNew <=> p \notin Rows) /\ Rows \subseteq ProfileIds
  BY <1>1, <1>5, <1>6 DEF Rows
<1>8. /\ \A q \in Rows : connect'[q] = connect[q] /\ original'[q] = original[q]
      /\ Originals' = IF isNew THEN Originals \cup {nextId} ELSE Originals
  <2>1. \A q \in Rows : connect'[q] = connect[q] /\ original'[q] = original[q]
    BY <1>5, <1>6, <1>7
  <2> QED  BY <1>6, <1>7, <2>1 DEF Originals
<1>9. Current' = IF created THEN Current \cup {nextId} ELSE Current
  <2>1. Current' = Current \cup {home}
    BY <1>5, <1>6, <1>7, <1>8 DEF Current
  <2> QED  BY <1>5, <2>1
<1>10. Uncounted' = (IF created THEN Uncounted \cup {nextId} ELSE Uncounted)
       /\ Pending' = (IF created THEN Pending \cup {w} ELSE Pending) /\ w \notin Pending
  <2>1. w \notin Pending
    BY <1>1 DEF Pending
  <2>2. Pending' = IF created THEN Pending \cup {w} ELSE Pending
    BY <1>4, <1>5, <2>1 DEF Pending
  <2>3. \A v \in Pending : job'[v].cid = job[v].cid
    BY <1>4, <2>1 DEF Pending
  <2>4. created => job'[w].cid = nextId
    BY <1>4, <1>5
  <2> QED  BY <2>1, <2>2, <2>3, <2>4 DEF Uncounted
<1>11. Counted' = Counted
  BY <1>1, <1>3, <1>9, <1>10 DEF Counted
<1>12. ASSUME NEW u \in IdOrNone, Unknown(u)
       PROVE  Unknown(u)'
  BY <1>1, <1>5, <1>8, <1>12 DEF Unknown, IdOrNone, Ids, NoId
<1>13. Told'
  <2>1. searched' = searched /\ fields' = fields /\ inter' = inter /\ indexed' = indexed
        /\ queue' = queue /\ profileCount' = profileCount /\ Stored' = Stored
    BY <1>2 DEF search, counts, Stored
  <2>2. \A q \in Rows' : original'[q] < nextId'
    BY <1>1, <1>3, <1>5, <1>6, <1>7, <1>8 DEF Originals
  <2>3. \A f \in Stored' : inter'[f] = connect'[f[1]]
    <3>1. \A f \in Stored : f[1] \in Rows
      BY DEF Told, Stored, Rows, Facts
    <3> QED  BY <1>8, <2>1, <3>1 DEF Told
  <2>4. \A c \in Ids : fields'[c] = {f \in Facts : inter'[f] = c}
    BY <2>1 DEF Told
  <2>5. /\ indexed' \subseteq searched' /\ searched' \subseteq Current'
        /\ Counted' \subseteq searched' /\ Uncounted' \subseteq Current'
        /\ profileCount' = Cardinality(Counted')
    BY <1>9, <1>10, <1>11, <2>1 DEF Told
  <2>6. \A v, x \in Pending' : job'[v].cid = job'[x].cid => v = x
    <3>1. \A v \in Pending : job'[v].cid = job[v].cid /\ job[v].cid # nextId
      BY <1>1, <1>3, <1>4, <1>10 DEF Told, Uncounted, Pending
    <3>2. created => job'[w].cid = nextId
      BY <1>4, <1>5
    <3> QED  BY <1>10, <3>1, <3>2 DEF Told
  <2>7. \A r \in queue' : Unknown(r[1])'
    <3>1. \A r \in queue : r[1] \in IdOrNone
      BY <1>1 DEF TypeOK, IdOrNone
    <3> QED  BY <1>12, <2>1, <3>1 DEF Told
  <2> QED  BY <2>2, <2>3, <2>4, <2>5, <2>6, <2>7 DEF Told
<1>14. PutGoesOn(w)'
  <2>1. job'[w].pc \in {"putHistory", "putTx"} /\ job'[w].obj[1] = p /\ job'[w].cid = home
        /\ job'[w].rest = rest /\ job'[w].fresh = fresh
    BY <1>4, <1>5
  <2>2. ASSUME NEW u, rest # {}, ~isNew, u = fresh
        PROVE  u \notin Originals' /\ u < nextId'
    BY <1>1, <1>3, <1>5, <1>8, <2>2
  <2>3. job'[w].pc = "putTx" /\ isNew => rest = {}
    <3>1. isNew /\ matched => merged
      BY <1>5
    <3>2. ~matched => rest = {}
      BY <1>3
    <3> QED  BY <1>4, <1>5, <3>1, <3>2
  <2>4. job'[w].pc = "putTx" /\ rest # {} =>
            job'[w].fresh \notin Originals' /\ job'[w].fresh < nextId'
    BY <2>1, <2>2, <2>3
  <2>5. job'[w].cid = connect'[job'[w].obj[1]]
    BY <1>6, <2>1
  <2> QED  BY <2>1, <2>4, <2>5 DEF PutGoesOn, PutOnly, Unknown
<1>15. ASSUME NEW x \in Workers \ {w}
       PROVE  PutGoesOn(x)'
  <2>1. Originals' \subseteq Originals \cup {nextId} /\ Current \subseteq Current'
        /\ searched \subseteq searched'
    BY <1>2, <1>8, <1>9 DEF search
  <2> QED  BY <1>4, <1>5, <1>8, <2>1, OthersGoOn
<1> QED  BY <1>13, <1>14, <1>15

(***************************************************************************)
(* The transaction of a put: a profile that was created is counted and has *)
(* its search row, the object is filed where the master row is.            *)
(***************************************************************************)
LEMMA PutTxTold ==
    ASSUME IInv, Told, \A x \in Workers : PutGoesOn(x), NEW w \in Workers, PutTx(w)
    PROVE  Told' /\ \A x \in Workers : PutGoesOn(x)'
<1> DEFINE o == job[w].obj
           c == job[w].cid
           created == job[w].up = "insert"
<1>1. /\ job[w] \in Jobs /\ JobOK(job[w], Originals, Rows) /\ job[w].pc = "putTx" /\ TypeOK
      /\ o \in Facts /\ o[1] \in ProfileIds /\ c \in Ids /\ NoId \notin Ids /\ nextId \in Nat
      /\ c = connect[o[1]]
  BY IdsLemma DEF IInv, TypeOK, JobsOK, PutTx, JobOK, PutPhases, Landed, Facts, Ids, PutGoesOn
<1>2. c \in Current
  BY <1>1 DEF Current, Rows
<1>3. /\ searched' = searched \cup {c}
      /\ fields' = [fields EXCEPT ![c] = @ \cup {o}]
      /\ profileCount' = profileCount + (IF created THEN 1 ELSE 0)
      /\ inter' = [inter EXCEPT ![o] = IF @ = NoId THEN c ELSE @]
      /\ Become(w, [job[w] EXCEPT !.pc = "putPublish"])
      /\ UNCHANGED <<connect, original, history, indexed, queue, nextId, used>>
  BY DEF PutTx, Goto, master
<1>4. /\ \A v \in Workers \ {w} : job'[v] = job[v]
      /\ job'[w].pc = "putPublish" /\ job'[w].cid = c /\ job'[w].obj = o
      /\ job'[w].rest = job[w].rest /\ job'[w].fresh = job[w].fresh
  BY <1>1, <1>3 DEF TypeOK, Become, Jobs
<1>5. /\ Rows' = Rows /\ Originals' = Originals /\ Current' = Current
      /\ connect' = connect /\ nextId' = nextId
  BY <1>3, MasterSame DEF master
<1>6. /\ Pending' = Pending \ {w} /\ (created <=> w \in Pending)
      /\ \A v \in Pending' : job'[v] = job[v]
  BY <1>1, <1>4 DEF Pending
<1>7. Uncounted' = (IF created THEN Uncounted \ {c} ELSE Uncounted)
      /\ (created => c \in Uncounted)
  BY <1>6 DEF Told, Uncounted
<1>8. inter[o] # NoId => inter[o] = c
  BY <1>1 DEF Told, Stored
<1>9. \A f \in Facts : inter'[f] = IF f = o THEN c ELSE inter[f]
  BY <1>1, <1>3, <1>8 DEF TypeOK
<1>10. \A d \in Ids : fields'[d] = IF d = c THEN fields[c] \cup {o} ELSE fields[d]
  BY <1>1, <1>3 DEF TypeOK
<1>11. profileCount' = Cardinality(Counted') /\ Counted' \subseteq Counted \cup {c}
  <2>1. CASE created
    <3>1. Counted' = Counted \cup {c} /\ c \notin Counted
      BY <1>2, <1>5, <1>7, <2>1 DEF Counted
    <3>2. IsFiniteSet(Counted)
      <4>0. 1 \in Int /\ MaxIds \in Int
        BY BoundsAssumption
      <4>1. IsFiniteSet(Ids) /\ Counted \subseteq Ids
        BY <4>0, FS_Interval, IdsLemma DEF Ids, Counted
      <4> QED  BY <4>1, FS_Subset
    <3>3. Cardinality(Counted') = Cardinality(Counted) + 1
      BY <3>1, <3>2, FS_AddElement
    <3> QED  BY <1>3, <2>1, <3>1, <3>3 DEF Told
  <2>2. CASE ~created
    BY <1>1, <1>3, <1>5, <1>7, <2>2 DEF Told, Counted, TypeOK
  <2> QED  BY <2>1, <2>2
<1>12. Told'
  <2>1. \A q \in Rows' : original'[q] < nextId'
    BY <1>3, <1>5 DEF Told
  <2>2. \A f \in Stored' : inter'[f] = connect'[f[1]]
    BY <1>1, <1>5, <1>9 DEF Told, Stored
  <2>3. \A d \in Ids : fields'[d] = {f \in Facts : inter'[f] = d}
    <3>1. \A d \in Ids : fields[d] = {f \in Facts : inter[f] = d}
      BY DEF Told
    <3>2. \A d \in Ids \ {c} : o \notin fields[d]
      BY <1>1, <1>8, <3>1
    <3>3. ASSUME NEW d \in Ids PROVE fields'[d] = {f \in Facts : inter'[f] = d}
      <4>1. CASE d = c
        BY <1>1, <1>9, <1>10, <3>1, <4>1
      <4>2. CASE d # c
        BY <1>1, <1>9, <1>10, <3>1, <3>2, <4>2
      <4> QED  BY <4>1, <4>2
    <3> QED  BY <3>3
  <2>4. /\ indexed' \subseteq searched' /\ searched' \subseteq Current'
        /\ Counted' \subseteq searched' /\ Uncounted' \subseteq Current'
    BY <1>2, <1>3, <1>5, <1>7, <1>11 DEF Told
  <2>5. \A v, x \in Pending' : job'[v].cid = job'[x].cid => v = x
    BY <1>6 DEF Told
  <2>6. \A r \in queue' : Unknown(r[1])'
    BY <1>3, <1>5 DEF Told, Unknown
  <2> QED  BY <1>11, <2>1, <2>2, <2>3, <2>4, <2>5, <2>6 DEF Told
<1>13. PutGoesOn(w)'
  <2>1. \A u : Unknown(u) => Unknown(u)'
    BY <1>5 DEF Unknown
  <2>2. job[w].rest # {} => Unknown(job[w].fresh)
    BY <1>1 DEF PutGoesOn
  <2> QED  BY <1>1, <1>3, <1>4, <1>5, <2>1, <2>2 DEF PutGoesOn, PutOnly
<1>14. ASSUME NEW x \in Workers \ {w}
       PROVE  PutGoesOn(x)'
  BY <1>1, <1>3, <1>4, <1>5, OthersGoOn
<1> QED  BY <1>12, <1>13, <1>14

\* What a put publishes is a profile with a search row; the requests it sends
\* are from an id it drew and gave to nobody.
LEMMA PutPublishTold ==
    ASSUME IInv, Told, \A x \in Workers : PutGoesOn(x), NEW w \in Workers, PutPublish(w)
    PROVE  Told' /\ \A x \in Workers : PutGoesOn(x)'
<1>1. /\ TypeOK /\ nextId \in Nat /\ job[w].cid \in searched /\ job[w].pc = "putPublish"
      /\ job[w].rest # {} => Unknown(job[w].fresh)
  BY DEF IInv, TypeOK, Ids, PutPublish, PutGoesOn
<1>2. /\ Become(w, Idle) /\ Idle.pc = "idle"
      /\ UNCHANGED <<master, search, inter, history, counts, nextId, used>>
      /\ indexed' \subseteq indexed \cup {job[w].cid}
      /\ queue' \subseteq queue \cup {<<job[w].fresh, m>> : m \in job[w].rest}
  BY DEF PutPublish, Finish, Idle
<1>3. Pending' = Pending /\ \A v \in Pending : job'[v].cid = job[v].cid
  BY <1>1, <1>2, PendingSame
<1>4. job'[w] = Idle /\ \A v \in Workers \ {w} : job'[v] = job[v]
  BY <1>1, <1>2 DEF TypeOK, Become
<1>5. /\ Rows' = Rows /\ Originals' = Originals /\ Current' = Current
      /\ Stored' = Stored /\ Uncounted' = Uncounted
  BY <1>2, <1>3, MasterSame DEF Stored, Uncounted
<1>6. Counted' = Counted
  BY <1>5 DEF Counted
<1>7. \A u : Unknown(u)' <=> Unknown(u)
  BY <1>2, <1>5 DEF Unknown
<1>8. \A r \in queue' : Unknown(r[1])
  <2> QED  BY <1>1, <1>2 DEF Told
<1>9. Told'
  <2> QED  BY <1>1, <1>2, <1>3, <1>5, <1>6, <1>7, <1>8 DEF Told, master, search, counts
<1>10. PutGoesOn(w)'
  BY <1>4 DEF PutGoesOn, PutOnly, Idle
<1>11. ASSUME NEW x \in Workers \ {w}
       PROVE  PutGoesOn(x)'
  BY <1>1, <1>2, <1>4, <1>5, OthersGoOn DEF master, search
<1> QED  BY <1>9, <1>10, <1>11

\* Every step of the quiet times keeps the tables told.
LEMMA PutInvStep == IInv /\ PutInv /\ [Next]_vars => PutInv'
<1> SUFFICES ASSUME IInv, PutInv, [Next]_vars, Untouched'
             PROVE  Told' /\ \A x \in Workers : PutGoesOn(x)'
  BY DEF PutInv
<1>1. TypeOK /\ Told /\ \A x \in Workers : PutGoesOn(x)
  BY UntouchedBefore DEF IInv, PutInv
<1>2. ~Spend("merges") /\ ~Spend("putFailures") /\ ~Spend("mergeFailures") /\ ~Spend("crashes")
  BY <1>1, SpendTouches DEF Bounds
<1>3. \A w \in Workers : job[w].pc \in PutOnly
  BY <1>1 DEF PutGoesOn
<1>4. ASSUME NEW w \in Workers, PutStep(w)
      PROVE  Told' /\ \A x \in Workers : PutGoesOn(x)'
  <2>1. ~PutUndo(w)
    BY <1>3 DEF PutUndo, PutOnly
  <2>2. ~PutHistory(w)
    BY DEF PutHistory, Untouched
  <2> QED  BY <1>1, <1>4, <2>1, <2>2, PutMatchTold, PutMasterTold, PutTxTold, PutPublishTold
           DEF PutStep
<1>5. ASSUME NEW w \in Workers, MergeStep(w)
      PROVE  MergeSource(w)
  BY <1>3, <1>5 DEF MergeStep, MergeTarget, MergeCheck, MergeMaster, MergeSearch, MergeTx,
                    MergeUndo, MergeFinish, PutOnly
<1>6. ASSUME NEW w \in Workers, PutFailure(w) \/ MergeFailure(w) \/ Crash(w)
      PROVE  FALSE
  <2>1. ~PutFailure(w)
    BY <1>2, Zenon DEF PutFailure, PutFail, PutPublishFail, PutTxFail
  <2>2. ~MergeFailure(w) /\ ~Crash(w)
    BY <1>2, <1>3 DEF MergeFailure, MergeTxFail, MergeFinishFail, Crash, PutOnly
  <2> QED  BY <1>6, <2>1, <2>2
<1>7. ASSUME NEW s, NEW t, RequestMerge(s, t) \/ \E w \in Workers : DirectMerge(w, s, t)
      PROVE  FALSE
  BY <1>2, <1>7 DEF RequestMerge, DirectMerge
<1>8. ASSUME NEW w \in Workers, Work(w)
      PROVE  Told' /\ \A x \in Workers : PutGoesOn(x)'
  BY <1>1, <1>4, <1>5, <1>8, MergesTold DEF Work
<1>9. ASSUME UNCHANGED vars
      PROVE  Told' /\ \A x \in Workers : PutGoesOn(x)'
  <2>1. Told'
    BY <1>1, <1>9, ToldStays DEF vars, tables, Pending
  <2>2. /\ Rows' = Rows /\ Originals' = Originals /\ Current' = Current
        /\ connect' = connect /\ searched' = searched /\ nextId' = nextId /\ job' = job
        /\ nextId \in Nat
    BY <1>1, <1>9, MasterSame DEF vars, master, TypeOK, Ids
  <2> QED  BY <1>1, <2>1, <2>2, OthersGoOn
<1>10. ASSUME NEW w \in Workers, NEW o \in Facts, StartPut(w, o)
       PROVE  Told' /\ \A x \in Workers : PutGoesOn(x)'
  BY <1>1, <1>10, StartPutTold
<1> QED  BY <1>6, <1>7, <1>8, <1>9, <1>10, ZenonT(40) DEF Next

\* The empty store.
LEMMA InitPutInv == Init => PutInv
<1> SUFFICES ASSUME Init PROVE Told /\ \A w \in Workers : PutGoesOn(w)
  BY DEF PutInv
<1>1. Rows = {} /\ Stored = {} /\ Pending = {}
  BY DEF Init, Rows, Stored, Pending, Idle
<1>2. Current = {} /\ Uncounted = {} /\ Counted = {}
  BY <1>1 DEF Current, Uncounted, Counted
<1>3. \A c \in Ids : fields[c] = {f \in Facts : inter[f] = c}
  BY DEF Init, Ids, NoId
<1>4. Told
  BY <1>1, <1>2, <1>3, FS_EmptySet DEF Init, Told
<1>5. \A w \in Workers : PutGoesOn(w)
  BY DEF Init, PutGoesOn, PutOnly, Idle
<1> QED  BY <1>4, <1>5

(***************************************************************************)
(* However many puts interleave, also for one new profile_id and also when *)
(* they match each other: as long as nothing merges or fails, they settle  *)
(* on tables that agree.                                                   *)
(***************************************************************************)
THEOREM PutsSettle == Spec => []PutsAgree
<1>1. ASSUME IInv, PutInv
      PROVE  PutsAgree
  <2> SUFFICES ASSUME Quiet, Untouched
               PROVE  /\ \A f \in Stored : inter[f] = connect[f[1]]
                      /\ \A c \in searched : fields[c] = {f \in Stored : inter[f] = c}
                      /\ profileCount = Cardinality(searched)
    BY DEF PutsAgree, Untouched
  <2>1. Told
    BY <1>1 DEF PutInv
  <2>2. Pending = {} /\ Uncounted = {}
    BY DEF Quiet, Pending, Uncounted
  <2>3. Counted = searched
    BY <2>1, <2>2 DEF Told, Counted
  <2>4. searched \subseteq Ids /\ NoId \notin Ids
    BY <1>1, IdsLemma DEF IInv, TypeOK
  <2>5. \A c \in searched : fields[c] = {f \in Stored : inter[f] = c}
    BY <2>1, <2>4 DEF Told, Stored
  <2> QED  BY <2>1, <2>3, <2>5 DEF Told
<1> QED  BY <1>1, InitPutInv, PutInvStep, StoreInvariant, PTL DEF Spec
----------------------------------------------------------------------------
(***************************************************************************)
(* The partition stays whole, for any objects and profiles; and invocations *)
(* that run one after the other keep the tables of the store a partition,  *)
(* all of them telling the same.                                           *)
(***************************************************************************)
HIDE DEF Home, UpsertedRow, NewProfiles, NewObjects, OldRow, MovedObjects, MergeLog,
         Restored, Reindexed, Requests

\* One invocation at a time, none of which fails while it puts or dies.  With rule-based
\* identity resolution no merge fails either, lest the index keep a retired id.
Serial ==
    /\ \A v, w \in Workers : v = w
    /\ MaxPutFailures = 0 /\ MaxCrashes = 0
    /\ RuleBased => MaxMergeFailures = 0

\* Between the master update of a merge and the end of its transaction.
Halfway == {"mergeSearch", "mergeTx", "mergeUndo"}
\* Between the master row of a put and its transaction.
Filing  == {"putHistory", "putTx"}

\* The connect_id column of the master table without a merge that is half done.
Book(w) == IF job[w].pc \in Halfway THEN Restored(w) ELSE connect

\* The profiles of a connect_id column.
Live(con) == {con[p] : p \in Rows}

\* Original ids are handed out once.
Distinct ==
    /\ \A p \in ProfileIds : original[p] = NoId <=> connect[p] = NoId
    /\ \A p \in Rows : original[p] < nextId
    /\ \A p, q \in Rows : original[p] = original[q] => p = q
    /\ \A h \in history : h[1] < nextId /\ h[2] < nextId

\* The tables tell what the column con tells of the profiles.
Agree(con) ==
    /\ \A p \in Rows : original[p] \in Live(con) => con[p] = original[p]
    /\ \A f \in Stored : inter[f] = con[f[1]]
    /\ \A c \in Ids : fields[c] = {f \in Facts : inter[f] = c}
    /\ \A h \in history : h[2] \notin Live(con)

\* Every merge is in the history, and only merges are.
Recorded(con) ==
    /\ \A h \in history : \E p, q \in Rows :
          original[p] = h[1] /\ original[q] = h[2] /\ con[p] = con[q]
    /\ \A p \in Rows : con[p] # original[p] => \E h \in history : h[2] = original[p]

\* A search row for every profile, but for the one that is being put.
RowsOfSearch(w) ==
    IF job[w].pc \in Filing
    THEN /\ searched \cup {job[w].cid} = Live(connect)
         /\ job[w].cid = connect[job[w].obj[1]]
         /\ IF job[w].up = "update" THEN job[w].cid \in searched
                                    ELSE ~RuleBased => job[w].cid \notin searched
    ELSE searched = Live(Book(w))

\* The rule index offers profiles.
IndexOK(w) ==
    /\ indexed \subseteq Live(Book(w)) \cup (IF job[w].pc = "mergeFinish" THEN {job[w].src} ELSE {})
    /\ ~RuleBased => indexed = {}

PutOK(w) ==
    /\ job[w].pc # "putUndo"
    /\ job[w].pc = "putMatch" => job[w].match = NoId
    /\ job[w].pc = "putMaster" =>
         job[w].match \in Live(connect) \cup {NoId} /\ (~RuleBased => job[w].match = NoId)
    /\ job[w].pc = "putPublish" => job[w].cid \in Live(connect)
    /\ job[w].pc = "putHistory" =>
         /\ RuleBased /\ job[w].fresh < nextId
         /\ job[w].fresh \notin Live(connect) /\ \A h \in history : h[2] # job[w].fresh

MergeOK(w) ==
    /\ job[w].pc \in Sourced \ {"mergeFinish"} => job[w].src \in Live(Book(w))
    /\ job[w].pc \in Targeted => job[w].tgt \in Live(Book(w))
    /\ job[w].pc \in {"mergeMaster"} \cup Halfway => job[w].src # job[w].tgt
    /\ job[w].pc \in Halfway =>
         \A p \in Rows : connect[p] # job[w].src /\ (p \in job[w].pids => connect[p] = job[w].tgt)
    /\ job[w].pc = "mergeTx" => job[w].carry = fields[job[w].src]

SerialOK(w) ==
    /\ Distinct /\ Agree(Book(w))
    /\ RowsOfSearch(w) /\ IndexOK(w) /\ PutOK(w) /\ MergeOK(w)
    /\ ~RuleBased => Recorded(Book(w)) /\ profileCount = Cardinality(searched)

----------------------------------------------------------------------------
(* The column without a merge that is half done *)

LEMMA PhaseSets ==
    /\ Halfway \cap Filing = {} /\ Halfway \subseteq Targeted /\ Targeted \subseteq Sourced
    /\ Filing \subseteq Landed /\ Landed \subseteq PutPhases
  BY DEF Halfway, Filing, Targeted, Sourced, Landed, PutPhases

\* What an invocation knows, by its phase.
LEMMA JobFacts ==
    ASSUME IInv, NEW w \in Workers
    PROVE  /\ job[w] \in Jobs /\ job \in [Workers -> Jobs]
           /\ job[w].pids \subseteq Rows /\ Rows \subseteq ProfileIds
           /\ Originals \subseteq Ids /\ NoId \notin Ids
           /\ job[w].pc \in PutPhases => job[w].obj \in Facts /\ job[w].obj[1] \in ProfileIds
           /\ job[w].pc \in Landed => job[w].cid \in Originals
           /\ job[w].pc \in Sourced => job[w].src \in Originals
           /\ job[w].pc \in Targeted => job[w].tgt \in Originals
  BY IdsLemma DEF IInv, TypeOK, JobsOK, JobOK, Facts, Rows

LEMMA BookFacts ==
    ASSUME IInv, NEW w \in Workers
    PROVE  /\ Book(w) \in [ProfileIds -> IdOrNone]
           /\ job[w].pc \notin Halfway => Book(w) = connect
           /\ job[w].pc \in Halfway => \A p \in ProfileIds :
                 Book(w)[p] = IF p \in job[w].pids THEN job[w].src ELSE connect[p]
           /\ \A p \in Rows : Book(w)[p] \in Ids
           /\ \A p \in ProfileIds : p \notin Rows => Book(w)[p] = NoId
<1>1. connect \in [ProfileIds -> IdOrNone] /\ \A p \in ProfileIds : p \in Rows <=> connect[p] # NoId
  BY DEF IInv, TypeOK, Rows
<1>2. CASE job[w].pc \in Halfway
  <2>1. job[w].src \in Ids
    BY <1>2, JobFacts, PhaseSets
  <2>2. Book(w) = Restored(w)
    BY <1>2 DEF Book
  <2> QED  BY <1>1, <1>2, <2>1, <2>2, JobFacts DEF Restored, IdOrNone
<1>3. CASE job[w].pc \notin Halfway
  <2>1. Book(w) = connect
    BY <1>3 DEF Book
  <2> QED  BY <1>1, <1>3, <2>1, JobFacts DEF IdOrNone
<1> QED  BY <1>2, <1>3

\* Objects are filed under profiles.
LEMMA ObjectsLive ==
    ASSUME IInv, NEW w \in Workers, Agree(Book(w)), NEW f \in Stored
    PROVE  f \in Facts /\ f[1] \in Rows /\ inter[f] = Book(w)[f[1]] /\ inter[f] \in Live(Book(w))
<1>1. f \in Facts /\ f[1] \in ProfileIds /\ inter[f] # NoId
  BY DEF Stored, Facts
<1>2. inter[f] = Book(w)[f[1]]
  BY DEF Agree
<1> QED  BY <1>1, <1>2, BookFacts DEF Live

LEMMA IdsFinite == IsFiniteSet(Ids)
<1>1. 1 \in Int /\ MaxIds \in Int
  BY BoundsAssumption
<1> QED  BY <1>1, FS_Interval DEF Ids

\* What is known is smaller than the next id.
LEMMA Smaller ==
    ASSUME IInv, Distinct
    PROVE  nextId \in Nat /\ (\A c \in Originals : c \in Nat /\ c < nextId) /\ nextId \notin Originals
  BY BoundsAssumption DEF IInv, TypeOK, Distinct, Originals, RowsOK, Ids

\* A profile is found under its own id.
LEMMA LiveIsFound ==
    ASSUME IInv, NEW w \in Workers, Distinct, Agree(connect), job[w].pc \notin Halfway,
           searched = Live(connect), NEW c \in Originals
    PROVE  /\ SearchHit(c) # {} /\ SearchHit(c) \subseteq Live(connect)
           /\ c \in Live(connect) => SearchHit(c) = {c}
<1>1. PICK p \in Rows : original[p] = c
  BY DEF Originals
<1>2. \A q \in Rows : original[q] = c => q = p
  BY <1>1 DEF Distinct
<1>3. Resolve(c) = {connect[p]}
  BY <1>1, <1>2 DEF Resolve
<1>4. SearchHit(c) = {connect[p]} /\ connect[p] \in Live(connect)
  BY <1>1, <1>3 DEF SearchHit, Live
<1> QED  BY <1>1, <1>4 DEF Agree

----------------------------------------------------------------------------
(* Steps that write no table *)

LEMMA TablesStay ==
    ASSUME IInv, NEW w \in Workers, SerialOK(w), UNCHANGED <<tables, nextId>>, Book(w)' = Book(w)
    PROVE  /\ Distinct' /\ Agree(Book(w))' /\ Live(Book(w))' = Live(Book(w))
           /\ ~RuleBased => Recorded(Book(w))' /\ profileCount' = Cardinality(searched')
           /\ searched' = searched /\ indexed' = indexed /\ connect' = connect /\ fields' = fields
<1>1. Rows' = Rows /\ Stored' = Stored
  BY DEF tables, Rows, Stored
<1>2. Live(Book(w))' = Live(Book(w))
  BY <1>1 DEF Live
<1>3. Distinct'
  BY <1>1 DEF tables, Distinct, SerialOK
<1>4. Agree(Book(w))'
  BY <1>1, <1>2 DEF tables, Agree, SerialOK
<1>5. ~RuleBased => Recorded(Book(w))'
  BY <1>1 DEF tables, Recorded, SerialOK
<1> QED  BY <1>2, <1>3, <1>4, <1>5 DEF tables, SerialOK

\* From a state in which all tables agree to another one.
LEMMA Onward ==
    ASSUME IInv, NEW w \in Workers, SerialOK(w), UNCHANGED <<tables, nextId>>,
           job[w].pc \notin Halfway \cup Filing,
           job[w].pc = "mergeFinish" => ~RuleBased,
           NEW j \in Jobs, Become(w, j),
           j.pc \notin Halfway \cup Filing \cup {"putUndo", "putPublish", "mergeFinish"},
           j.pc = "putMatch" => j.match = NoId,
           j.pc = "putMaster" => j.match \in Live(connect) \cup {NoId} /\ (~RuleBased => j.match = NoId),
           j.pc \in {"mergeTarget", "mergeCheck", "mergeMaster"} => j.src \in Live(connect),
           j.pc \in {"mergeCheck", "mergeMaster"} => j.tgt \in Live(connect),
           j.pc = "mergeMaster" => j.src # j.tgt
    PROVE  SerialOK(w)'
<1>1. job'[w] = j
  BY JobFacts DEF Become
<1>2. Book(w) = connect /\ Book(w)' = connect'
  BY <1>1 DEF Book
<1>3. Book(w)' = Book(w)
  BY <1>2 DEF tables
<1>4. /\ Distinct' /\ Agree(Book(w))' /\ Live(Book(w))' = Live(Book(w))
      /\ ~RuleBased => Recorded(Book(w))' /\ profileCount' = Cardinality(searched')
      /\ searched' = searched /\ indexed' = indexed /\ connect' = connect
  BY <1>3, TablesStay
<1>5. RowsOfSearch(w)'
  BY <1>1, <1>2, <1>4 DEF RowsOfSearch, SerialOK
<1>6. IndexOK(w)'
  <2>1. indexed \subseteq Live(Book(w)) /\ (~RuleBased => indexed = {})
    BY DEF IndexOK, SerialOK
  <2> QED  BY <1>1, <1>4, <2>1 DEF IndexOK
<1>7. PutOK(w)'
  BY <1>1, <1>2, <1>4 DEF PutOK, Filing
<1>8. MergeOK(w)'
  BY <1>1, <1>2, <1>4 DEF MergeOK, Sourced, Targeted, Halfway
<1> QED  BY <1>4, <1>5, <1>6, <1>7, <1>8 DEF SerialOK

\* An invocation ends.
LEMMA Ends ==
    ASSUME IInv, NEW w \in Workers, SerialOK(w), UNCHANGED <<tables, nextId>>,
           job[w].pc \notin Halfway \cup Filing, job[w].pc = "mergeFinish" => ~RuleBased,
           Finish(w)
    PROVE  SerialOK(w)'
<1>1. Idle \in Jobs /\ Idle.pc = "idle"
  BY IdleLemma DEF Idle
<1> QED  BY <1>1, Onward DEF Finish, Halfway, Filing

\* A put begins, or a merge.
LEMMA Begins ==
    ASSUME IInv, NEW w \in Workers, SerialOK(w),
           \/ \E o \in Facts : StartPut(w, o)
           \/ \E s, t \in Current : DirectMerge(w, s, t)
           \/ \E r \in queue : TakeRequest(w, r)
    PROVE  SerialOK(w)'
<1>0. job[w].pc = "idle" /\ "idle" \notin Halfway \cup Filing
  BY DEF StartPut, DirectMerge, TakeRequest, Halfway, Filing
<1>1. ASSUME NEW o \in Facts, StartPut(w, o)
      PROVE  SerialOK(w)'
  <2> DEFINE pc == IF RuleBased THEN "putMatch" ELSE "putMaster"
             j  == [Idle EXCEPT !.pc = pc, !.obj = o]
  <2>1. pc \in {"putMatch", "putMaster"}
    BY ZenonT(40)
  <2>2. j \in Jobs
    BY <2>1, FreshPut, ZenonT(40)
  <2>3. j.pc \in {"putMatch", "putMaster"} /\ j.match = NoId
    BY <2>1 DEF Idle
  <2>4. Become(w, j) /\ UNCHANGED <<tables, nextId>>
    BY <1>1, ZenonT(40) DEF StartPut
  <2> HIDE DEF j
  <2> QED  BY <1>0, <2>2, <2>3, <2>4, Onward DEF Halfway, Filing
<1>2. ASSUME NEW s \in Current, NEW t \in Current, DirectMerge(w, s, t)
      PROVE  SerialOK(w)'
  <2> DEFINE j == [Idle EXCEPT !.pc = "mergeCheck", !.src = s, !.tgt = t]
  <2>1. j \in Jobs /\ j.pc = "mergeCheck" /\ j.src = s /\ j.tgt = t
    BY IdsLemma DEF Idle, Jobs, Phases, IdOrNone, NoPair
  <2>2. s \in Live(connect) /\ t \in Live(connect)
    BY DEF Current, Live
  <2>3. Become(w, j) /\ UNCHANGED <<tables, nextId>>
    BY <1>2 DEF DirectMerge
  <2> HIDE DEF j
  <2> QED  BY <1>0, <2>1, <2>2, <2>3, Onward DEF Halfway, Filing
<1>3. ASSUME NEW r \in queue, TakeRequest(w, r)
      PROVE  SerialOK(w)'
  <2> DEFINE j == [Idle EXCEPT !.pc = "mergeSource", !.rq = r]
  <2>1. r \in IdOrNone \X IdOrNone
    BY DEF IInv, TypeOK, IdOrNone
  <2>2. j \in Jobs /\ j.pc = "mergeSource"
    BY <2>1 DEF Idle, Jobs, Phases, IdOrNone, NoPair
  <2>3. Become(w, j) /\ UNCHANGED <<tables, nextId>>
    BY <1>3 DEF TakeRequest
  <2> HIDE DEF j
  <2> QED  BY <1>0, <2>2, <2>3, Onward DEF Halfway, Filing
<1> QED  BY <1>1, <1>2, <1>3

\* A put looks for matches: the index offers profiles.
LEMMA Matches ==
    ASSUME IInv, NEW w \in Workers, SerialOK(w), PutMatch(w)
    PROVE  SerialOK(w)'
<1>0. job[w].pc = "putMatch" /\ "putMatch" \notin Halfway \cup Filing /\ UNCHANGED <<tables, nextId>>
  BY DEF PutMatch, Halfway, Filing
<1>1. indexed \subseteq Live(connect) /\ (~RuleBased => indexed = {})
  BY <1>0, BookFacts DEF SerialOK, IndexOK
<1>2. job[w] \in Jobs /\ indexed \subseteq Ids
  BY JobFacts DEF IInv, TypeOK
<1>3. CASE Goto(w, "putMaster")
  <2> DEFINE j == [job[w] EXCEPT !.pc = "putMaster"]
  <2>1. j \in Jobs /\ j.pc = "putMaster" /\ j.match = job[w].match
    BY <1>2 DEF Jobs, Phases
  <2>2. job[w].match = NoId
    BY <1>0 DEF SerialOK, PutOK
  <2>3. Become(w, j)
    BY <1>3 DEF Goto
  <2> HIDE DEF j
  <2> QED  BY <1>0, <2>1, <2>2, <2>3, Onward DEF Halfway, Filing
<1>4. ASSUME NEW m \in indexed, NEW r \in SUBSET indexed,
             Become(w, [job[w] EXCEPT !.pc = "putMaster", !.match = m, !.rest = r])
      PROVE  SerialOK(w)'
  <2> DEFINE j == [job[w] EXCEPT !.pc = "putMaster", !.match = m, !.rest = r]
  <2>1. j \in Jobs /\ j.pc = "putMaster" /\ j.match = m
    BY <1>2 DEF Jobs, Phases, IdOrNone
  <2>2. Become(w, j)
    BY <1>4
  <2> HIDE DEF j
  <2> QED  BY <1>0, <1>1, <2>1, <2>2, Onward DEF Halfway, Filing
<1> QED  BY <1>3, <1>4 DEF PutMatch

\* A merge looks up its two sides.
LEMMA Reads ==
    ASSUME IInv, NEW w \in Workers, SerialOK(w), MergeSource(w) \/ MergeTarget(w) \/ MergeCheck(w)
    PROVE  SerialOK(w)'
<1>0. /\ job[w].pc \in {"mergeSource", "mergeTarget", "mergeCheck"} /\ job[w].pc \notin Halfway \cup Filing
      /\ UNCHANGED <<tables, nextId>>
  BY DEF MergeSource, MergeTarget, MergeCheck, Halfway, Filing
<1>1. job[w] \in Jobs /\ Book(w) = connect /\ Live(connect) = Current /\ Current \subseteq Ids
  BY <1>0, JobFacts, BookFacts, IdsLemma DEF Live, Current
<1>2. \A u \in IdOrNone : Resolve(u) \subseteq Current /\ SearchHit(u) \subseteq Current
  BY IdsLemma
<1>3. CASE Finish(w)
  BY <1>0, <1>3, Ends
<1>4. ASSUME NEW s \in Current, job[w].pc = "mergeSource",
             Become(w, [job[w] EXCEPT !.pc = "mergeTarget", !.src = s])
      PROVE  SerialOK(w)'
  <2> DEFINE j == [job[w] EXCEPT !.pc = "mergeTarget", !.src = s]
  <2>1. j \in Jobs /\ j.pc = "mergeTarget" /\ j.src = s
    BY <1>1 DEF Jobs, Phases, IdOrNone
  <2>2. Become(w, j)
    BY <1>4
  <2> HIDE DEF j
  <2> QED  BY <1>0, <1>1, <2>1, <2>2, Onward DEF Halfway, Filing
<1>5. ASSUME NEW t \in Current, job[w].pc = "mergeTarget",
             Become(w, [job[w] EXCEPT !.pc = "mergeCheck", !.tgt = t])
      PROVE  SerialOK(w)'
  <2> DEFINE j == [job[w] EXCEPT !.pc = "mergeCheck", !.tgt = t]
  <2>1. j \in Jobs /\ j.pc = "mergeCheck" /\ j.tgt = t /\ j.src = job[w].src
    BY <1>1 DEF Jobs, Phases, IdOrNone
  <2>2. job[w].src \in Live(connect)
    BY <1>1, <1>5 DEF SerialOK, MergeOK, Sourced
  <2>3. Become(w, j)
    BY <1>5
  <2> HIDE DEF j
  <2> QED  BY <1>0, <1>1, <2>1, <2>2, <2>3, Onward DEF Halfway, Filing
<1>6. ASSUME NEW s \in Current \ {job[w].tgt}, job[w].pc = "mergeCheck",
             Become(w, [job[w] EXCEPT !.pc = "mergeMaster", !.src = s])
      PROVE  SerialOK(w)'
  <2> DEFINE j == [job[w] EXCEPT !.pc = "mergeMaster", !.src = s]
  <2>1. j \in Jobs /\ j.pc = "mergeMaster" /\ j.src = s /\ j.tgt = job[w].tgt
    BY <1>1 DEF Jobs, Phases, IdOrNone
  <2>2. job[w].tgt \in Live(connect)
    BY <1>1, <1>6 DEF SerialOK, MergeOK, Sourced, Targeted
  <2>3. Become(w, j)
    BY <1>6
  <2> HIDE DEF j
  <2> QED  BY <1>0, <1>1, <2>1, <2>2, <2>3, Onward DEF Halfway, Filing
<1>7. job[w].src \in IdOrNone /\ job[w].rq[1] \in IdOrNone /\ job[w].rq[2] \in IdOrNone
  BY <1>1 DEF Jobs
<1>8. CASE MergeSource(w)
  BY <1>2, <1>3, <1>4, <1>7, <1>8 DEF MergeSource
<1>9. CASE MergeTarget(w)
  BY <1>2, <1>3, <1>5, <1>7, <1>9 DEF MergeTarget, Succeed, GiveUp
<1>10. CASE MergeCheck(w)
  BY <1>2, <1>3, <1>6, <1>7, <1>10 DEF MergeCheck, Succeed, GiveUp
<1> QED  BY <1>8, <1>9, <1>10

----------------------------------------------------------------------------
(* Puts *)

\* What the master statement of a put decides.
LEMMA PutMasterFacts ==
    ASSUME IInv, NEW w \in Workers, PutMaster(w)
    PROVE  /\ job[w].pc = "putMaster" /\ job'[w].pc \in {"putHistory", "putTx"}
           /\ connect' = [connect EXCEPT ![job[w].obj[1]] = Home(w)]
           /\ original' = [original EXCEPT ![job[w].obj[1]] =
                             IF connect[job[w].obj[1]] = NoId THEN nextId ELSE @]
           /\ job'[w].obj = job[w].obj /\ job'[w].cid = Home(w)
           /\ job'[w].up = IF connect[job[w].obj[1]] = NoId THEN "insert" ELSE "update"
           /\ job'[w].pc = "putHistory" => job[w].match # NoId /\ job'[w].fresh = nextId
           /\ nextId' = nextId + IF connect[job[w].obj[1]] = NoId \/ job[w].match # NoId THEN 1 ELSE 0
           /\ UNCHANGED <<search, inter, history, counts, indexed, queue, used>>
<1>1. job[w] \in Jobs /\ job \in [Workers -> Jobs]
  BY JobFacts
<1> DEFINE matched == job[w].match # NoId
           merged  == matched /\ Home(w) = job[w].match
           pc      == IF merged THEN "putHistory" ELSE "putTx"
           up      == IF connect[job[w].obj[1]] = NoId THEN "insert" ELSE "update"
           fresh   == IF matched THEN nextId ELSE NoId
           rest    == IF matched /\ ~merged THEN job[w].rest \cup {job[w].match} ELSE job[w].rest
<1>2. /\ Become(w, [job[w] EXCEPT !.pc = pc, !.cid = Home(w), !.up = up, !.fresh = fresh, !.rest = rest])
      /\ job[w].pc = "putMaster"
      /\ connect' = [connect EXCEPT ![job[w].obj[1]] = Home(w)]
      /\ original' = [original EXCEPT ![job[w].obj[1]] =
                        IF connect[job[w].obj[1]] = NoId THEN nextId ELSE @]
      /\ nextId' = nextId + IF connect[job[w].obj[1]] = NoId \/ matched THEN 1 ELSE 0
      /\ UNCHANGED <<search, inter, history, counts, indexed, queue, used>>
  BY SMTT(60) DEF PutMaster
<1>3. pc \in {"putHistory", "putTx"} /\ (pc = "putHistory" => matched /\ fresh = nextId)
  OBVIOUS
<1> HIDE DEF pc, up, fresh, rest
<1>4. /\ job'[w].pc = pc /\ job'[w].obj = job[w].obj /\ job'[w].cid = Home(w)
      /\ job'[w].up = up /\ job'[w].fresh = fresh
  BY <1>1, <1>2 DEF Become, Jobs
<1> QED  BY <1>2, <1>3, <1>4 DEF up

\* The master row of a put: a row that is there stays, a new one is that of a new
\* profile or of the profile that matches.
LEMMA PutMasterSerial ==
    ASSUME IInv, NEW w \in Workers, SerialOK(w), PutMaster(w)
    PROVE  SerialOK(w)'
<1> DEFINE p == job[w].obj[1]
<1>0. /\ job[w].pc = "putMaster" /\ p \in ProfileIds /\ job[w].pc \notin Halfway \cup Filing
      /\ job'[w].pc \in {"putHistory", "putTx"} /\ job'[w].pc \in Filing /\ job'[w].pc \notin Halfway
      /\ job'[w].pc \notin Sourced /\ Filing = {"putHistory", "putTx"}
  BY PutMasterFacts, JobFacts DEF PutPhases, Halfway, Filing, Sourced
<1>1. /\ Book(w) = connect /\ Book(w)' = connect' /\ connect \in [ProfileIds -> IdOrNone]
      /\ original \in [ProfileIds -> IdOrNone]
      /\ \A q \in ProfileIds : q \in Rows <=> connect[q] # NoId
  BY <1>0, BookFacts DEF Book, IInv, TypeOK, Rows
<1>2. /\ Distinct /\ Agree(connect) /\ searched = Live(connect) /\ indexed \subseteq Live(connect)
      /\ job[w].match \in Live(connect) \cup {NoId} /\ (~RuleBased => job[w].match = NoId /\ indexed = {})
      /\ ~RuleBased => Recorded(connect) /\ profileCount = Cardinality(searched)
  BY <1>0, <1>1 DEF SerialOK, RowsOfSearch, IndexOK, PutOK
<1>3. /\ nextId \in Nat /\ nextId # NoId /\ \A c \in Live(connect) : c \in Nat /\ c < nextId /\ c # NoId
      /\ \A q \in Rows : original[q] \in Nat /\ original[q] < nextId
      /\ \A h \in history : h[1] < nextId /\ h[2] < nextId
      /\ history \subseteq Nat \X Nat
  <2>1. Live(connect) = Current /\ Current \subseteq Originals /\ \A q \in Rows : original[q] \in Originals
    BY DEF Live, Current, IInv, NoDanglingId, Originals
  <2>2. nextId # NoId /\ history \subseteq Nat \X Nat
    BY BoundsAssumption DEF IInv, TypeOK, NoId, Ids
  <2> QED  BY <1>2, <2>1, <2>2, Smaller, JobFacts DEF Distinct
<1>4. /\ connect' = [connect EXCEPT ![p] = Home(w)]
      /\ original' = [original EXCEPT ![p] = IF connect[p] = NoId THEN nextId ELSE @]
      /\ job'[w].obj[1] = p /\ job'[w].cid = Home(w)
      /\ job'[w].up = IF connect[p] = NoId THEN "insert" ELSE "update"
      /\ job'[w].pc = "putHistory" => job[w].match # NoId /\ job'[w].fresh = nextId
      /\ nextId' = nextId + IF connect[p] = NoId \/ job[w].match # NoId THEN 1 ELSE 0
      /\ UNCHANGED <<searched, fields, inter, history, profileCount, indexed>>
  BY PutMasterFacts DEF search, counts
<1> HIDE DEF p
<1>b. /\ Agree(connect)' => Agree(Book(w))'
      /\ Recorded(connect)' => Recorded(Book(w))'
  BY <1>1 DEF Agree, Recorded, Live
<1>5. CASE connect[p] # NoId
  <2>1. Home(w) = connect[p] /\ connect' = connect /\ original' = original /\ p \in Rows
    BY <1>0, <1>1, <1>4, <1>5 DEF Home, p
  <2>2. Rows' = Rows /\ Stored' = Stored /\ Live(connect)' = Live(connect) /\ Home(w) \in Live(connect)
    BY <1>4, <2>1 DEF Rows, Stored, Live
  <2>3. nextId <= nextId' /\ (job[w].match # NoId => nextId' = nextId + 1) /\ nextId' \in Nat
    BY <1>3, <1>4, <1>5
  <2>4. Distinct'
    BY <1>2, <1>3, <1>4, <2>1, <2>2, <2>3 DEF Distinct
  <2>5. Agree(connect)'
    BY <1>2, <1>4, <2>1, <2>2 DEF Agree
  <2>6. RowsOfSearch(w)'
    BY <1>0, <1>2, <1>4, <1>5, <2>1, <2>2 DEF RowsOfSearch, p
  <2>7. IndexOK(w)'
    BY <1>0, <1>1, <1>2, <1>4, <2>2 DEF IndexOK
  <2>8. PutOK(w)'
    BY <1>0, <1>2, <1>3, <1>4, <2>2, <2>3 DEF PutOK
  <2>9. MergeOK(w)'
    BY <1>0, PhaseSets DEF MergeOK
  <2>10. ~RuleBased => Recorded(connect)' /\ profileCount' = Cardinality(searched')
    BY <1>2, <1>4, <2>1, <2>2 DEF Recorded
  <2> QED  BY <1>b, <2>4, <2>5, <2>6, <2>7, <2>8, <2>9, <2>10 DEF SerialOK
<1>6. CASE connect[p] = NoId
  <2>1. /\ Home(w) = IF job[w].match # NoId THEN job[w].match ELSE nextId
        /\ Home(w) \in Live(connect) \cup {nextId} /\ Home(w) # NoId
        /\ nextId' = nextId + 1 /\ p \notin Rows
    BY <1>0, <1>1, <1>2, <1>3, <1>4, <1>6 DEF Home, p
  <2>2. /\ connect'[p] = Home(w) /\ original'[p] = nextId
        /\ \A q \in ProfileIds : q # p => connect'[q] = connect[q] /\ original'[q] = original[q]
    BY <1>0, <1>1, <1>4, <1>6 DEF p
  <2>3. Rows' = Rows \cup {p} /\ Stored' = Stored /\ Rows \subseteq ProfileIds
    BY <1>0, <1>1, <1>4, <2>1, <2>2 DEF Rows, Stored, p
  <2>4. Live(connect)' = Live(connect) \cup {Home(w)}
    BY <2>1, <2>2, <2>3 DEF Live
  <2>5. Distinct'
    <3>1. \A q \in ProfileIds : original'[q] = NoId <=> connect'[q] = NoId
      BY <1>2, <1>3, <2>1, <2>2 DEF Distinct
    <3>2. \A q \in Rows' : original'[q] < nextId'
      BY <1>3, <2>1, <2>2, <2>3
    <3>3. \A q, r \in Rows' : original'[q] = original'[r] => q = r
      BY <1>2, <1>3, <2>1, <2>2, <2>3 DEF Distinct
    <3>4. \A h \in history' : h[1] < nextId' /\ h[2] < nextId'
      BY <1>3, <1>4, <2>1
    <3> QED  BY <3>1, <3>2, <3>3, <3>4 DEF Distinct
  <2>6. Agree(connect)'
    <3>1. \A q \in Rows' : original'[q] \in Live(connect)' => connect'[q] = original'[q]
      BY <1>2, <1>3, <2>1, <2>2, <2>3, <2>4 DEF Agree
    <3>2. \A f \in Stored' : inter'[f] = connect'[f[1]]
      <4>1. \A f \in Stored : f[1] \in Rows /\ inter[f] = connect[f[1]]
        BY <1>1, <1>2, ObjectsLive
      <4> QED  BY <1>4, <2>1, <2>2, <2>3, <4>1
    <3>3. \A c \in Ids : fields'[c] = {f \in Facts : inter'[f] = c}
      BY <1>2, <1>4 DEF Agree
    <3>4. \A h \in history' : h[2] \notin Live(connect)'
      <4>1. \A h \in history : h[2] \in Nat /\ h[2] < nextId /\ h[2] \notin Live(connect)
        BY <1>2, <1>3 DEF Agree
      <4>2. nextId \in Nat /\ history' = history
        BY <1>3, <1>4
      <4>3. \A h \in history : h[2] # Home(w) /\ h[2] \notin Live(connect)
        BY <2>1, <4>1, <4>2
      <4> QED  BY <2>4, <4>2, <4>3
    <3> QED  BY <3>1, <3>2, <3>3, <3>4 DEF Agree
  <2>7. RowsOfSearch(w)'
    <3>1. /\ job'[w].cid = Home(w) /\ Home(w) = connect'[p] /\ job'[w].obj[1] = p
          /\ job'[w].up = "insert" /\ searched' = searched
      BY <1>4, <1>6, <2>2
    <3>2. searched' \cup {job'[w].cid} = Live(connect)'
      BY <1>2, <2>4, <3>1
    <3>3. nextId \notin Live(connect)
      BY <1>3
    <3>4. ~RuleBased => Home(w) \notin searched
      BY <1>2, <2>1, <3>3
    <3> QED  BY <1>0, <3>1, <3>2, <3>4 DEF RowsOfSearch
  <2>8. IndexOK(w)'
    BY <1>0, <1>1, <1>2, <1>4, <2>4 DEF IndexOK
  <2>9. PutOK(w)'
    <3>1. /\ job'[w].pc \notin {"putUndo", "putMatch", "putMaster", "putPublish"}
          /\ nextId \in Nat /\ nextId < nextId'
      BY <1>0, <1>3, <2>1
    <3>2. job'[w].pc = "putHistory" => RuleBased /\ job[w].match \in Live(connect) /\ Home(w) \in Live(connect)
      BY <1>2, <1>4, <2>1
    <3>3. nextId \notin Live(connect) /\ \A h \in history : h[2] # nextId
      BY <1>3
    <3> QED  BY <1>4, <2>4, <3>1, <3>2, <3>3 DEF PutOK
  <2>10. MergeOK(w)'
    BY <1>0, PhaseSets DEF MergeOK
  <2>11. ~RuleBased => Recorded(connect)' /\ profileCount' = Cardinality(searched')
    BY <1>2, <1>4, <2>1, <2>2, <2>3 DEF Recorded
  <2> QED  BY <1>b, <2>5, <2>6, <2>7, <2>8, <2>9, <2>10, <2>11 DEF SerialOK
<1> QED  BY <1>5, <1>6

\* Tables that an action leaves alone tell the same.
LEMMA SameBook ==
    ASSUME IInv, NEW w \in Workers, SerialOK(w), Book(w)' = Book(w), Rows' = Rows,
           UNCHANGED <<original, search, inter, history, counts, nextId>>
    PROVE  /\ Distinct' /\ Agree(Book(w))' /\ Live(Book(w))' = Live(Book(w))
           /\ searched' = searched /\ fields' = fields
           /\ ~RuleBased => Recorded(Book(w))' /\ profileCount' = Cardinality(searched')
<1>0. UNCHANGED <<original, searched, fields, inter, history, profileCount, nextId>>
  BY DEF search, counts
<1>1. Stored' = Stored /\ Live(Book(w))' = Live(Book(w))
  BY <1>0 DEF Stored, Live
<1>2. \A p \in ProfileIds : connect'[p] = NoId <=> connect[p] = NoId
  BY DEF Rows
<1>3. Distinct'
  BY <1>0, <1>2 DEF Distinct, SerialOK
<1>4. Agree(Book(w))'
  BY <1>0, <1>1 DEF Agree, SerialOK
<1>5. ~RuleBased => Recorded(Book(w))'
  BY <1>0, <1>1 DEF Recorded, SerialOK
<1> QED  BY <1>0, <1>1, <1>3, <1>4, <1>5 DEF SerialOK

\* The history entry of a put names the uuid it did not use.
LEMMA PutHistorySerial ==
    ASSUME IInv, NEW w \in Workers, SerialOK(w), PutHistory(w)
    PROVE  SerialOK(w)'
<1>1. /\ job[w].pc = "putHistory" /\ job[w] \in Jobs /\ job \in [Workers -> Jobs]
      /\ history' = history \cup {<<job[w].cid, job[w].fresh>>}
      /\ UNCHANGED <<connect, original, searched, fields, inter, profileCount, indexed, nextId>>
  BY JobFacts DEF PutHistory, master, search, counts
<1>2. /\ job'[w].pc = "putTx" /\ job'[w].cid = job[w].cid /\ job'[w].obj = job[w].obj
      /\ job'[w].up = job[w].up
  BY <1>1 DEF PutHistory, Goto, Become, Jobs
<1>3. /\ Book(w) = connect /\ Book(w)' = connect /\ Rows' = Rows /\ Stored' = Stored
      /\ Live(connect)' = Live(connect) /\ Live(Book(w))' = Live(connect)
  <2>1. Book(w) = connect /\ Book(w)' = connect /\ Rows' = Rows /\ Stored' = Stored
    BY <1>1, <1>2 DEF Book, Halfway, Rows, Stored
  <2> QED  BY <1>1, <2>1 DEF Live
<1>4. /\ RuleBased /\ job[w].fresh < nextId /\ job[w].fresh \notin Live(connect)
      /\ Distinct /\ Agree(connect) /\ job[w].cid \in Originals
  BY <1>1, <1>3, JobFacts DEF SerialOK, PutOK, Landed
<1>5. job[w].cid < nextId
  BY <1>4, Smaller
<1>6. Distinct'
  BY <1>1, <1>3, <1>4, <1>5 DEF Distinct
<1>7. Agree(Book(w))'
  <2>1. \A h \in history' : h[2] \notin Live(connect)
    BY <1>1, <1>4 DEF Agree
  <2> QED  BY <1>1, <1>3, <1>4, <2>1 DEF Agree
<1>8. RowsOfSearch(w)'
  <2>1. RowsOfSearch(w)
    BY DEF SerialOK
  <2> QED  BY <1>1, <1>2, <1>3, <2>1 DEF RowsOfSearch, Filing
<1>9. IndexOK(w)'
  BY <1>1, <1>2, <1>3 DEF IndexOK, SerialOK
<1>10. PutOK(w)' /\ MergeOK(w)'
  BY <1>2 DEF PutOK, MergeOK, Sourced, Targeted, Halfway
<1> QED  BY <1>4, <1>6, <1>7, <1>8, <1>9, <1>10 DEF SerialOK

\* The transaction of a put: the object is filed where the others of its profile are.
LEMMA PutTxSerial ==
    ASSUME IInv, NEW w \in Workers, SerialOK(w), PutTx(w)
    PROVE  SerialOK(w)' /\ inter' = [inter EXCEPT ![job[w].obj] = job[w].cid]
           /\ job[w].cid = connect[job[w].obj[1]]
<1> DEFINE o == job[w].obj
           c == job[w].cid
<1>1. /\ job[w].pc = "putTx" /\ job[w] \in Jobs /\ job \in [Workers -> Jobs]
      /\ searched' = searched \cup {c} /\ fields' = [fields EXCEPT ![c] = @ \cup {o}]
      /\ profileCount' = profileCount + (IF job[w].up = "insert" THEN 1 ELSE 0)
      /\ inter' = [inter EXCEPT ![o] = IF @ = NoId THEN c ELSE @]
      /\ UNCHANGED <<connect, original, history, indexed, nextId>>
  BY JobFacts DEF PutTx, master, UpsertedRow, NewProfiles
<1>2. job'[w].pc = "putPublish" /\ job'[w].cid = c
  BY <1>1 DEF PutTx, Goto, Become, Jobs
<1>3. /\ Book(w) = connect /\ Book(w)' = connect /\ Rows' = Rows
      /\ Live(connect)' = Live(connect) /\ Live(Book(w))' = Live(connect)
  <2>1. Book(w) = connect /\ Book(w)' = connect /\ Rows' = Rows
    BY <1>1, <1>2 DEF Book, Halfway, Rows
  <2> QED  BY <1>1, <2>1 DEF Live
<1>4. /\ o \in Facts /\ o[1] \in ProfileIds /\ c \in Originals /\ c \in Ids /\ NoId \notin Ids
      /\ inter \in [Facts -> IdOrNone] /\ fields \in [Ids -> SUBSET Facts]
  BY <1>1, JobFacts DEF PutPhases, Landed, IInv, TypeOK
<1>5. /\ Distinct /\ Agree(connect) /\ searched \cup {c} = Live(connect) /\ c = connect[o[1]]
      /\ IF job[w].up = "update" THEN c \in searched ELSE ~RuleBased => c \notin searched
      /\ indexed \subseteq Live(connect) /\ (~RuleBased => indexed = {})
      /\ ~RuleBased => Recorded(connect) /\ profileCount = Cardinality(searched)
  BY <1>1, <1>3 DEF SerialOK, RowsOfSearch, Filing, IndexOK
<1> HIDE DEF o, c
<1>6. inter[o] \in {NoId, c}
  <2>1. o \in Stored => inter[o] = connect[o[1]]
    BY <1>5 DEF Agree
  <2> QED  BY <1>4, <1>5, <2>1 DEF Stored
<1>7. inter' = [inter EXCEPT ![o] = c]
  BY <1>1, <1>6
<1>8. Distinct'
  BY <1>1, <1>3, <1>5 DEF Distinct
<1>9. Agree(Book(w))'
  <2>1. \A f \in Stored' : inter'[f] = connect[f[1]]
    BY <1>4, <1>5, <1>7 DEF Agree, Stored
  <2>2. ASSUME NEW d \in Ids
        PROVE  fields'[d] = {f \in Facts : inter'[f] = d}
    <3>1. fields[d] = {f \in Facts : inter[f] = d}
      BY <1>5 DEF Agree
    <3>2. CASE d = c
      <4>1. \A f \in Facts : inter'[f] = c <=> f = o \/ inter[f] = c
        BY <1>4, <1>7
      <4>2. fields'[d] = fields[d] \cup {o}
        BY <1>1, <1>4, <3>2
      <4> QED  BY <1>4, <3>1, <3>2, <4>1, <4>2
    <3>3. CASE d # c
      <4>1. \A f \in Facts : inter'[f] = d <=> inter[f] = d
        BY <1>4, <1>6, <1>7, <3>3
      <4>2. fields'[d] = fields[d]
        BY <1>1, <1>4, <3>3
      <4> QED  BY <3>1, <4>1, <4>2
    <3> QED  BY <3>2, <3>3
  <2> QED  BY <1>1, <1>3, <1>5, <2>1, <2>2 DEF Agree
<1>10. RowsOfSearch(w)'
  BY <1>1, <1>2, <1>3, <1>5 DEF RowsOfSearch, Filing
<1>11. IndexOK(w)'
  BY <1>1, <1>2, <1>3, <1>5 DEF IndexOK
<1>12. PutOK(w)' /\ MergeOK(w)'
  BY <1>1, <1>2, <1>3, <1>5 DEF PutOK, MergeOK, Sourced, Targeted, Halfway
<1>13. ~RuleBased => Recorded(Book(w))' /\ profileCount' = Cardinality(searched')
  <2>1. Recorded(connect) => Recorded(Book(w))'
    BY <1>1, <1>3 DEF Recorded
  <2>2. IsFiniteSet(searched)
    BY IdsFinite, FS_Subset DEF IInv, TypeOK
  <2>3. c \notin searched => Cardinality(searched \cup {c}) = Cardinality(searched) + 1
    BY <2>2, FS_AddElement
  <2>4. c \in searched => searched \cup {c} = searched
    OBVIOUS
  <2>5. job[w].up \in {"insert", "update"} /\ Cardinality(searched) \in Nat
    BY <1>1, <2>2, FS_CardinalityType DEF Jobs
  <2> SUFFICES ASSUME ~RuleBased
               PROVE  profileCount' = Cardinality(searched')
    BY <1>5, <2>1
  <2>6. profileCount = Cardinality(searched) /\ searched' = searched \cup {c}
    BY <1>1, <1>5
  <2>7. CASE job[w].up = "insert"
    BY <1>1, <1>5, <2>3, <2>5, <2>6, <2>7
  <2>8. CASE job[w].up = "update"
    <3>1. searched' = searched
      BY <1>5, <2>4, <2>6, <2>8
    <3>2. profileCount' = profileCount
      BY <1>1, <2>8 DEF IInv, TypeOK
    <3> QED  BY <2>6, <3>1, <3>2, Zenon
  <2> QED  BY <2>5, <2>7, <2>8
<1>14. SerialOK(w)'
  BY <1>8, <1>9, <1>10, <1>11, <1>12, <1>13 DEF SerialOK
<1> QED  BY <1>5, <1>7, <1>14 DEF o, c

\* After its transaction a put offers its profile to the others.
LEMMA PutPublishSerial ==
    ASSUME IInv, NEW w \in Workers, SerialOK(w), PutPublish(w)
    PROVE  SerialOK(w)'
<1>1. /\ job[w].pc = "putPublish" /\ job'[w] = Idle
      /\ indexed' \in {indexed, indexed \cup {job[w].cid}} /\ (~RuleBased => indexed' = indexed)
      /\ UNCHANGED <<connect, original, search, inter, history, counts, nextId>>
  BY JobFacts DEF PutPublish, Finish, Become, master
<1>2. job'[w].pc = "idle" /\ job[w].pc \notin Halfway \cup Filing /\ job'[w].pc \notin Halfway \cup Filing
  BY <1>1 DEF Idle, Halfway, Filing
<1>3. Book(w) = connect /\ Book(w)' = Book(w) /\ Rows' = Rows
  BY <1>1, <1>2 DEF Book, Rows
<1>4. /\ Distinct' /\ Agree(Book(w))' /\ Live(Book(w))' = Live(Book(w)) /\ searched' = searched
      /\ ~RuleBased => Recorded(Book(w))' /\ profileCount' = Cardinality(searched')
  BY <1>1, <1>3, SameBook
<1>5. RowsOfSearch(w)'
  BY <1>2, <1>4 DEF RowsOfSearch, SerialOK
<1>6. IndexOK(w)'
  <2>1. indexed \subseteq Live(Book(w)) /\ job[w].cid \in Live(Book(w)) /\ (~RuleBased => indexed = {})
    BY <1>1, <1>3 DEF SerialOK, IndexOK, PutOK
  <2> QED  BY <1>1, <1>2, <1>4, <2>1 DEF IndexOK
<1>7. PutOK(w)' /\ MergeOK(w)'
  BY <1>2 DEF PutOK, MergeOK, Sourced, Targeted, Halfway
<1> QED  BY <1>4, <1>5, <1>6, <1>7 DEF SerialOK

----------------------------------------------------------------------------
(* Merges *)

\* The master update of a merge that does not count yet.
LEMMA MergeMasterSerial ==
    ASSUME IInv, NEW w \in Workers, SerialOK(w), MergeMaster(w)
    PROVE  SerialOK(w)'
<1> DEFINE s == job[w].src
           t == job[w].tgt
           pids == OwnedBy(s)
<1>1. /\ job[w].pc = "mergeMaster" /\ job[w] \in Jobs /\ job \in [Workers -> Jobs]
      /\ connect' = [p \in ProfileIds |-> IF p \in pids THEN t ELSE connect[p]]
      /\ UNCHANGED <<original, search, inter, history, counts, indexed, nextId>>
      /\ IF pids = {} THEN Finish(w)
         ELSE Become(w, [job[w] EXCEPT !.pc = "mergeSearch", !.pids = pids])
  BY JobFacts DEF MergeMaster
<1>2. Book(w) = connect /\ connect \in [ProfileIds -> IdOrNone] /\ Rows = {p \in ProfileIds : connect[p] # NoId}
  BY <1>1 DEF Book, Halfway, IInv, TypeOK, Rows
<1>3. s \in Live(connect) /\ t \in Live(connect) /\ s # t /\ s \in Ids /\ t \in Ids /\ NoId \notin Ids
  BY <1>1, <1>2, JobFacts DEF SerialOK, MergeOK, Sourced, Targeted
<1>4. pids # {} /\ \A p \in ProfileIds : p \in pids <=> connect[p] = s
  BY <1>2, <1>3 DEF OwnedBy, Live
<1>5. /\ job'[w].pc = "mergeSearch" /\ job'[w].pids = pids /\ job'[w].src = s /\ job'[w].tgt = t
  <2>1. job' = [job EXCEPT ![w] = [job[w] EXCEPT !.pc = "mergeSearch", !.pids = pids]]
    BY <1>1, <1>4 DEF Become
  <2> HIDE DEF pids
  <2> QED  BY <1>1, <2>1 DEF Jobs
<1> HIDE DEF s, t, pids
<1>6. Rows' = Rows
  BY <1>1, <1>2, <1>3, <1>4 DEF Rows
<1>7. Book(w)' = Book(w)
  <2>1. Book(w)' = [p \in ProfileIds |-> IF p \in pids THEN s ELSE connect'[p]]
    BY <1>5 DEF Book, Halfway, Restored
  <2> QED  BY <1>1, <1>2, <1>4, <2>1
<1>8. /\ Distinct' /\ Agree(Book(w))' /\ Live(Book(w))' = Live(Book(w)) /\ searched' = searched
      /\ ~RuleBased => Recorded(Book(w))' /\ profileCount' = Cardinality(searched')
  BY <1>1, <1>6, <1>7, SameBook
<1>9. RowsOfSearch(w)'
  <2>1. searched = Live(Book(w))
    BY <1>1 DEF SerialOK, RowsOfSearch, Filing
  <2> QED  BY <1>5, <1>8, <2>1 DEF RowsOfSearch, Filing
<1>10. IndexOK(w)'
  BY <1>1, <1>5, <1>8 DEF IndexOK, SerialOK
<1>11. PutOK(w)'
  BY <1>5 DEF PutOK
<1>12. MergeOK(w)'
  <2>1. \A p \in Rows' : connect'[p] # s /\ (p \in pids => connect'[p] = t)
    BY <1>1, <1>2, <1>3, <1>4, <1>6
  <2> QED  BY <1>2, <1>3, <1>5, <1>8, <2>1 DEF MergeOK
<1> QED  BY <1>8, <1>9, <1>10, <1>11, <1>12 DEF SerialOK

\* A merge that is half done goes on, in the same tables.
LEMMA GoesOn ==
    ASSUME IInv, NEW w \in Workers, SerialOK(w), UNCHANGED <<tables, nextId>>,
           job[w].pc \in Halfway, NEW j \in Jobs, Become(w, j), j.pc \in Halfway,
           j.src = job[w].src, j.tgt = job[w].tgt, j.pids = job[w].pids,
           j.pc = "mergeTx" => j.carry = fields[j.src]
    PROVE  SerialOK(w)'
<1>1. job'[w] = j
  BY JobFacts DEF Become
<1>2. Book(w)' = Book(w) /\ Rows' = Rows
  BY <1>1 DEF Book, Restored, tables, Rows
<1>3. /\ Distinct' /\ Agree(Book(w))' /\ Live(Book(w))' = Live(Book(w))
      /\ ~RuleBased => Recorded(Book(w))' /\ profileCount' = Cardinality(searched')
      /\ searched' = searched /\ indexed' = indexed /\ connect' = connect /\ fields' = fields
  BY <1>2, TablesStay
<1>4. j.pc \in {"mergeSearch", "mergeTx", "mergeUndo"} /\ job[w].pc \in {"mergeSearch", "mergeTx", "mergeUndo"}
  BY DEF Halfway
<1>5. RowsOfSearch(w)'
  <2>1. searched = Live(Book(w))
    BY <1>4 DEF SerialOK, RowsOfSearch, Filing
  <2> QED  BY <1>1, <1>3, <1>4, <2>1 DEF RowsOfSearch, Filing
<1>6. IndexOK(w)'
  BY <1>1, <1>3, <1>4 DEF IndexOK, SerialOK
<1>7. PutOK(w)'
  BY <1>1, <1>4 DEF PutOK
<1>8. MergeOK(w)'
  BY <1>1, <1>2, <1>3, <1>4 DEF MergeOK, SerialOK, Halfway, Sourced, Targeted
<1> QED  BY <1>3, <1>5, <1>6, <1>7, <1>8 DEF SerialOK

\* The transaction of a merge begins, or fails.
LEMMA MergeTxOpens ==
    ASSUME IInv, NEW w \in Workers, SerialOK(w), MergeSearch(w) \/ MergeTxFail(w)
    PROVE  SerialOK(w)'
<1>1. /\ job[w] \in Jobs /\ fields \in [Ids -> SUBSET Facts] /\ UNCHANGED <<tables, nextId>>
      /\ job[w].pc \in {"mergeSearch", "mergeTx"} /\ job[w].pc \in Halfway
  BY JobFacts DEF IInv, TypeOK, MergeSearch, MergeTxFail, Halfway
<1>2. /\ searched = Live(Book(w)) /\ job[w].src \in searched /\ job[w].tgt \in searched /\ job[w].src \in Ids
  BY <1>1, JobFacts DEF SerialOK, RowsOfSearch, MergeOK, Filing, Sourced, Targeted
<1>3. CASE MergeSearch(w)
  <2> DEFINE j == [job[w] EXCEPT !.pc = "mergeTx", !.holds = TRUE, !.carry = fields[job[w].src]]
  <2>1. Become(w, j)
    BY <1>2, <1>3 DEF MergeSearch
  <2>2. j \in Jobs /\ j.pc = "mergeTx" /\ j.carry = fields[j.src]
    BY <1>1, <1>2 DEF Jobs, Phases
  <2>3. j.src = job[w].src /\ j.tgt = job[w].tgt /\ j.pids = job[w].pids
    BY <1>1 DEF Jobs
  <2> HIDE DEF j
  <2> QED  BY <1>1, <2>1, <2>2, <2>3, GoesOn DEF Halfway
<1>4. CASE MergeTxFail(w)
  <2> DEFINE j == [job[w] EXCEPT !.pc = "mergeUndo", !.holds = FALSE]
  <2>1. Become(w, j)
    BY <1>4 DEF MergeTxFail
  <2>2. j \in Jobs /\ j.pc = "mergeUndo"
    BY <1>1 DEF Jobs, Phases
  <2>3. j.src = job[w].src /\ j.tgt = job[w].tgt /\ j.pids = job[w].pids
    BY <1>1 DEF Jobs
  <2> HIDE DEF j
  <2> QED  BY <1>1, <2>1, <2>2, <2>3, GoesOn DEF Halfway
<1> QED  BY <1>3, <1>4

\* What fails is undone: the master table is what it was.
LEMMA MergeUndoSerial ==
    ASSUME IInv, NEW w \in Workers, SerialOK(w), MergeUndo(w)
    PROVE  SerialOK(w)'
<1>1. /\ job[w].pc = "mergeUndo" /\ job'[w] = Idle /\ connect' = Restored(w)
      /\ UNCHANGED <<original, search, inter, history, counts, indexed, nextId>>
  BY JobFacts DEF MergeUndo, Finish, Become
<1>2. job'[w].pc = "idle" /\ job[w].pc \in Halfway /\ job'[w].pc \notin Halfway \cup Filing
      /\ job[w].pc \notin Filing
  BY <1>1 DEF Idle, Halfway, Filing
<1>3. Book(w)' = connect' /\ Book(w) = Restored(w)
  BY <1>2 DEF Book
<1>4. Rows' = Rows
  BY <1>1, <1>3, BookFacts, JobFacts DEF Rows
<1>5. /\ Distinct' /\ Agree(Book(w))' /\ Live(Book(w))' = Live(Book(w)) /\ searched' = searched
      /\ ~RuleBased => Recorded(Book(w))' /\ profileCount' = Cardinality(searched')
  BY <1>1, <1>3, <1>4, SameBook
<1>6. RowsOfSearch(w)'
  BY <1>2, <1>5 DEF RowsOfSearch, SerialOK
<1>7. IndexOK(w)'
  BY <1>1, <1>2, <1>5 DEF IndexOK, SerialOK
<1>8. PutOK(w)' /\ MergeOK(w)'
  BY <1>2 DEF PutOK, MergeOK, Sourced, Targeted, Halfway
<1> QED  BY <1>5, <1>6, <1>7, <1>8 DEF SerialOK

\* The transaction of a merge: the old profile is gone from every table.
LEMMA MergeTxSerial ==
    ASSUME IInv, NEW w \in Workers, SerialOK(w), MergeTx(w)
    PROVE  /\ SerialOK(w)'
           /\ job[w].src \in Live(Book(w)) /\ job[w].tgt \in Live(Book(w)) /\ job[w].src # job[w].tgt
<1> DEFINE s == job[w].src
           t == job[w].tgt
           pids == job[w].pids
           B == Book(w)
<1>1. /\ job[w].pc = "mergeTx" /\ job[w] \in Jobs /\ job \in [Workers -> Jobs]
      /\ searched' = searched \ {s}
      /\ fields' = [fields EXCEPT ![t] = @ \cup job[w].carry, ![s] = {}]
      /\ inter' = [f \in Facts |-> IF inter[f] = s THEN t ELSE inter[f]]
      /\ history' = history \cup {<<t, s>>}
      /\ profileCount' = profileCount - 1
      /\ UNCHANGED <<connect, original, indexed, nextId>>
  <2>1. MovedObjects(w) = {f \in Facts : inter[f] = s}
    BY DEF MovedObjects
  <2> QED  BY <2>1, JobFacts DEF MergeTx, master, OldRow, MergeLog
<1>2. /\ job'[w].pc = "mergeFinish" /\ job'[w].src = s /\ job'[w].tgt = t
  BY <1>1 DEF MergeTx, Goto, Become, Jobs
<1>3. /\ Distinct /\ Agree(B) /\ searched = Live(B) /\ indexed \subseteq Live(B)
      /\ s \in Live(B) /\ t \in Live(B) /\ s # t /\ (~RuleBased => indexed = {})
      /\ \A p \in Rows : connect[p] # s /\ (p \in pids => connect[p] = t)
      /\ job[w].carry = fields[s]
      /\ ~RuleBased => Recorded(B) /\ profileCount = Cardinality(searched)
  BY <1>1 DEF SerialOK, RowsOfSearch, IndexOK, MergeOK, Filing, Halfway, Sourced, Targeted
<1>4. /\ s \in Originals /\ t \in Originals /\ s \in Ids /\ t \in Ids /\ NoId \notin Ids
      /\ pids \subseteq Rows /\ Rows \subseteq ProfileIds
      /\ fields \in [Ids -> SUBSET Facts] /\ inter \in [Facts -> IdOrNone]
      /\ \A p \in Rows : original[p] \in Originals /\ B[p] = IF p \in pids THEN s ELSE connect[p]
  BY <1>1, JobFacts, BookFacts DEF Sourced, Targeted, Halfway, IInv, TypeOK, Originals
<1>5. /\ Book(w)' = connect /\ Rows' = Rows
  BY <1>1, <1>2 DEF Book, Halfway, Rows
<1> HIDE DEF s, t, pids, B
<1>6. \A p \in Rows : connect[p] = IF B[p] = s THEN t ELSE B[p]
  BY <1>3, <1>4
<1>7. Live(connect) = Live(B) \ {s} /\ Live(connect)' = Live(connect) /\ Live(Book(w))' = Live(connect)
  <2>1. \A c : c \in Live(connect) <=> c \in Live(B) /\ c # s
    BY <1>3, <1>6 DEF Live
  <2>2. Live(connect)' = Live(connect) /\ Live(Book(w))' = Live(connect)
    BY <1>1, <1>5 DEF Live
  <2> QED  BY <2>1, <2>2
<1>8. Stored' = Stored
  BY <1>1, <1>4 DEF Stored
<1>9. Distinct'
  <2>1. s < nextId /\ t < nextId
    BY <1>3, <1>4, Smaller
  <2> QED  BY <1>1, <1>3, <1>5, <2>1 DEF Distinct
<1>10. Agree(Book(w))'
  <2>1. \A p \in Rows : original[p] \in Live(connect) => connect[p] = original[p]
    BY <1>3, <1>6, <1>7 DEF Agree
  <2>2. \A f \in Stored : inter'[f] = connect[f[1]]
    <3>1. ASSUME NEW f \in Stored
          PROVE  f \in Facts /\ f[1] \in Rows /\ inter[f] = B[f[1]]
      BY <1>3, ObjectsLive DEF B
    <3> QED  BY <1>1, <1>6, <3>1
  <2>3. ASSUME NEW d \in Ids
        PROVE  fields'[d] = {f \in Facts : inter'[f] = d}
    <3>1. /\ fields[d] = {f \in Facts : inter[f] = d} /\ fields[s] = {f \in Facts : inter[f] = s}
          /\ job[w].carry = fields[s]
      BY <1>3, <1>4 DEF Agree
    <3>2. CASE d = s
      <4>1. fields'[d] = {} /\ \A f \in Facts : inter'[f] # s
        BY <1>1, <1>3, <1>4, <3>2
      <4> QED  BY <3>2, <4>1
    <3>3. CASE d = t
      <4>1. fields'[d] = fields[t] \cup fields[s]
        BY <1>1, <1>3, <1>4, <3>1, <3>3
      <4>2. \A f \in Facts : inter'[f] = t <=> inter[f] = t \/ inter[f] = s
        BY <1>1, <1>3
      <4> QED  BY <3>1, <3>3, <4>1, <4>2
    <3>4. CASE d # s /\ d # t
      <4>1. fields'[d] = fields[d] /\ \A f \in Facts : inter'[f] = d <=> inter[f] = d
        BY <1>1, <1>4, <3>4
      <4> QED  BY <3>1, <4>1
    <3> QED  BY <3>2, <3>3, <3>4
  <2>4. \A h \in history' : h[2] \notin Live(connect)
    BY <1>1, <1>3, <1>7 DEF Agree
  <2> QED  BY <1>1, <1>5, <1>7, <1>8, <2>1, <2>2, <2>3, <2>4 DEF Agree
<1>11. RowsOfSearch(w)'
  BY <1>1, <1>2, <1>3, <1>7 DEF RowsOfSearch, Filing
<1>12. IndexOK(w)'
  BY <1>1, <1>2, <1>3, <1>7 DEF IndexOK
<1>13. PutOK(w)'
  BY <1>2 DEF PutOK
<1>14. MergeOK(w)'
  BY <1>2, <1>3, <1>7 DEF MergeOK, Sourced, Targeted, Halfway
<1>15. ~RuleBased => Recorded(Book(w))'
  <2> SUFFICES ASSUME ~RuleBased
               PROVE  Recorded(Book(w))'
    OBVIOUS
  <2>1. \A h \in history : \E p, q \in Rows :
           original[p] = h[1] /\ original[q] = h[2] /\ connect[p] = connect[q]
    BY <1>3, <1>6 DEF Recorded
  <2>2. \E p, q \in Rows : original[p] = t /\ original[q] = s /\ connect[p] = connect[q]
    <3>1. PICK p \in Rows, q \in Rows : original[p] = t /\ original[q] = s
      BY <1>4 DEF Originals
    <3>2. B[p] = t /\ B[q] = s
      BY <1>3, <3>1 DEF Agree
    <3> QED  BY <1>3, <1>6, <3>1, <3>2
  <2>3. \A p \in Rows : connect[p] # original[p] => \E h \in history' : h[2] = original[p]
    <3>1. ASSUME NEW p \in Rows, connect[p] # original[p], B[p] = original[p]
          PROVE  original[p] = s /\ <<t, s>> \in history'
      BY <1>1, <1>6, <3>1
    <3>2. \A p \in Rows : B[p] # original[p] => \E h \in history : h[2] = original[p]
      BY <1>3 DEF Recorded
    <3>3. history \subseteq history' /\ <<t, s>>[2] = s
      BY <1>1
    <3> QED  BY <3>1, <3>2, <3>3
  <2>4. \A h \in history' : \E p, q \in Rows :
           original[p] = h[1] /\ original[q] = h[2] /\ connect[p] = connect[q]
    <3>1. \A h \in history' : h \in history \/ (h[1] = t /\ h[2] = s)
      BY <1>1
    <3> QED  BY <2>1, <2>2, <3>1
  <2> QED  BY <1>1, <1>5, <2>3, <2>4 DEF Recorded
<1>16. ~RuleBased => profileCount' = Cardinality(searched')
  <2>1. IsFiniteSet(searched) /\ s \in searched
    BY <1>3, IdsFinite, FS_Subset DEF IInv, TypeOK
  <2>2. Cardinality(searched \ {s}) = Cardinality(searched) - 1
    BY <2>1, FS_RemoveElement
  <2> QED  BY <1>1, <1>3, <2>2
<1>17. SerialOK(w)'
  BY <1>9, <1>10, <1>11, <1>12, <1>13, <1>14, <1>15, <1>16 DEF SerialOK
<1> QED  BY <1>3, <1>17 DEF s, t, B

\* After its transaction a merge takes its source out of the index.
LEMMA MergeFinishSerial ==
    ASSUME IInv, NEW w \in Workers, SerialOK(w), MergeFinish(w)
    PROVE  SerialOK(w)'
<1>1. /\ job[w].pc = "mergeFinish" /\ job'[w] = Idle /\ UNCHANGED <<connect, original, search, inter, history, counts, nextId>>
  BY JobFacts DEF MergeFinish, Finish, GiveUp, Succeed, Become, master
<1>2. job'[w].pc = "idle" /\ job[w].pc \notin Halfway \cup Filing /\ job'[w].pc \notin Halfway \cup Filing
  BY <1>1 DEF Idle, Halfway, Filing
<1>3. Book(w) = connect /\ Book(w)' = Book(w) /\ Rows' = Rows
  BY <1>1, <1>2 DEF Book, Rows
<1>4. /\ Distinct' /\ Agree(Book(w))' /\ Live(Book(w))' = Live(Book(w)) /\ searched' = searched
      /\ ~RuleBased => Recorded(Book(w))' /\ profileCount' = Cardinality(searched')
  BY <1>1, <1>3, SameBook
<1>5. RowsOfSearch(w)'
  BY <1>2, <1>4 DEF RowsOfSearch, SerialOK
<1>6. IndexOK(w)'
  <2>1. /\ Distinct /\ Agree(connect) /\ searched = Live(connect)
        /\ indexed \subseteq Live(connect) \cup {job[w].src} /\ (~RuleBased => indexed = {})
        /\ job[w].tgt \in Live(connect) /\ job[w].tgt \in Originals
    BY <1>1, <1>2, <1>3, JobFacts DEF SerialOK, RowsOfSearch, IndexOK, MergeOK, Targeted, Sourced
  <2>2. SearchHit(job[w].tgt) # {}
    BY <1>2, <2>1, LiveIsFound
  <2>3. IF RuleBased THEN indexed' = (indexed \ {job[w].src}) \cup {job[w].tgt}
                     ELSE indexed' = indexed
    BY <2>2 DEF MergeFinish, Reindexed
  <2>4. indexed' \subseteq Live(connect) /\ (~RuleBased => indexed' = {})
    <3>1. CASE RuleBased
      BY <2>1, <2>3, <3>1
    <3>2. CASE ~RuleBased
      BY <2>1, <2>3, <3>2
    <3> QED  BY <3>1, <3>2
  <2> QED  BY <1>2, <1>3, <1>4, <2>4 DEF IndexOK
<1>7. PutOK(w)' /\ MergeOK(w)'
  BY <1>2 DEF PutOK, MergeOK, Sourced, Targeted, Halfway
<1> QED  BY <1>4, <1>5, <1>6, <1>7 DEF SerialOK

----------------------------------------------------------------------------
(* All steps *)

\* What may not fail does not.
LEMMA NoLimit ==
    ASSUME Serial
    PROVE  /\ Limit["putFailures"] = 0 /\ Limit["crashes"] = 0
           /\ RuleBased => Limit["mergeFailures"] = 0
  BY DEF Serial, Limit, Bounds

LEMMA NothingFails ==
    ASSUME TypeOK, Serial
    PROVE  /\ ~Spend("putFailures") /\ ~Spend("crashes")
           /\ RuleBased => ~Spend("mergeFailures")
<1>1. used["putFailures"] \in Nat /\ used["crashes"] \in Nat /\ used["mergeFailures"] \in Nat
  BY DEF TypeOK, Bounds
<1> QED  BY <1>1, NoLimit DEF Spend

\* The empty store tells the same in all its tables.
LEMMA InitSerial ==
    ASSUME Init, NEW w \in Workers
    PROVE  SerialOK(w)
<1>1. /\ job[w] = Idle /\ Rows = {} /\ Stored = {} /\ Originals = {}
  BY DEF Init, Rows, Stored, Originals, NoId
<1>2. job[w].pc = "idle"
  BY <1>1 DEF Idle
<1>3. Book(w) = connect /\ Live(connect) = {}
  BY <1>1, <1>2 DEF Book, Halfway, Live
<1>4. NoId \notin Ids
  BY DEF NoId, Ids
<1>5. Distinct
  BY <1>1 DEF Distinct, Init
<1>6. Agree(connect)
  <2>1. \A c \in Ids : fields[c] = {f \in Facts : inter[f] = c}
    BY <1>4 DEF Init
  <2> QED  BY <1>1, <2>1 DEF Agree, Init
<1>7. RowsOfSearch(w) /\ IndexOK(w) /\ PutOK(w) /\ MergeOK(w)
  BY <1>2, <1>3 DEF Init, RowsOfSearch, IndexOK, PutOK, MergeOK, Filing, Sourced, Targeted, Halfway
<1>8. Recorded(connect) /\ profileCount = Cardinality(searched)
  BY <1>1, FS_EmptySet DEF Recorded, Init
<1> QED  BY <1>3, <1>5, <1>6, <1>7, <1>8 DEF SerialOK

\* Nobody moves on, no table changes.
LEMMA StillSerial ==
    ASSUME IInv, NEW w \in Workers, SerialOK(w), UNCHANGED <<tables, nextId, job>>
    PROVE  SerialOK(w)'
<1>1. Book(w)' = Book(w)
  BY DEF Book, Restored, tables
<1>2. Rows' = Rows
  BY DEF Rows, tables
<1>3. /\ Distinct' /\ Agree(Book(w))' /\ Live(Book(w))' = Live(Book(w))
      /\ ~RuleBased => Recorded(Book(w))' /\ profileCount' = Cardinality(searched')
      /\ searched' = searched /\ indexed' = indexed /\ connect' = connect /\ fields' = fields
  BY <1>1, TablesStay
<1>4. Live(connect)' = Live(connect)
  BY <1>2, <1>3 DEF Live
<1>5. RowsOfSearch(w)' /\ IndexOK(w)' /\ PutOK(w)' /\ MergeOK(w)'
  <2>1. RowsOfSearch(w)'
    BY <1>3, <1>4 DEF SerialOK, RowsOfSearch
  <2>2. IndexOK(w)'
    BY <1>3 DEF SerialOK, IndexOK
  <2>3. PutOK(w)'
    BY <1>3, <1>4 DEF SerialOK, PutOK, tables
  <2>4. MergeOK(w)'
    BY <1>2, <1>3 DEF SerialOK, MergeOK
  <2> QED  BY <2>1, <2>2, <2>3, <2>4
<1> QED  BY <1>3, <1>5 DEF SerialOK

\* The tables tell the same after every step of the only invocation.
LEMMA StepSerial ==
    ASSUME Serial, IInv, NEW w \in Workers, SerialOK(w), [Next]_vars
    PROVE  SerialOK(w)'
<1>1. \A v \in Workers : v = w
  BY DEF Serial
<1>2. ~Spend("putFailures") /\ ~Spend("crashes") /\ (RuleBased => ~Spend("mergeFailures"))
  BY NothingFails DEF IInv
<1>3. CASE \E s, t \in Current : RequestMerge(s, t)
  BY <1>3, StillSerial DEF RequestMerge
<1>4. CASE \/ \E o \in Facts : StartPut(w, o)
           \/ \E s, t \in Current : DirectMerge(w, s, t)
           \/ \E r \in queue : TakeRequest(w, r)
  BY <1>4, Begins
<1>5. CASE PutStep(w)
  <2>1. ~PutUndo(w)
    BY DEF PutUndo, SerialOK, PutOK
  <2> QED  BY <1>5, <2>1, Matches, PutMasterSerial, PutHistorySerial, PutTxSerial, PutPublishSerial DEF PutStep
<1>6. CASE MergeStep(w)
  BY <1>6, Reads, MergeMasterSerial, MergeTxOpens, MergeTxSerial, MergeUndoSerial, MergeFinishSerial DEF MergeStep
<1>7. ~PutFailure(w)
  <2>1. \A stage : ~PutTxFail(w, stage)
    BY <1>2, Zenon DEF PutTxFail
  <2> QED  BY <1>2, <2>1 DEF PutFailure, PutFail, PutPublishFail
<1>8. CASE MergeFailure(w)
  <2>1. ASSUME MergeFinishFail(w)
        PROVE  SerialOK(w)'
    <3>1. job[w].pc = "mergeFinish" /\ Finish(w) /\ ~RuleBased /\ UNCHANGED <<tables, nextId>>
      BY <1>2, <2>1 DEF MergeFinishFail, GiveUp, Bounds
    <3> QED  BY <3>1, Ends DEF Halfway, Filing
  <2> QED  BY <1>8, <2>1, MergeTxOpens DEF MergeFailure
<1>9. ~Crash(w)
  BY <1>2 DEF Crash, Bounds
<1>10. CASE UNCHANGED vars
  BY <1>10, StillSerial DEF vars, tables
<1>11. CASE Next
  <2>1. \/ \E s, t \in Current : RequestMerge(s, t)
        \/ \E o \in Facts : StartPut(w, o)
        \/ \E s, t \in Current : DirectMerge(w, s, t)
        \/ Work(w)
        \/ PutFailure(w)
        \/ MergeFailure(w)
        \/ Crash(w)
    BY <1>1, <1>11 DEF Next
  <2> QED  BY <1>3, <1>4, <1>5, <1>6, <1>7, <1>8, <1>9, <2>1 DEF Work
<1> QED  BY <1>10, <1>11

----------------------------------------------------------------------------
(* The tables, whenever one invocation runs at a time *)

\* The tables tell the same, whatever the only invocation is doing.
SerialInv == \A w \in Workers : SerialOK(w)

LEMMA SerialInvariant ==
    ASSUME Serial
    PROVE  Spec => [](IInv /\ SerialInv)
<1>1. Init => SerialInv
  BY InitSerial DEF SerialInv
<1>2. IInv /\ SerialInv /\ [Next]_vars => SerialInv'
  <2> SUFFICES ASSUME IInv, SerialInv, [Next]_vars, NEW w \in Workers
               PROVE  SerialOK(w)'
    BY DEF SerialInv
  <2>1. SerialOK(w)
    BY DEF SerialInv
  <2> QED  BY <2>1, StepSerial
<1> QED  BY <1>1, <1>2, StoreInvariant, PTL DEF Spec

\* What holds between invocations.
LEMMA AtRest ==
    ASSUME IInv, SerialInv, Quiet
    PROVE  /\ Distinct /\ Agree(connect) /\ searched = Live(connect) /\ Live(connect) = Current
           /\ \A c \in Originals : SearchHit(c) # {}
           /\ \A f \in Stored : f[1] \in Rows /\ original[f[1]] \in Originals
           /\ ~RuleBased => Recorded(connect) /\ profileCount = Cardinality(searched)
<1>1. PICK w \in Workers : job[w].pc = "idle"
  BY WorkersAssumption DEF Quiet
<1>2. SerialOK(w) /\ Book(w) = connect /\ job[w].pc \notin Halfway \cup Filing
  BY <1>1 DEF SerialInv, Book, Halfway, Filing
<1>3. /\ Distinct /\ Agree(connect) /\ searched = Live(connect)
      /\ ~RuleBased => Recorded(connect) /\ profileCount = Cardinality(searched)
  BY <1>2 DEF SerialOK, RowsOfSearch
<1>4. \A c \in Originals : SearchHit(c) # {}
  BY <1>2, <1>3, LiveIsFound
<1>5. \A f \in Stored : f[1] \in Rows
  BY <1>2, <1>3, ObjectsLive
<1> QED  BY <1>3, <1>4, <1>5 DEF Live, Current, Originals

(***************************************************************************)
(* A profile with objects is found under the id its profile_id was created *)
(* with, however many puts and merges there were, if they run one after    *)
(* the other: every merge moves the master rows, and keeps the search row  *)
(* it moves them to (GetProfileSearchRecord).                              *)
(***************************************************************************)
THEOREM Found ==
    ASSUME Serial
    PROVE  Spec => []FoundUnlessDeleted
<1>1. IInv /\ SerialInv => FoundUnlessDeleted
  BY AtRest DEF FoundUnlessDeleted
<1> QED  BY <1>1, SerialInvariant, PTL

\* One after the other, puts and merges that fail half way included, invocations
\* leave every object where its master row is (MergeProfiles, rollbackMerge).
THEOREM ObjectsFollow ==
    ASSUME Serial
    PROVE  Spec => []ObjectsFollowMaster
<1>1. IInv /\ SerialInv => ObjectsFollowMaster
  BY AtRest DEF ObjectsFollowMaster, Agree
<1> QED  BY <1>1, SerialInvariant, PTL

\* One after the other, invocations leave a search row for profiles only, with the
\* fields of all the objects of its profile and no other's (mergeSearchRecords).
THEOREM RowsComplete ==
    ASSUME Serial
    PROVE  Spec => []SearchRowsComplete
<1>1. ASSUME IInv, SerialInv
      PROVE  SearchRowsComplete
  <2> SUFFICES ASSUME Quiet, NEW c \in searched
               PROVE  c \in Current /\ fields[c] = {f \in Stored : inter[f] = c}
    BY DEF SearchRowsComplete
  <2>1. c \in Current /\ c \in Ids /\ NoId \notin Ids
    BY <1>1, AtRest, IdsLemma
  <2>2. fields[c] = {f \in Facts : inter[f] = c}
    BY <1>1, <2>1, AtRest DEF Agree
  <2>3. \A f \in Facts : inter[f] = c <=> f \in Stored /\ inter[f] = c
    BY <2>1 DEF Stored
  <2>4. Stored \subseteq Facts
    BY DEF Stored
  <2> QED  BY <2>1, <2>2, <2>3, <2>4
<1> QED  BY <1>1, SerialInvariant, PTL

\* One after the other, invocations count every profile once, and no profile that is
\* merged away (UpdateCount); without the rules, as a put that matches creates none.
THEOREM ProfilesCounted ==
    ASSUME Serial, ~RuleBased
    PROVE  Spec => []ProfileCountInSync
<1>1. IInv /\ SerialInv => ProfileCountInSync
  BY AtRest DEF ProfileCountInSync
<1> QED  BY <1>1, SerialInvariant, PTL

\* One after the other, without the rules, merges are in the history and in the master
\* table or, if they failed, in neither (MergeProfiles, rollbackMerge).
THEOREM HistoryExplains ==
    ASSUME Serial, ~RuleBased
    PROVE  Spec => []HistoryExplainsMaster
<1>1. ASSUME IInv, SerialInv
      PROVE  HistoryExplainsMaster
  <2> SUFFICES ASSUME Quiet
               PROVE  /\ \A h \in history : Resolve(h[1]) = Resolve(h[2]) /\ Resolve(h[2]) # {}
                      /\ \A p \in Rows : connect[p] # original[p] =>
                             \E h \in history : h[2] = original[p]
    BY DEF HistoryExplainsMaster
  <2>1. Distinct /\ Recorded(connect)
    BY <1>1, AtRest
  <2>2. ASSUME NEW p \in Rows
        PROVE  Resolve(original[p]) = {connect[p]}
    <3>1. \A q \in Rows : original[q] = original[p] => q = p
      BY <2>1 DEF Distinct
    <3> QED  BY <3>1 DEF Resolve
  <2>3. ASSUME NEW h \in history
        PROVE  Resolve(h[1]) = Resolve(h[2]) /\ Resolve(h[2]) # {}
    <3>1. PICK p \in Rows, q \in Rows :
             original[p] = h[1] /\ original[q] = h[2] /\ connect[p] = connect[q]
      BY <2>1 DEF Recorded
    <3> QED  BY <2>2, <3>1
  <2>4. \A p \in Rows : connect[p] # original[p] => \E h \in history : h[2] = original[p]
    BY <2>1 DEF Recorded
  <2> QED  BY <2>3, <2>4
<1> QED  BY <1>1, SerialInvariant, PTL

\* A request leaves the queue in one of three steps of a merge.
LEMMA QueueShrinks ==
    ASSUME Next, NEW r \in queue \ queue'
    PROVE  \E w \in Workers : job[w].pc \in {"mergeTarget", "mergeCheck", "mergeFinish"}
<1>1. ASSUME NEW w \in Workers, PutStep(w)
      PROVE  queue \subseteq queue'
  BY <1>1 DEF PutStep, PutMatch, PutMaster, PutHistory, PutTx, PutUndo, PutPublish
<1>2. ASSUME NEW w \in Workers, MergeStep(w)
      PROVE  queue \subseteq queue' \/ job[w].pc \in {"mergeTarget", "mergeCheck", "mergeFinish"}
  BY <1>2 DEF MergeStep, MergeSource, MergeTarget, MergeCheck, MergeMaster, MergeSearch,
              MergeTx, MergeUndo, MergeFinish
<1>3. ASSUME NEW w \in Workers, PutFailure(w)
      PROVE  queue \subseteq queue'
  <2>1. \A stage : PutTxFail(w, stage) => UNCHANGED queue
    BY Zenon DEF PutTxFail
  <2> QED  BY <1>3, <2>1 DEF PutFailure, PutFail, PutPublishFail
<1>4. ASSUME NEW w \in Workers, MergeFailure(w) \/ Crash(w)
      PROVE  queue \subseteq queue'
  BY <1>4 DEF MergeFailure, MergeTxFail, MergeFinishFail, GiveUp, Crash
<1>5. ASSUME NEW w \in Workers, \/ \E o \in Facts : StartPut(w, o)
                                \/ \E s, t \in Current : DirectMerge(w, s, t)
                                \/ \E q \in queue : TakeRequest(w, q)
      PROVE  queue \subseteq queue'
  BY <1>5 DEF StartPut, DirectMerge, TakeRequest
<1>6. ASSUME NEW s \in Current, NEW t \in Current, RequestMerge(s, t)
      PROVE  queue \subseteq queue'
  BY <1>6 DEF RequestMerge
<1> QED  BY <1>1, <1>2, <1>3, <1>4, <1>5, <1>6 DEF Next, Work

(***************************************************************************)
(* The merger acknowledges a request it finds done already: one after the  *)
(* other, an attempt that failed half way before has been undone, so that  *)
(* nothing is left at the id that was merged away (MergeProfiles).         *)
(***************************************************************************)
THEOREM MergedWhenDone ==
    ASSUME Serial
    PROVE  Spec => DoneMeansMerged
<1> DEFINE Left == \A r \in queue \ queue' :
              r[1] \notin Current => r[1] \notin searched /\ \A f \in Facts : inter[f] # r[1]
<1>1. ASSUME IInv, SerialInv, [Next]_vars
      PROVE  [Left]_vars
  <2> SUFFICES ASSUME Next, NEW r \in queue \ queue', r[1] \notin Current
               PROVE  r[1] \notin searched /\ \A f \in Facts : inter[f] # r[1]
    BY <1>1
  <2>1. PICK w \in Workers : job[w].pc \in {"mergeTarget", "mergeCheck", "mergeFinish"}
    BY QueueShrinks
  <2>2. SerialOK(w) /\ Book(w) = connect /\ job[w].pc \notin Halfway \cup Filing
    BY <1>1, <2>1 DEF SerialInv, Book, Halfway, Filing
  <2>3. Agree(Book(w)) /\ searched = Current /\ Live(Book(w)) = Current
    BY <2>2 DEF SerialOK, RowsOfSearch, Live, Current
  <2>4. r[1] \in Ids /\ NoId \notin Ids
    BY <1>1, IdsLemma DEF IInv, TypeOK
  <2>5. \A f \in Stored : inter[f] \in Current
    BY <1>1, <2>3, ObjectsLive
  <2> QED  BY <2>3, <2>4, <2>5 DEF Stored
<1> HIDE DEF Left
<1>2. Spec => [][Left]_vars
  BY <1>1, SerialInvariant, PTL DEF Spec
<1> QED  BY <1>2 DEF DoneMeansMerged, Left

----------------------------------------------------------------------------
(* The store is a partition *)

\* The empty store is a partition of no objects.
LEMMA InitPartition == Init => Partition!Init
  BY DEF Init, Partition!Init, Partition!Objects, Facts

\* Steps that leave the objects and the history alone.
LEMMA Stutters ==
    ASSUME NEW w \in Workers,
           \/ PutMatch(w) \/ PutMaster(w) \/ PutUndo(w) \/ PutPublish(w)
           \/ MergeSource(w) \/ MergeTarget(w) \/ MergeCheck(w) \/ MergeMaster(w)
           \/ MergeSearch(w) \/ MergeUndo(w) \/ MergeFinish(w)
           \/ PutFailure(w) \/ MergeFailure(w) \/ Crash(w)
           \/ \E o \in Facts : StartPut(w, o)
           \/ \E s, t \in Current : DirectMerge(w, s, t)
           \/ \E r \in queue : TakeRequest(w, r)
    PROVE  inter' = inter /\ history' = history
<1>1. ASSUME PutMatch(w) \/ PutMaster(w) \/ PutUndo(w) \/ PutPublish(w)
      PROVE  inter' = inter /\ history' = history
  BY <1>1 DEF PutMatch, PutMaster, PutUndo, PutPublish, tables
<1>2. ASSUME \/ MergeSource(w) \/ MergeTarget(w) \/ MergeCheck(w) \/ MergeMaster(w)
             \/ MergeSearch(w) \/ MergeUndo(w) \/ MergeFinish(w)
      PROVE  inter' = inter /\ history' = history
  BY <1>2 DEF MergeSource, MergeTarget, MergeCheck, MergeMaster, MergeSearch, MergeUndo,
              MergeFinish, tables
<1>3. ASSUME PutFailure(w)
      PROVE  inter' = inter /\ history' = history
  <2>1. \A stage : PutTxFail(w, stage) => UNCHANGED tables
    BY Zenon DEF PutTxFail
  <2> QED  BY <1>3, <2>1 DEF PutFailure, PutFail, PutPublishFail, tables
<1>4. ASSUME MergeFailure(w) \/ Crash(w)
      PROVE  inter' = inter /\ history' = history
  BY <1>4 DEF MergeFailure, MergeTxFail, MergeFinishFail, Crash, tables
<1>5. ASSUME \/ \E o \in Facts : StartPut(w, o)
             \/ \E s, t \in Current : DirectMerge(w, s, t)
             \/ \E r \in queue : TakeRequest(w, r)
      PROVE  inter' = inter /\ history' = history
  BY <1>5 DEF StartPut, DirectMerge, TakeRequest, tables
<1> QED  BY <1>1, <1>2, <1>3, <1>4, <1>5

\* Ids of profiles are not retired.
LEMMA AliveIds ==
    ASSUME NEW con, Agree(con), NEW c \in Live(con), c \in Ids
    PROVE  c \in Partition!Alive
  BY DEF Agree, Partition!Alive, Partition!Retired

\* The transaction of a put stores the object, if it is not stored already.
LEMMA PutTxStores ==
    ASSUME IInv, NEW w \in Workers, SerialOK(w), PutTx(w)
    PROVE  \/ \E o \in Partition!Objects, c \in Ids : Partition!Store(o, c)
           \/ inter' = inter /\ history' = history
<1> DEFINE o == job[w].obj
           c == job[w].cid
<1>1. job[w].pc = "putTx" /\ history' = history
  BY DEF PutTx
<1>2. o \in Facts /\ c \in Originals /\ c \in Ids /\ NoId \notin Ids /\ inter \in [Facts -> IdOrNone]
  BY <1>1, JobFacts DEF PutPhases, Landed, IInv, TypeOK
<1>3. inter' = [inter EXCEPT ![o] = c] /\ c = connect[o[1]]
  BY PutTxSerial
<1>4. Book(w) = connect /\ Agree(connect) /\ c \in Live(connect)
  BY <1>1 DEF Book, Halfway, SerialOK, RowsOfSearch, Filing
<1> HIDE DEF o, c
<1>5. CASE o \in Stored
  <2>1. inter[o] = c
    BY <1>3, <1>4, <1>5 DEF Agree
  <2> QED  BY <1>1, <1>2, <1>3, <2>1
<1>6. CASE o \notin Stored
  <2>1. inter[o] = NoId
    BY <1>2, <1>6 DEF Stored
  <2>2. c \in Partition!Alive
    BY <1>2, <1>4, AliveIds
  <2>3. Partition!Homes(o[1]) \subseteq {c}
    <3>1. \A f \in {o[1]} \X Keys : f \in Facts /\ f[1] = o[1]
      BY <1>2 DEF Facts
    <3>2. \A f \in {o[1]} \X Keys : inter[f] # NoId => inter[f] = c
      BY <1>3, <1>4, <3>1 DEF Agree, Stored
    <3> QED  BY <3>2 DEF Partition!Homes
  <2>4. Partition!Store(o, c)
    BY <1>1, <1>3, <2>1, <2>2, <2>3 DEF Partition!Store
  <2> QED  BY <1>2, <2>4 DEF Partition!Objects, Facts
<1> QED  BY <1>5, <1>6

\* The history entry of a put retires an id that no object ever had.
LEMMA PutHistoryMerges ==
    ASSUME IInv, NEW w \in Workers, SerialOK(w), PutHistory(w)
    PROVE  \E a, b \in Ids : Partition!Merge(a, b)
<1> DEFINE a == job[w].cid
           b == job[w].fresh
<1>1. job[w].pc = "putHistory" /\ history' = history \cup {<<a, b>>} /\ inter' = inter
  BY DEF PutHistory
<1>2. a \in Ids /\ b \in Ids /\ NoId \notin Ids /\ inter \in [Facts -> IdOrNone]
  <2>1. history' \in SUBSET (Ids \X Ids)
    BY PutHistoryInv DEF IInv, TypeOK
  <2> QED  BY <1>1, <2>1, JobFacts DEF IInv, TypeOK
<1>3. /\ Book(w) = connect /\ Agree(connect) /\ a \in Live(connect)
      /\ b \notin Live(connect) /\ \A h \in history : h[2] # b
  BY <1>1 DEF Book, Halfway, SerialOK, RowsOfSearch, Filing, PutOK
<1> HIDE DEF a, b
<1>4. a \in Partition!Alive
  BY <1>2, <1>3, AliveIds
<1>5. b \in Partition!Alive \ {a}
  BY <1>2, <1>3 DEF Partition!Alive, Partition!Retired
<1>6. \A f \in Facts : inter[f] # b
  <2>1. \A f \in Stored : inter[f] \in Live(connect)
    BY <1>3, ObjectsLive
  <2> QED  BY <1>2, <1>3, <2>1 DEF Stored
<1>7. inter' = [f \in Facts |-> IF inter[f] = b THEN a ELSE inter[f]]
  BY <1>1, <1>2, <1>6
<1>8. Partition!Merge(a, b)
  BY <1>1, <1>4, <1>5, <1>7 DEF Partition!Merge, Partition!Objects, Facts
<1> QED  BY <1>2, <1>8

\* The transaction of a merge merges.
LEMMA MergeTxMerges ==
    ASSUME IInv, NEW w \in Workers, SerialOK(w), MergeTx(w)
    PROVE  \E a, b \in Ids : Partition!Merge(a, b)
<1> DEFINE a == job[w].tgt
           b == job[w].src
<1>1. /\ job[w].pc = "mergeTx" /\ history' = history \cup {<<a, b>>}
      /\ inter' = [f \in Facts |-> IF inter[f] = b THEN a ELSE inter[f]]
  <2>1. \A f \in Facts : f \in MovedObjects(w) <=> inter[f] = b
    BY DEF MovedObjects
  <2> QED  BY <2>1 DEF MergeTx, MergeLog
<1>2. a \in Ids /\ b \in Ids
  BY <1>1, JobFacts DEF Sourced, Targeted
<1>3. a \in Live(Book(w)) /\ b \in Live(Book(w)) /\ a # b /\ Agree(Book(w))
  BY MergeTxSerial DEF SerialOK
<1> HIDE DEF a, b
<1>4. a \in Partition!Alive /\ b \in Partition!Alive \ {a}
  BY <1>2, <1>3, AliveIds
<1>5. Partition!Merge(a, b)
  BY <1>1, <1>4 DEF Partition!Merge, Partition!Objects, Facts
<1> QED  BY <1>2, <1>5

(***************************************************************************)
(* One after the other, the invocations implement the partition: a put is  *)
(* one Store at its transaction, a put that matches one Merge before that, *)
(* a merge one Merge at its transaction, and what fails is no step at all. *)
(***************************************************************************)
THEOREM ImplementsPartition ==
    ASSUME Serial
    PROVE  Spec => PartitionSpec
<1>1. ASSUME IInv, SerialInv, [Next]_vars
      PROVE  [Partition!Next]_(Partition!partition)
  <2>1. ASSUME NEW w \in Workers, PutTx(w) \/ PutHistory(w) \/ MergeTx(w)
        PROVE  Partition!Next \/ (inter' = inter /\ history' = history)
    <3>1. SerialOK(w)
      BY <1>1 DEF SerialInv
    <3> QED  BY <1>1, <2>1, <3>1, PutTxStores, PutHistoryMerges, MergeTxMerges DEF Partition!Next
  <2>2. CASE \A w \in Workers : ~PutTx(w) /\ ~PutHistory(w) /\ ~MergeTx(w)
    <3>1. CASE \E s, t \in Current : RequestMerge(s, t)
      BY <3>1 DEF RequestMerge, tables, Partition!partition
    <3>2. CASE UNCHANGED vars
      BY <3>2 DEF vars, Partition!partition
    <3>3. CASE Next
      BY <2>2, <3>1, <3>3, Stutters DEF Next, Work, PutStep, MergeStep, Partition!partition
    <3> QED  BY <1>1, <3>2, <3>3
  <2> QED  BY <2>1, <2>2 DEF Partition!partition
<1> QED  BY <1>1, InitPartition, SerialInvariant, PTL DEF Spec, PartitionSpec, Partition!Spec

\* The partition is of the right types, and whole.
PartInv == Partition!TypeOK /\ Partition!Whole

LEMMA PartInit == Partition!Init => PartInv
  BY DEF Partition!Init, PartInv, Partition!TypeOK, Partition!Whole, Partition!Retired, NoId, Ids

LEMMA StoreKeepsWhole ==
    ASSUME PartInv, NEW o \in Partition!Objects, NEW c \in Ids, Partition!Store(o, c)
    PROVE  PartInv'
<1>1. inter' = [inter EXCEPT ![o] = c] /\ history' = history /\ c \notin Partition!Retired
  BY DEF Partition!Store, Partition!Alive
<1>2. \A q \in Partition!Objects : q[1] = o[1] /\ inter[q] # NoId => inter[q] = c
  <2>1. \A q \in Partition!Objects : q[1] = o[1] => q \in {o[1]} \X Keys
    BY DEF Partition!Objects
  <2> QED  BY <2>1 DEF Partition!Store, Partition!Homes
<1> QED  BY <1>1, <1>2 DEF PartInv, Partition!TypeOK, Partition!Whole, Partition!Retired

LEMMA MergeKeepsWhole ==
    ASSUME PartInv, NEW a \in Ids, NEW b \in Ids, Partition!Merge(a, b)
    PROVE  PartInv'
<1>1. a \notin Partition!Retired /\ b \notin Partition!Retired /\ a # b
  BY DEF Partition!Merge, Partition!Alive
<1>2. /\ inter' = [o \in Partition!Objects |-> IF inter[o] = b THEN a ELSE inter[o]]
      /\ history' = history \cup {<<a, b>>}
  BY DEF Partition!Merge
<1>3. \A r \in Partition!Retired' : r \in Partition!Retired \/ r = b
  BY <1>2 DEF Partition!Retired
<1>4. Partition!TypeOK'
  BY <1>2 DEF PartInv, Partition!TypeOK
<1>5. \A o \in Partition!Objects : inter'[o] \notin Partition!Retired'
  BY <1>1, <1>2, <1>3 DEF PartInv, Partition!TypeOK, Partition!Whole
<1>6. \A m1, m2 \in history' : m1[2] = m2[2] => m1 = m2
  BY <1>1, <1>2 DEF PartInv, Partition!TypeOK, Partition!Whole, Partition!Retired
<1>7. NoId \notin Ids
  BY DEF NoId, Ids
<1>8. \A o1, o2 \in Partition!Objects :
         o1[1] = o2[1] /\ inter'[o1] # NoId /\ inter'[o2] # NoId => inter'[o1] = inter'[o2]
  BY <1>2, <1>7 DEF PartInv, Partition!TypeOK, Partition!Whole
<1> QED  BY <1>4, <1>5, <1>6, <1>8 DEF PartInv, Partition!Whole

(***************************************************************************)
(* Storing and merging never split a profile_id's objects, leave one in a  *)
(* retired profile or retire a profile twice.                              *)
(***************************************************************************)
THEOREM StaysWhole == Partition!Spec => []Partition!Whole
<1>1. PartInv /\ [Partition!Next]_(Partition!partition) => PartInv'
  <2>1. ASSUME PartInv, UNCHANGED Partition!partition
        PROVE  PartInv'
    BY <2>1 DEF Partition!partition, PartInv, Partition!TypeOK, Partition!Whole, Partition!Retired
  <2> QED  BY <2>1, StoreKeepsWhole, MergeKeepsWhole DEF Partition!Next
<1>2. PartInv => Partition!Whole
  BY DEF PartInv
<1> QED  BY <1>1, <1>2, PartInit, PTL DEF Partition!Spec

\* What the partition promises the tables keep: at every moment, not only between
\* invocations, no object is in a profile that the history has retired.
THEOREM TablesStayWhole ==
    ASSUME Serial
    PROVE  Spec => []Partition!Whole
  BY ImplementsPartition, StaysWhole, PTL DEF PartitionSpec
=============================================================================
