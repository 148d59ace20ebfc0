------------------------- MODULE ProfilePurgeProofs -------------------------
(***************************************************************************)
(* The excise processor under privacy purges, for any workers, profiles,   *)
(* files and bounds: the types whatever happens; and, as long as searches  *)
(* wait for the files to be at rest, that no record of another profile is  *)
(* lost and that what is reported as purged is gone, of every file that no *)
(* worker left half written or was overtaken at.                           *)
(***************************************************************************)
EXTENDS ProfilePurge, TLAPS

Purges == [pc : {"none", "invoked", "running"}, ids : SUBSET ConnectIds,
           found : [ConnectIds -> SUBSET Keys], left : SUBSET Keys]

\* A worker that does something has a message; one that writes a file has its key.
WorkerOK(w) ==
    /\ ~At(w, "idle") => worker[w].msg \in Messages
    /\ worker[w].pc \in {"copy", "tidy"} => worker[w].temp \in Keys

TypeInv ==
    /\ TypeOK
    /\ purge \in [Runs -> Purges]
    /\ \A w \in Workers : WorkerOK(w)

\* An exported file, or what a worker left behind of the rewriting of one.
Stays(k) == k \in 1 .. Paths \/ (k \in 1 .. lastKey /\ origin[k] \in hurt)

\* Only keys that stay are ever written in a message.
KeysOK ==
    /\ \A k \in 1 .. Paths : origin[k] = k
    /\ \A k \in 1 .. lastKey : origin[k] \in 1 .. Paths
    /\ \A k \in Keys : k > lastKey => file[k] = {} /\ origin[k] = k
    /\ \A m \in queue : Stays(m.path)
    /\ \A c \in ConnectIds : \A k \in found[c] : Stays(k)
    /\ \A r \in Runs : \A k \in purge[r].left : Stays(k)
    /\ \A w \in Workers :
         /\ ~At(w, "idle") => Stays(Path(w))
         /\ worker[w].pc \in {"copy", "tidy"} =>
              /\ worker[w].temp \in (Paths + 1) .. lastKey
              /\ origin[worker[w].temp] = origin[Path(w)]

\* The worker is at work on the file k.
Busy(w, k) == ~At(w, "idle") /\ Path(w) = k

\* Where a file is: under its key, or in the hands of the worker that rewrites it.
Kept(k, x) ==
    \/ x \in file[k]
    \/ \E w \in Workers : Busy(w, k) /\ worker[w].pc \in {"write", "copy"} /\ x \in worker[w].rows

\* The rewriting of the file k by w, step by step.
Rewritten(w, k) ==
    /\ worker[w].pc \in Body \ {"release"} => lock[k] = w
    /\ At(w, "cut") => worker[w].rows = file[k] \ Asked(w)
    /\ worker[w].pc \in Rewriting => worker[w].rows \cap Asked(w) = {}
    /\ worker[w].pc \in {"write", "copy"} => file[k] = {} /\ Others \subseteq worker[w].rows
    /\ worker[w].pc \in {"copy", "tidy"} => file[worker[w].temp] = worker[w].rows
    /\ At(w, "tidy") => file[k] = worker[w].rows
    /\ worker[w].pc \in {"release", "mark"} => \A c \in Asked(w) : ~Kept(k, c)
    /\ At(w, "mark") => worker[w].left \subseteq Asked(w)

\* An exported file no worker left half written.
Whole(k) ==
    /\ \A w \in Workers : Busy(w, k) => Rewritten(w, k)
    /\ \A y \in Keys : origin[y] = k /\ y # k /\ file[y] # {} =>
         \E w \in Workers : Busy(w, k) /\ worker[w].pc \in {"copy", "tidy"} /\ worker[w].temp = y
    /\ \A x \in Others : Kept(k, x)
    /\ \A c \in ConnectIds : status[<<c, k>>] = "success" => ~Kept(k, c)

WholeOK == \A k \in 1 .. Paths : k \notin hurt => Whole(k)

IInv == TypeInv /\ KeysOK /\ WholeOK

----------------------------------------------------------------------------
(* Types *)

\* What a worker does, as TypeOK has it.
WorkerStates == [pc : Body \cup {"idle", "wait", "mark"}, msg : Messages \cup {NoMessage},
                 rows : SUBSET Records, temp : 0 .. MaxKeys, left : SUBSET ConnectIds]

\* The numbers that bound the model.
LEMMA Numbers ==
  /\ Paths \in Nat /\ MaxKeys \in Nat /\ MaxRuns \in Nat /\ Paths <= MaxKeys
  /\ \A k \in Keys : k \in Nat /\ k # 0
  /\ \A k \in 1 .. Paths : k \in Keys
  BY ExciseBounds DEF Keys

LEMMA Parts ==
  ASSUME TypeInv
  PROVE  /\ file \in [Keys -> SUBSET Records] /\ origin \in [Keys -> Keys] /\ lastKey \in Paths .. MaxKeys
         /\ queue \in SUBSET Messages /\ lock \in [Keys -> Workers \cup {Nobody}] /\ lapsed \in SUBSET Keys
         /\ worker \in [Workers -> WorkerStates]
         /\ status \in [ConnectIds \X Keys -> Statuses \cup {NoStatus}]
         /\ hurt \in SUBSET Keys /\ found \in [ConnectIds -> SUBSET Keys]
  BY DEF TypeInv, TypeOK, WorkerStates, Keys

LEMMA MessageParts ==
  \A m \in Messages : m.path \in Keys /\ m.ids \in SUBSET ConnectIds /\ m.run \in 1 .. MaxRuns
  BY DEF Messages

LEMMA IdleParts ==
  /\ Idle \in WorkerStates /\ Idle.pc = "idle" /\ Idle.msg = NoMessage
  /\ NoMessage.path = 0
  BY Numbers DEF Idle, WorkerStates, NoMessage

\* The file a worker is at.
LEMMA AtWork ==
  ASSUME TypeInv, NEW w \in Workers, ~At(w, "idle")
  PROVE  /\ worker[w] \in WorkerStates /\ worker[w].msg \in Messages
         /\ Path(w) \in Keys /\ Asked(w) \in SUBSET ConnectIds
         /\ file[Path(w)] \in SUBSET Records /\ worker[w].rows \in SUBSET Records
         /\ origin[Path(w)] \in Keys
         /\ worker[w].pc \in {"copy", "tidy"} => worker[w].temp \in Keys
  <1>1. worker[w] \in WorkerStates /\ worker[w].msg \in Messages
    BY Parts DEF TypeInv, WorkerOK
  <1>2. Path(w) \in Keys /\ Asked(w) \in SUBSET ConnectIds
    BY <1>1, MessageParts DEF Path, Asked
  <1>. QED BY <1>1, <1>2, Parts DEF TypeInv, WorkerOK, WorkerStates

\* Everything but what one worker does is as before, or still of its type.
LEMMA TypesOfStep ==
  ASSUME TypeInv, NEW w \in Workers,
         file' \in [Keys -> SUBSET Records], origin' \in [Keys -> Keys], lastKey' \in Paths .. MaxKeys,
         queue' \in SUBSET Messages, lock' \in [Keys -> Workers \cup {Nobody}], lapsed' \in SUBSET Keys,
         status' \in [ConnectIds \X Keys -> Statuses \cup {NoStatus}], hurt' \in SUBSET Keys,
         UNCHANGED purgeVars,
         NEW new \in WorkerStates, worker' = [worker EXCEPT ![w] = new],
         new.pc # "idle" => new.msg \in Messages,
         new.pc \in {"copy", "tidy"} => new.temp \in Keys
  PROVE  TypeInv'
  <1>1. worker' \in [Workers -> WorkerStates]
    BY Parts
  <1>2. TypeOK'
    BY <1>1, Parts DEF TypeOK, WorkerStates, Keys, purgeVars
  <1>3. \A v \in Workers : WorkerOK(v)'
    BY Parts DEF TypeInv, WorkerOK, At
  <1>. QED BY <1>2, <1>3 DEF TypeInv, purgeVars

LEMMA TypesInit == Init => TypeInv
  <1> SUFFICES ASSUME Init PROVE TypeInv
    OBVIOUS
  <1>1. TypeOK
    <2>1. /\ file \in [Keys -> SUBSET Records] /\ origin \in [Keys -> 1 .. MaxKeys]
          /\ lastKey \in Paths .. MaxKeys /\ lock \in [Keys -> Workers \cup {Nobody}]
          /\ found \in [ConnectIds -> SUBSET Keys]
      BY Numbers DEF Init, ExciseInit, Keys
    <2>2. worker \in [Workers -> WorkerStates]
      BY IdleParts DEF Init, ExciseInit
    <2>. QED BY <2>1, <2>2 DEF Init, ExciseInit, TypeOK, WorkerStates
  <1>2. purge \in [Runs -> Purges]
    BY DEF Init, Purges, NotAsked
  <1>3. \A w \in Workers : WorkerOK(w)
    BY IdleParts DEF Init, ExciseInit, WorkerOK, At
  <1>. QED BY <1>1, <1>2, <1>3 DEF TypeInv

\* What a step of a worker makes of it, and of the lock.
LEMMA TypesOfExcise ==
  ASSUME TypeInv, ExciseNext /\ UNCHANGED purgeVars
  PROVE  TypeInv'
  <1>0. /\ file \in [Keys -> SUBSET Records] /\ origin \in [Keys -> Keys] /\ lastKey \in Paths .. MaxKeys
        /\ queue \in SUBSET Messages /\ lock \in [Keys -> Workers \cup {Nobody}] /\ lapsed \in SUBSET Keys
        /\ worker \in [Workers -> WorkerStates]
        /\ status \in [ConnectIds \X Keys -> Statuses \cup {NoStatus}]
        /\ hurt \in SUBSET Keys /\ UNCHANGED purgeVars
    BY Parts
  <1>i. Idle \in WorkerStates /\ Idle.pc = "idle"
    BY IdleParts
  <1>1. ASSUME NEW w \in Workers, NEW m \in queue, Receive(w, m)
        PROVE  TypeInv'
    <2> DEFINE new == [Idle EXCEPT !.pc = "wait", !.msg = m]
    <2>1. new \in WorkerStates /\ new.msg \in Messages /\ new.pc = "wait"
      BY <1>0, <1>i DEF WorkerStates
    <2>2. worker' = [worker EXCEPT ![w] = new]
      BY <1>1 DEF Receive
    <2> HIDE DEF new
    <2>. QED BY <1>0, <1>1, <2>1, <2>2, TypesOfStep DEF Receive, fileVars
  <1>2. ASSUME NEW w \in Workers, Acquire(w)
        PROVE  TypeInv'
    <2> DEFINE new == [worker[w] EXCEPT !.pc = "read"]
    <2>0. ~At(w, "idle")
      BY <1>2 DEF Acquire, At
    <2>1. new \in WorkerStates /\ new.msg \in Messages /\ new.pc = "read"
      BY <2>0, AtWork DEF WorkerStates, Body
    <2>2. worker' = [worker EXCEPT ![w] = new]
      BY <1>0, <1>2 DEF Acquire, Goto
    <2>3. hurt' \in SUBSET Keys
      BY <1>0, <1>2, <2>0, AtWork DEF Acquire
    <2>4. lock' \in [Keys -> Workers \cup {Nobody}] /\ lapsed' \in SUBSET Keys
      BY <1>0, <1>2 DEF Acquire
    <2> HIDE DEF new
    <2>. QED BY <1>0, <1>2, <2>1, <2>2, <2>3, <2>4, TypesOfStep DEF Acquire
  <1>3. ASSUME NEW w \in Workers, GiveUp(w)
        PROVE  TypeInv'
    BY <1>0, <1>i, <1>3, TypesOfStep DEF GiveUp
  <1>4. ASSUME NEW w \in Workers, Read(w)
        PROVE  TypeInv'
    <2>0. ~At(w, "idle")
      BY <1>4 DEF Read, At
    <2>1. CASE file[Path(w)] = {}
      <3> DEFINE new == [worker[w] EXCEPT !.pc = "release"]
      <3>1. new \in WorkerStates /\ new.msg \in Messages /\ new.pc = "release"
        BY <2>0, AtWork DEF WorkerStates, Body
      <3>2. worker' = [worker EXCEPT ![w] = new]
        BY <1>0, <1>4, <2>1 DEF Read
      <3> HIDE DEF new
      <3>. QED BY <1>0, <1>4, <3>1, <3>2, TypesOfStep DEF Read
    <2>2. CASE file[Path(w)] # {}
      <3> DEFINE new == [worker[w] EXCEPT !.pc = "cut", !.rows = RowsLeft(w)]
      <3>1. new \in WorkerStates /\ new.msg \in Messages /\ new.pc = "cut"
        BY <2>0, AtWork DEF WorkerStates, Body, RowsLeft
      <3>2. worker' = [worker EXCEPT ![w] = new]
        BY <1>0, <1>4, <2>2 DEF Read
      <3> HIDE DEF new
      <3>. QED BY <1>0, <1>4, <3>1, <3>2, TypesOfStep DEF Read
    <2>. QED BY <2>1, <2>2
  <1>5. ASSUME NEW w \in Workers, Cut(w)
        PROVE  TypeInv'
    <2> DEFINE pc == IF worker[w].rows = {} THEN "release" ELSE "write"
               new == [worker[w] EXCEPT !.pc = pc]
    <2>0. ~At(w, "idle")
      BY <1>5 DEF Cut, At
    <2>1. new \in WorkerStates /\ new.msg \in Messages /\ new.pc \in {"release", "write"}
      BY <2>0, AtWork DEF WorkerStates, Body
    <2>2. worker' = [worker EXCEPT ![w] = new]
      BY <1>0, <1>5 DEF Cut, Goto
    <2>3. file' \in [Keys -> SUBSET Records]
      BY <1>0, <1>5 DEF Cut
    <2> HIDE DEF new
    <2>. QED BY <1>0, <1>5, <2>1, <2>2, <2>3, TypesOfStep DEF Cut
  <1>6. ASSUME NEW w \in Workers, Write(w)
        PROVE  TypeInv'
    <2> DEFINE new == [worker[w] EXCEPT !.pc = "copy", !.temp = lastKey']
    <2>0. ~At(w, "idle")
      BY <1>6 DEF Write, At
    <2>3. lastKey' \in Paths .. MaxKeys /\ lastKey' \in Keys /\ lastKey' \in 0 .. MaxKeys
      BY <1>0, <1>6, Numbers DEF Write, Keys
    <2>1. new \in WorkerStates /\ new.msg \in Messages /\ new.pc = "copy" /\ new.temp \in Keys
      BY <2>0, <2>3, AtWork DEF WorkerStates, Body
    <2>2. worker' = [worker EXCEPT ![w] = new]
      BY <1>0, <1>6 DEF Write
    <2>4. file' \in [Keys -> SUBSET Records] /\ origin' \in [Keys -> Keys]
      BY <1>0, <1>6, <2>0, AtWork DEF Write
    <2> HIDE DEF new
    <2>. QED BY <1>0, <1>6, <2>1, <2>2, <2>3, <2>4, TypesOfStep DEF Write
  <1>7. ASSUME NEW w \in Workers, Copy(w)
        PROVE  TypeInv'
    <2> DEFINE new == [worker[w] EXCEPT !.pc = "tidy"]
    <2>0. ~At(w, "idle") /\ worker[w].pc = "copy"
      BY <1>7 DEF Copy, At
    <2>1. new \in WorkerStates /\ new.msg \in Messages /\ new.temp \in Keys /\ new.pc = "tidy"
      BY <2>0, AtWork DEF WorkerStates, Body
    <2>2. worker' = [worker EXCEPT ![w] = new]
      BY <1>0, <1>7 DEF Copy, Goto
    <2>3. file' \in [Keys -> SUBSET Records]
      BY <1>0, <1>7, <2>0, AtWork DEF Copy
    <2> HIDE DEF new
    <2>. QED BY <1>0, <1>7, <2>1, <2>2, <2>3, TypesOfStep DEF Copy
  <1>8. ASSUME NEW w \in Workers, Tidy(w)
        PROVE  TypeInv'
    <2> DEFINE new == [worker[w] EXCEPT !.pc = "release"]
    <2>0. ~At(w, "idle")
      BY <1>8 DEF Tidy, At
    <2>1. new \in WorkerStates /\ new.msg \in Messages /\ new.pc = "release"
      BY <2>0, AtWork DEF WorkerStates, Body
    <2>2. worker' = [worker EXCEPT ![w] = new]
      BY <1>0, <1>8 DEF Tidy, Goto
    <2>3. file' \in [Keys -> SUBSET Records]
      BY <1>0, <1>8 DEF Tidy
    <2> HIDE DEF new
    <2>. QED BY <1>0, <1>8, <2>1, <2>2, <2>3, TypesOfStep DEF Tidy
  <1>9. ASSUME NEW w \in Workers, Release(w)
        PROVE  TypeInv'
    <2> DEFINE new == [worker[w] EXCEPT !.pc = "mark", !.left = Asked(w)]
    <2>0. ~At(w, "idle")
      BY <1>9 DEF Release, At
    <2>1. new \in WorkerStates /\ new.msg \in Messages /\ new.pc = "mark"
      BY <2>0, AtWork DEF WorkerStates, Body
    <2>2. worker' = [worker EXCEPT ![w] = new]
      BY <1>0, <1>9 DEF Release
    <2>3. lock' \in [Keys -> Workers \cup {Nobody}] /\ lapsed' \in SUBSET Keys
      BY <1>0, <1>9 DEF Release, ReleaseOwn
    <2> HIDE DEF new
    <2>. QED BY <1>0, <1>9, <2>1, <2>2, <2>3, TypesOfStep DEF Release
  <1>10. ASSUME NEW w \in Workers, NEW c \in ConnectIds, Mark(w, c)
         PROVE  TypeInv'
    <2> DEFINE new == [worker[w] EXCEPT !.left = @ \ {c}]
    <2>0. ~At(w, "idle") /\ worker[w].pc = "mark"
      BY <1>10 DEF Mark, At
    <2>1. new \in WorkerStates /\ new.msg \in Messages /\ new.pc = "mark"
      BY <2>0, AtWork DEF WorkerStates, Body
    <2>2. worker' = [worker EXCEPT ![w] = new]
      BY <1>0, <1>10 DEF Mark
    <2>3. status' \in [ConnectIds \X Keys -> Statuses \cup {NoStatus}]
      BY <1>0, <1>10 DEF Mark, Reported, Statuses
    <2> HIDE DEF new
    <2>. QED BY <1>0, <1>10, <2>1, <2>2, <2>3, TypesOfStep DEF Mark
  <1>11. ASSUME NEW w \in Workers, Finish(w)
         PROVE  TypeInv'
    <2>1. queue' \in SUBSET Messages
      BY <1>0, <1>11 DEF Finish
    <2>. QED BY <1>0, <1>i, <1>11, <2>1, TypesOfStep DEF Finish
  <1>12. ASSUME NEW w \in Workers, Raise(w)
         PROVE  TypeInv'
    <2>1. hurt' \in SUBSET Keys
      BY <1>0, <1>12, AtWork DEF Raise, LeftAt
    <2>2. lock' \in [Keys -> Workers \cup {Nobody}] /\ lapsed' \in SUBSET Keys
      BY <1>0, <1>12 DEF Raise, ReleaseOwn
    <2>. QED BY <1>0, <1>i, <1>12, <2>1, <2>2, TypesOfStep DEF Raise
  <1>13. ASSUME NEW w \in Workers, Die(w)
         PROVE  TypeInv'
    <2>1. hurt' \in SUBSET Keys
      BY <1>0, <1>13, AtWork DEF Die, LeftAt
    <2>. QED BY <1>0, <1>i, <1>13, <2>1, TypesOfStep DEF Die
  <1>14. ASSUME NEW k \in Keys, LapseOfDead(k) \/ LapseOfLiving(k)
         PROVE  TypeInv'
    <2>1. lapsed' \in SUBSET Keys
      BY <1>0, <1>14 DEF LapseOfDead, LapseOfLiving
    <2>. QED BY <1>0, <1>14, <2>1
         DEF LapseOfDead, LapseOfLiving, TypeInv, TypeOK, WorkerOK, At, purgeVars
  <1>. QED BY <1>1, <1>2, <1>3, <1>4, <1>5, <1>6, <1>7, <1>8, <1>9, <1>10, <1>11, <1>12, <1>13, <1>14
       DEF ExciseNext, Proceed

\* Searches and purges.
LEMMA TypesOfPurge ==
  ASSUME TypeInv, UNCHANGED <<file, origin, lastKey, lock, lapsed, worker, hurt>>,
         queue' \in SUBSET Messages, found' \in [ConnectIds -> SUBSET Keys],
         status' \in [ConnectIds \X Keys -> Statuses \cup {NoStatus}],
         purge' \in [Runs -> Purges]
  PROVE  TypeInv'
  BY DEF TypeInv, TypeOK, WorkerOK, At

LEMMA TypesPreserved == TypeInv /\ [Next]_vars => TypeInv'
  <1> SUFFICES ASSUME TypeInv, [Next]_vars PROVE TypeInv'
    OBVIOUS
  <1>0. /\ file \in [Keys -> SUBSET Records] /\ queue \in SUBSET Messages
        /\ status \in [ConnectIds \X Keys -> Statuses \cup {NoStatus}]
        /\ found \in [ConnectIds -> SUBSET Keys] /\ purge \in [Runs -> Purges]
    BY Parts DEF TypeInv
  <1>s. ASSUME NEW cs, NEW ls, NEW s \in Statuses, SetStatus(cs, ls, s)
        PROVE  status' \in [ConnectIds \X Keys -> Statuses \cup {NoStatus}]
    BY <1>0, <1>s DEF SetStatus
  <1>1. CASE ExciseNext /\ UNCHANGED purgeVars
    BY <1>1, TypesOfExcise
  <1>2. ASSUME NEW c \in ConnectIds, Search(c)
        PROVE  TypeInv'
    <2>1. found' \in [ConnectIds -> SUBSET Keys]
      BY <1>0, <1>2 DEF Search
    <2>2. status' \in [ConnectIds \X Keys -> Statuses \cup {NoStatus}]
      BY <1>0, <1>2 DEF Search
    <2>. QED BY <1>0, <1>2, <2>1, <2>2, TypesOfPurge DEF Search, exciseVars, fileVars
  <1>3. ASSUME NEW r \in Runs, NEW cs \in SUBSET ConnectIds, Request(r, cs)
        PROVE  TypeInv'
    <2>1. [NotAsked EXCEPT !.pc = "invoked", !.ids = cs] \in Purges
      BY DEF NotAsked, Purges
    <2>2. purge' \in [Runs -> Purges]
      BY <1>0, <1>3, <2>1 DEF Request
    <2>3. status' \in [ConnectIds \X Keys -> Statuses \cup {NoStatus}]
      BY <1>3, <1>s DEF Request, Statuses
    <2>. QED BY <1>0, <1>3, <2>2, <2>3, TypesOfPurge DEF Request, exciseVars, fileVars
  <1>4. ASSUME NEW r \in Runs, Start(r)
        PROVE  TypeInv'
    <2>1. purge[r].ids \in SUBSET ConnectIds
      BY <1>0 DEF Purges
    <2>2. UNION {found[c] : c \in purge[r].ids} \in SUBSET Keys
      BY <1>0, <2>1
    <2> DEFINE left == UNION {found[c] : c \in purge[r].ids}
               new == [purge[r] EXCEPT !.pc = "running", !.found = found, !.left = left]
    <2>3. purge' \in [Runs -> Purges]
      <3>1. new \in Purges
        <4>1. purge[r] \in Purges /\ left \in SUBSET Keys
          BY <1>0, <2>2
        <4> HIDE DEF left
        <4>. QED BY <1>0, <4>1 DEF Purges
      <3>2. purge' = [purge EXCEPT ![r] = new]
        BY <1>0, <1>4 DEF Start
      <3> HIDE DEF new
      <3>. QED BY <1>0, <3>1, <3>2
    <2>4. status' \in [ConnectIds \X Keys -> Statuses \cup {NoStatus}]
      BY <1>4, <1>s DEF Start, Statuses
    <2>. QED BY <1>0, <1>4, <2>3, <2>4, TypesOfPurge DEF Start, exciseVars, fileVars
  <1>5. ASSUME NEW r \in Runs, NEW k \in Keys, Send(r, k)
        PROVE  TypeInv'
    <2>1. IdsIn(r, k) \in SUBSET ConnectIds
      BY <1>0 DEF Purges, IdsIn
    <2>2. queue' \in SUBSET Messages
      BY <1>0, <1>5, <2>1 DEF Send, Messages, Runs
    <2>3. purge' \in [Runs -> Purges]
      BY <1>0, <1>5 DEF Send, Sent, Purges
    <2>. QED BY <1>0, <1>5, <2>2, <2>3, TypesOfPurge DEF Send
  <1>6. ASSUME NEW r \in Runs, NEW k \in Keys, SendFails(r, k)
        PROVE  TypeInv'
    <2>1. purge' \in [Runs -> Purges]
      BY <1>0, <1>6 DEF SendFails, Sent, Purges
    <2>. QED BY <1>0, <1>6, <2>1, TypesOfPurge DEF SendFails, fileVars
  <1>7. ASSUME NEW r \in Runs, EndsEarly(r)
        PROVE  TypeInv'
    <2>1. purge' \in [Runs -> Purges]
      BY <1>0, <1>7 DEF EndsEarly, Purges
    <2>. QED BY <1>0, <1>7, <2>1, TypesOfPurge DEF EndsEarly, fileVars
  <1>8. CASE UNCHANGED vars
    BY <1>0, <1>8, TypesOfPurge DEF vars, exciseVars, fileVars, purgeVars
  <1>. QED BY <1>1, <1>2, <1>3, <1>4, <1>5, <1>6, <1>7, <1>8 DEF Next, Work

----------------------------------------------------------------------------
(* A file nobody left half written *)

LEMMA BodyParts ==
  /\ Body \ {"release"} = {"read", "cut", "write", "copy", "tidy"}
  /\ Rewriting = {"write", "copy", "tidy"}
  /\ {"write", "copy", "tidy"} \subseteq Body \ {"release"}
  BY DEF Body, Rewriting

\* The exported files are their own origin.
LEMMA Origins ==
  ASSUME IInv, NEW k \in 1 .. Paths
  PROVE  k \in Keys /\ k <= lastKey /\ k \in 1 .. lastKey /\ origin[k] = k
  BY Numbers, Parts DEF IInv, KeysOK, Keys

\* One worker at a time is at work on such a file.
LEMMA OneAtATime ==
  ASSUME IInv, NEW k \in 1 .. Paths, k \notin hurt,
         NEW v \in Workers, Busy(v, k), worker[v].pc \in Body \ {"release"},
         NEW w \in Workers, Busy(w, k), worker[w].pc \in Body \ {"release"}
  PROVE  v = w
  BY DEF IInv, WholeOK, Whole, Rewritten

\* A worker that is not at work on it does not come near its copies.
LEMMA Elsewhere ==
  ASSUME IInv, NEW k \in 1 .. Paths, k \notin hurt, NEW w \in Workers, ~At(w, "idle"), ~Busy(w, k)
  PROVE  /\ Path(w) \in Keys /\ Path(w) # k /\ origin[Path(w)] # k
         /\ worker[w].pc \in {"copy", "tidy"} => worker[w].temp \in Keys /\ origin[worker[w].temp] # k
  <1>1. Path(w) # k /\ Path(w) \in Keys
    BY AtWork DEF Busy, IInv
  <1>2. Stays(Path(w))
    BY DEF IInv, KeysOK
  <1>3. origin[Path(w)] # k
    BY <1>1, <1>2, Origins DEF Stays
  <1>. QED BY <1>1, <1>3, AtWork DEF IInv, KeysOK

\* The steps of w leave what it holds of the file k as it is.
LEMMA WholeBesides ==
  ASSUME IInv, NEW k \in 1 .. Paths, k \notin hurt, NEW w \in Workers,
         \A v \in Workers : v # w => worker'[v] = worker[v],
         \A y \in Keys : (origin'[y] = k <=> origin[y] = k) /\ (origin[y] = k => file'[y] = file[y]),
         \A v \in Workers : v # w /\ Busy(v, k) /\ worker[v].pc \in Body \ {"release"} => lock'[k] = v,
         \A c \in ConnectIds : status'[<<c, k>>] = "success" => status[<<c, k>>] = "success" \/ ~Kept(k, c),
         Busy(w, k) => worker[w].pc \notin Rewriting,
         Busy(w, k)' =>
           /\ worker'[w].pc \notin Rewriting
           /\ worker'[w].pc \in {"read", "cut"} => lock'[k] = w
           /\ worker'[w].pc = "cut" => worker'[w].rows = file[k] \ Asked(w)'
           /\ worker'[w].pc \in {"release", "mark"} => \A c \in Asked(w)' : ~Kept(k, c)
           /\ worker'[w].pc = "mark" => worker'[w].left \subseteq Asked(w)'
  PROVE  Whole(k)'
  <1>0. Whole(k) /\ file'[k] = file[k]
    BY Origins DEF IInv, WholeOK
  <1>1. ASSUME NEW v \in Workers, v # w
        PROVE  /\ Busy(v, k)' <=> Busy(v, k)
               /\ worker'[v] = worker[v] /\ Asked(v)' = Asked(v)
    BY <1>1 DEF Busy, At, Path, Asked
  <1>2. ASSUME NEW x
        PROVE  Kept(k, x)' <=> Kept(k, x)
    BY <1>0, <1>1, BodyParts DEF Kept
  <1>3. ASSUME NEW v \in Workers, v # w, Busy(v, k)'
        PROVE  Rewritten(v, k)'
    <2>1. Busy(v, k) /\ Rewritten(v, k) /\ worker'[v] = worker[v] /\ Asked(v)' = Asked(v)
      BY <1>0, <1>1, <1>3 DEF Whole
    <2>2. worker[v].pc \in {"copy", "tidy"} => file'[worker[v].temp] = file[worker[v].temp]
      <3>1. worker[v].pc \in {"copy", "tidy"} =>
              worker[v].temp \in Keys /\ origin[worker[v].temp] = origin[Path(v)]
        BY DEF IInv, KeysOK, TypeInv, WorkerOK
      <3>2. Path(v) = k /\ origin[k] = k
        BY <2>1, Origins DEF Busy
      <3>. QED BY <3>1, <3>2
    <2>. QED BY <1>0, <1>2, <1>3, <2>1, <2>2 DEF Rewritten, At
  <1>4. ASSUME Busy(w, k)'
        PROVE  Rewritten(w, k)'
    BY <1>0, <1>2, <1>4, BodyParts DEF Rewritten, At
  <1>5. ASSUME NEW y \in Keys, origin'[y] = k, y # k, file'[y] # {}
        PROVE  \E v \in Workers : Busy(v, k)' /\ worker'[v].pc \in {"copy", "tidy"} /\ worker'[v].temp = y
    <2>1. PICK v \in Workers : Busy(v, k) /\ worker[v].pc \in {"copy", "tidy"} /\ worker[v].temp = y
      BY <1>0, <1>5 DEF Whole
    <2>2. v # w
      BY <2>1, BodyParts
    <2>. QED BY <2>1, <2>2, <1>1
  <1>6. \A x \in Others : Kept(k, x)'
    BY <1>0, <1>2 DEF Whole
  <1>7. \A c \in ConnectIds : status'[<<c, k>>] = "success" => ~Kept(k, c)'
    BY <1>0, <1>2 DEF Whole
  <1>. QED BY <1>3, <1>4, <1>5, <1>6, <1>7 DEF Whole

\* The steps of w rewrite the file k.
LEMMA WholeAt ==
  ASSUME IInv, NEW k \in 1 .. Paths, k \notin hurt,
         NEW w \in Workers, Busy(w, k), worker[w].pc \in Body \ {"release"},
         \A v \in Workers : v # w => worker'[v] = worker[v],
         status' = status,
         \A c \in ConnectIds : Kept(k, c)' => Kept(k, c),
         \A x \in Others : Kept(k, x)',
         Rewritten(w, k)',
         \A y \in Keys : origin'[y] = k /\ y # k /\ file'[y] # {} =>
            Busy(w, k)' /\ worker'[w].pc \in {"copy", "tidy"} /\ worker'[w].temp = y
  PROVE  Whole(k)'
  <1>0. Whole(k)
    BY DEF IInv, WholeOK
  <1>1. ASSUME NEW v \in Workers, v # w, Busy(v, k)'
        PROVE  Rewritten(v, k)'
    <2>1. worker'[v] = worker[v] /\ Busy(v, k) /\ Asked(v)' = Asked(v)
      BY <1>1 DEF Busy, At, Path, Asked
    <2>2. worker[v].pc \notin Body \ {"release"}
      BY <1>1, <2>1, OneAtATime
    <2>3. Rewritten(v, k)
      BY <1>0, <2>1 DEF Whole
    <2>4. Asked(v) \subseteq ConnectIds
      BY <2>1, AtWork DEF Busy, IInv
    <2>. QED BY <2>1, <2>2, <2>3, <2>4, BodyParts DEF Rewritten, At
  <1>2. \A c \in ConnectIds : status'[<<c, k>>] = "success" => ~Kept(k, c)'
    BY <1>0 DEF Whole
  <1>. QED BY <1>1, <1>2 DEF Whole

\* No worker does anything.
LEMMA WholeStays ==
  ASSUME IInv, NEW k \in 1 .. Paths, k \notin hurt, UNCHANGED <<file, origin, lock, worker>>,
         \A c \in ConnectIds : status'[<<c, k>>] = "success" => status[<<c, k>>] = "success"
  PROVE  Whole(k)'
  <1>0. Whole(k) /\ file' = file /\ origin' = origin /\ lock' = lock /\ worker' = worker
    BY DEF IInv, WholeOK
  <1>1. ASSUME NEW v \in Workers
        PROVE  (Busy(v, k)' <=> Busy(v, k)) /\ Asked(v)' = Asked(v)
    BY <1>0 DEF Busy, At, Path, Asked
  <1>2. ASSUME NEW x
        PROVE  Kept(k, x)' <=> Kept(k, x)
    BY <1>0, <1>1 DEF Kept
  <1>3. ASSUME NEW v \in Workers, Busy(v, k)'
        PROVE  Rewritten(v, k)'
    <2>1. Rewritten(v, k)
      BY <1>0, <1>1, <1>3 DEF Whole
    <2>. QED BY <1>0, <1>1, <1>2, <2>1 DEF Rewritten, At
  <1>4. ASSUME NEW y \in Keys, origin'[y] = k, y # k, file'[y] # {}
        PROVE  \E v \in Workers : Busy(v, k)' /\ worker'[v].pc \in {"copy", "tidy"} /\ worker'[v].temp = y
    BY <1>0, <1>1, <1>4 DEF Whole
  <1>5. \A x \in Others : Kept(k, x)'
    BY <1>0, <1>2 DEF Whole
  <1>6. \A c \in ConnectIds : status'[<<c, k>>] = "success" => ~Kept(k, c)'
    BY <1>0, <1>2 DEF Whole
  <1>. QED BY <1>3, <1>4, <1>5, <1>6 DEF Whole

\* What a step of a worker leaves alone.
LEMMA OthersStay ==
  ASSUME IInv, NEW w \in Workers,
         Proceed(w) \/ Raise(w) \/ Die(w) \/ \E m \in queue : Receive(w, m)
  PROVE  \A v \in Workers : v # w => worker'[v] = worker[v]
  BY Parts DEF IInv, Proceed, Raise, Die, Receive, Acquire, GiveUp, Read, Cut, Write, Copy, Tidy,
     Release, Mark, Finish, Goto

\* The rewriting of an exported file.
LEMMA WholeOfRewriting ==
  ASSUME IInv, NEW k \in 1 .. Paths, k \notin hurt, NEW w \in Workers, Busy(w, k),
         Cut(w) \/ Write(w) \/ Copy(w) \/ Tidy(w)
  PROVE  Whole(k)'
  <1>0. /\ file \in [Keys -> SUBSET Records] /\ origin \in [Keys -> Keys]
        /\ worker \in [Workers -> WorkerStates] /\ lastKey \in Nat
        /\ k \in Keys /\ k <= lastKey /\ origin[k] = k /\ Path(w) = k
        /\ Whole(k) /\ Rewritten(w, k) /\ k \in Nat
    BY Parts, Numbers, Origins DEF IInv, WholeOK, Whole, Busy
  <1>1. worker[w] \in WorkerStates /\ Asked(w) \subseteq ConnectIds /\ worker[w].rows \subseteq Records
    BY AtWork DEF Busy, IInv
  <1>2. worker[w].pc \in {"cut", "write", "copy", "tidy"}
    BY DEF Cut, Write, Copy, Tidy, At
  <1>3. \A v \in Workers : v # w => worker'[v] = worker[v]
    BY OthersStay DEF Proceed
  <1>4. ASSUME NEW v \in Workers, v # w
        PROVE  Busy(v, k) => worker[v].pc \notin {"write", "copy", "tidy"}
    BY <1>2, <1>4, OneAtATime, BodyParts
  <1>5. ASSUME NEW v \in Workers, v # w
        PROVE  Busy(v, k)' => worker'[v].pc \notin {"write", "copy", "tidy"}
    BY <1>3, <1>4, <1>5 DEF Busy, At, Path
  <1>6. ASSUME NEW x
        PROVE  /\ Kept(k, x) <=> x \in file[k] \/ (worker[w].pc \in {"write", "copy"} /\ x \in worker[w].rows)
               /\ Kept(k, x)' <=>
                    x \in file'[k] \/ (Busy(w, k)' /\ worker'[w].pc \in {"write", "copy"} /\ x \in worker'[w].rows)
    BY <1>4, <1>5 DEF Kept
  <1>7. ASSUME NEW y \in Keys, origin[y] = k, y # k, file[y] # {}
        PROVE  worker[w].pc \in {"copy", "tidy"} /\ worker[w].temp = y
    <2>1. PICK v \in Workers : Busy(v, k) /\ worker[v].pc \in {"copy", "tidy"} /\ worker[v].temp = y
      BY <1>0, <1>7 DEF Whole
    <2>. QED BY <1>4, <2>1
  <1>8. lock[k] = w /\ worker[w].pc \in Body \ {"release"}
    BY <1>0, <1>2, BodyParts DEF Rewritten
  <1>9. \A x \in Others : Kept(k, x) /\ x \notin Asked(w)
    BY <1>0, <1>1, ExciseBounds DEF Whole
  <1>10. CASE Cut(w)
    <2>1. /\ At(w, "cut") /\ file' = [file EXCEPT ![k] = {}] /\ UNCHANGED <<origin, lock, status>>
          /\ worker' = [worker EXCEPT ![w].pc = IF worker[w].rows = {} THEN "release" ELSE "write"]
      BY <1>0, <1>10 DEF Cut, Goto
    <2>2. /\ worker'[w].pc = (IF worker[w].rows = {} THEN "release" ELSE "write")
          /\ worker'[w].msg = worker[w].msg /\ worker'[w].rows = worker[w].rows
      BY <1>0, <1>1, <2>1 DEF WorkerStates
    <2>3. Busy(w, k)' /\ Asked(w)' = Asked(w)
      BY <1>0, <2>2 DEF Busy, At, Path, Asked
    <2>4. worker[w].rows = file[k] \ Asked(w) /\ file'[k] = {}
      BY <1>0, <2>1 DEF Rewritten
    <2>5. Others \subseteq worker[w].rows
      BY <1>6, <1>9, <2>1, <2>4 DEF At
    <2>6. \A x : Kept(k, x)' <=> x \in worker[w].rows
      BY <1>6, <2>2, <2>3, <2>4
    <2>7. \A c \in ConnectIds : Kept(k, c)' => Kept(k, c)
      BY <1>6, <2>4, <2>6
    <2>8. Rewritten(w, k)'
      BY <1>8, <2>1, <2>2, <2>3, <2>4, <2>5, <2>6, BodyParts DEF Rewritten, At
    <2>9. \A y \in Keys : ~(origin'[y] = k /\ y # k /\ file'[y] # {})
      BY <1>0, <1>7, <2>1 DEF At
    <2>. QED BY <1>3, <1>8, <2>1, <2>5, <2>6, <2>7, <2>8, <2>9, WholeAt
  <1>11. CASE Write(w)
    <2>1. /\ At(w, "write") /\ lastKey' = lastKey + 1 /\ lastKey' \in Keys
          /\ file' = [file EXCEPT ![lastKey'] = worker[w].rows]
          /\ origin' = [origin EXCEPT ![lastKey'] = k] /\ UNCHANGED <<lock, status>>
          /\ worker' = [worker EXCEPT ![w].pc = "copy", ![w].temp = lastKey']
      BY <1>0, <1>11, Numbers DEF Write, Keys
    <2>2. /\ worker'[w].pc = "copy" /\ worker'[w].temp = lastKey'
          /\ worker'[w].msg = worker[w].msg /\ worker'[w].rows = worker[w].rows
      BY <1>0, <1>1, <2>1 DEF WorkerStates
    <2>3. Busy(w, k)' /\ Asked(w)' = Asked(w)
      BY <1>0, <2>2 DEF Busy, At, Path, Asked
    <2>4. /\ worker[w].rows \cap Asked(w) = {} /\ file[k] = {} /\ Others \subseteq worker[w].rows
          /\ file'[k] = {} /\ file'[lastKey'] = worker[w].rows
      BY <1>0, <2>1, BodyParts DEF Rewritten, At
    <2>5. \A x : Kept(k, x)' <=> Kept(k, x)
      BY <1>6, <2>1, <2>2, <2>3, <2>4 DEF At
    <2>6. Rewritten(w, k)'
      BY <1>8, <2>1, <2>2, <2>3, <2>4, BodyParts DEF Rewritten, At
    <2>7. \A y \in Keys : origin'[y] = k /\ y # k /\ file'[y] # {} => y = lastKey'
      BY <1>0, <1>7, <2>1 DEF At
    <2>. QED BY <1>3, <1>8, <1>9, <2>1, <2>2, <2>3, <2>5, <2>6, <2>7, WholeAt
  <1>12. CASE Copy(w)
    <2>1. /\ At(w, "copy") /\ file' = [file EXCEPT ![k] = file[worker[w].temp]]
          /\ UNCHANGED <<origin, lock, status>> /\ worker' = [worker EXCEPT ![w].pc = "tidy"]
      BY <1>0, <1>12 DEF Copy, Goto
    <2>2. /\ worker'[w].pc = "tidy" /\ worker'[w].temp = worker[w].temp
          /\ worker'[w].msg = worker[w].msg /\ worker'[w].rows = worker[w].rows
      BY <1>0, <1>1, <2>1 DEF WorkerStates
    <2>3. Busy(w, k)' /\ Asked(w)' = Asked(w)
      BY <1>0, <2>2 DEF Busy, At, Path, Asked
    <2>4. /\ worker[w].rows \cap Asked(w) = {} /\ file[k] = {}
          /\ file[worker[w].temp] = worker[w].rows /\ file'[k] = worker[w].rows
      BY <1>0, <2>1, BodyParts DEF Rewritten, At
    <2>5. worker[w].temp \in Keys /\ worker[w].temp # k
      BY <2>1, Numbers DEF IInv, KeysOK, TypeInv, WorkerOK, At
    <2>6. file'[worker[w].temp] = worker[w].rows
      BY <1>0, <2>1, <2>4, <2>5
    <2>7. \A x : Kept(k, x)' <=> Kept(k, x)
      BY <1>6, <2>1, <2>2, <2>3, <2>4 DEF At
    <2>8. Rewritten(w, k)'
      BY <1>8, <2>1, <2>2, <2>3, <2>4, <2>6, BodyParts DEF Rewritten, At
    <2>9. \A y \in Keys : origin'[y] = k /\ y # k /\ file'[y] # {} => worker[w].temp = y
      BY <1>0, <1>7, <2>1
    <2>. QED BY <1>3, <1>8, <1>9, <2>1, <2>2, <2>3, <2>7, <2>8, <2>9, WholeAt
  <1>13. CASE Tidy(w)
    <2>1. /\ At(w, "tidy") /\ file' = [file EXCEPT ![worker[w].temp] = {}]
          /\ UNCHANGED <<origin, lock, status>> /\ worker' = [worker EXCEPT ![w].pc = "release"]
      BY <1>0, <1>13 DEF Tidy, Goto
    <2>2. /\ worker'[w].pc = "release" /\ worker'[w].msg = worker[w].msg
      BY <1>0, <1>1, <2>1 DEF WorkerStates
    <2>3. Busy(w, k)' /\ Asked(w)' = Asked(w)
      BY <1>0, <2>2 DEF Busy, At, Path, Asked
    <2>4. worker[w].rows \cap Asked(w) = {} /\ file[k] = worker[w].rows
      BY <1>0, <2>1, BodyParts DEF Rewritten, At
    <2>5. worker[w].temp \in Keys /\ worker[w].temp # k
      BY <2>1, Numbers DEF IInv, KeysOK, TypeInv, WorkerOK, At
    <2>6. file'[k] = file[k]
      BY <1>0, <2>1, <2>5
    <2>7. \A x : (Kept(k, x)' <=> Kept(k, x)) /\ (Kept(k, x)' <=> x \in worker[w].rows)
      BY <1>6, <2>1, <2>2, <2>3, <2>4, <2>6 DEF At
    <2>8. Rewritten(w, k)'
      BY <2>1, <2>2, <2>3, <2>4, <2>7, BodyParts DEF Rewritten, At
    <2>9. \A y \in Keys : ~(origin'[y] = k /\ y # k /\ file'[y] # {})
      BY <1>0, <1>7, <2>1, <2>5
    <2>. QED BY <1>3, <1>8, <1>9, <2>1, <2>7, <2>8, <2>9, WholeAt
  <1>. QED BY <1>10, <1>11, <1>12, <1>13

\* The rewriting of another file, or of a copy somebody left behind.
LEMMA WholeElsewhere ==
  ASSUME IInv, NEW k \in 1 .. Paths, k \notin hurt, NEW w \in Workers, ~Busy(w, k),
         Cut(w) \/ Write(w) \/ Copy(w) \/ Tidy(w)
  PROVE  Whole(k)'
  <1>0. /\ file \in [Keys -> SUBSET Records] /\ origin \in [Keys -> Keys]
        /\ worker \in [Workers -> WorkerStates] /\ lastKey \in Nat /\ k \in Nat
        /\ k \in Keys /\ k <= lastKey /\ origin[k] = k
    BY Parts, Numbers, Origins DEF IInv
  <1>1. worker[w].pc \in {"cut", "write", "copy", "tidy"} /\ ~At(w, "idle")
    BY DEF Cut, Write, Copy, Tidy, At
  <1>2. \A v \in Workers : v # w => worker'[v] = worker[v]
    BY OthersStay DEF Proceed
  <1>3. /\ Path(w) \in Keys /\ Path(w) # k /\ origin[Path(w)] # k
        /\ worker[w].pc \in {"copy", "tidy"} => worker[w].temp \in Keys /\ origin[worker[w].temp] # k
    BY <1>1, Elsewhere
  <1>4. worker'[w].msg = worker[w].msg /\ UNCHANGED <<lock, status>>
    <2>1. \E pc, t : worker' = [worker EXCEPT ![w].pc = pc] \/ worker' = [worker EXCEPT ![w].pc = pc, ![w].temp = t]
      BY DEF Cut, Write, Copy, Tidy, Goto
    <2>2. worker[w] \in WorkerStates
      BY <1>0
    <2>. QED BY <1>0, <2>1, <2>2 DEF WorkerStates, Cut, Write, Copy, Tidy
  <1>5. ~Busy(w, k)'
    BY <1>3, <1>4 DEF Busy, Path
  <1>6. \A v \in Workers : v # w /\ Busy(v, k) /\ worker[v].pc \in Body \ {"release"} => lock'[k] = v
    BY <1>4 DEF IInv, WholeOK, Whole, Rewritten
  <1>7. \A y \in Keys : (origin'[y] = k <=> origin[y] = k) /\ (origin[y] = k => file'[y] = file[y])
    <2>1. CASE Write(w)
      <3>1. /\ lastKey' = lastKey + 1 /\ lastKey' \in Keys
            /\ file' = [file EXCEPT ![lastKey'] = worker[w].rows]
            /\ origin' = [origin EXCEPT ![lastKey'] = origin[Path(w)]]
        BY <1>0, <2>1, Numbers DEF Write, Keys
      <3>2. origin[lastKey'] = lastKey' /\ lastKey' # k
        BY <1>0, <3>1 DEF IInv, KeysOK
      <3>. QED BY <1>0, <1>3, <3>1, <3>2
    <2>2. CASE Cut(w) \/ Copy(w)
      <3>1. \E f : file' = [file EXCEPT ![Path(w)] = f]
        BY <2>2 DEF Cut, Copy
      <3>. QED BY <1>0, <1>3, <2>2, <3>1 DEF Cut, Copy
    <2>3. CASE Tidy(w)
      <3>1. worker[w].pc = "tidy" /\ file' = [file EXCEPT ![worker[w].temp] = {}] /\ origin' = origin
        BY <2>3 DEF Tidy, At
      <3>. QED BY <1>0, <1>3, <3>1
    <2>. QED BY <2>1, <2>2, <2>3
  <1>. QED BY <1>2, <1>4, <1>5, <1>6, <1>7, WholeBesides

LEMMA WholeOfExcise ==
  ASSUME IInv, ExciseNext, NEW k \in 1 .. Paths, k \notin hurt'
  PROVE  Whole(k)'
  <1>0. /\ file \in [Keys -> SUBSET Records] /\ origin \in [Keys -> Keys]
        /\ lock \in [Keys -> Workers \cup {Nobody}] /\ Nobody \notin Workers
        /\ worker \in [Workers -> WorkerStates] /\ k \in Keys /\ origin[k] = k
        /\ status \in [ConnectIds \X Keys -> Statuses \cup {NoStatus}]
    BY Parts, Origins, ExciseBounds DEF IInv
  <1>1. k \notin hurt
    BY DEF ExciseNext, Proceed, Receive, Acquire, GiveUp, Read, Cut, Write, Copy, Tidy, Release, Mark,
       Finish, Raise, Die, LeftAt, LapseOfDead, LapseOfLiving
  <1>2. Whole(k)
    BY <1>1 DEF IInv, WholeOK
  <1>3. ASSUME NEW v \in Workers, Busy(v, k), worker[v].pc \in Body \ {"release"}
        PROVE  lock[k] = v
    BY <1>2, <1>3 DEF Whole, Rewritten
  <1>i. Idle \in WorkerStates /\ Idle.pc = "idle"
    BY IdleParts
  <1>4. ASSUME NEW w \in Workers, UNCHANGED <<file, origin, status>>, worker' = [worker EXCEPT ![w] = Idle],
               \A v \in Workers : v # w /\ Busy(v, k) /\ worker[v].pc \in Body \ {"release"} => lock'[k] = v,
               Busy(w, k) => worker[w].pc \notin Rewriting
        PROVE  Whole(k)'
    <2>1. ~Busy(w, k)' /\ \A v \in Workers : v # w => worker'[v] = worker[v]
      BY <1>0, <1>i, <1>4 DEF Busy, At
    <2>. QED BY <1>1, <1>4, <2>1, WholeBesides
  <1>5. ASSUME NEW w \in Workers, NEW m \in queue, Receive(w, m)
        PROVE  Whole(k)'
    <2> DEFINE new == [Idle EXCEPT !.pc = "wait", !.msg = m]
    <2>1. worker' = [worker EXCEPT ![w] = new] /\ new.pc = "wait"
      BY <1>5, <1>i DEF Receive, WorkerStates
    <2> HIDE DEF new
    <2>2. worker'[w].pc = "wait" /\ \A v \in Workers : v # w => worker'[v] = worker[v]
      BY <1>0, <2>1
    <2>3. ~Busy(w, k) /\ UNCHANGED <<file, origin, lock, status>>
      BY <1>5 DEF Receive, Busy, fileVars
    <2>. QED BY <1>1, <1>3, <2>2, <2>3, BodyParts, WholeBesides
  <1>6. ASSUME NEW w \in Workers, Acquire(w)
        PROVE  Whole(k)'
    <2>1. /\ At(w, "wait") /\ UNCHANGED <<file, origin, status>>
          /\ lock' = [lock EXCEPT ![Path(w)] = w] /\ worker' = [worker EXCEPT ![w].pc = "read"]
      BY <1>6 DEF Acquire, Goto
    <2>2. worker'[w].pc = "read" /\ worker'[w].msg = worker[w].msg
          /\ \A v \in Workers : v # w => worker'[v] = worker[v]
      BY <1>0, <2>1 DEF WorkerStates
    <2>3. Path(w) \in Keys
      BY <2>1, AtWork DEF At, IInv
    <2>4. Busy(w, k)' => Path(w) = k
      BY <2>2 DEF Busy, Path
    <2>5. ASSUME NEW v \in Workers, v # w, Busy(v, k), worker[v].pc \in Body \ {"release"}
          PROVE  lock'[k] = v
      <3>1. lock[k] = v
        BY <1>3, <2>5
      <3>2. ASSUME Path(w) = k
            PROVE  FALSE
        <4>1. k \in lapsed
          BY <1>0, <1>6, <3>1, <3>2 DEF Acquire, LockFree
        <4>2. Overtakes(w)
          BY <2>5, <3>2 DEF Overtakes, Busy
        <4>. QED BY <1>0, <1>6, <3>2, <4>1, <4>2 DEF Acquire
      <3>. QED BY <1>0, <2>1, <2>3, <3>1, <3>2
    <2>6. worker[w].pc \notin Rewriting /\ (Busy(w, k)' => lock'[k] = w)
      BY <1>0, <2>1, <2>4, BodyParts DEF At
    <2>7. worker'[w].pc \notin Rewriting
      BY <2>2, BodyParts
    <2>. QED BY <1>1, <2>1, <2>2, <2>5, <2>6, <2>7, WholeBesides
  <1>7. ASSUME NEW w \in Workers, GiveUp(w) \/ Finish(w)
        PROVE  Whole(k)'
    <2>1. worker[w].pc \notin Rewriting /\ UNCHANGED <<file, origin, lock, status>>
          /\ worker' = [worker EXCEPT ![w] = Idle]
      BY <1>7, BodyParts DEF GiveUp, Finish, At
    <2>. QED BY <1>3, <1>4, <2>1
  <1>8. ASSUME NEW w \in Workers, Read(w)
        PROVE  Whole(k)'
    <2>1. At(w, "read") /\ UNCHANGED <<file, origin, lock, status>>
      BY <1>8 DEF Read
    <2>2. \A v \in Workers : v # w => worker'[v] = worker[v]
      BY <1>8, OthersStay DEF Proceed
    <2>3. /\ worker'[w].msg = worker[w].msg
          /\ \/ file[Path(w)] = {} /\ worker'[w].pc = "release"
             \/ worker'[w].pc = "cut" /\ worker'[w].rows = RowsLeft(w)
      BY <1>0, <1>8 DEF Read, WorkerStates
    <2>4. Path(w)' = Path(w) /\ Asked(w)' = Asked(w)
      BY <2>3 DEF Path, Asked
    <2>5. Busy(w, k)' => Busy(w, k)
      BY <2>1, <2>4 DEF Busy, At
    <2>6. Busy(w, k) => lock[k] = w
      BY <1>3, <2>1, BodyParts DEF At
    <2>7. ASSUME Busy(w, k), file[k] = {}, NEW c
          PROVE  ~Kept(k, c)
      <3>1. \A v \in Workers : Busy(v, k) /\ worker[v].pc \in {"write", "copy"} => v = w
        BY <1>1, <2>1, <2>7, OneAtATime, BodyParts DEF At
      <3>. QED BY <2>1, <2>7, <3>1 DEF Kept, At
    <2>8. Busy(w, k) => Path(w) = k
      BY DEF Busy
    <2>9. worker[w].pc \notin Rewriting /\ worker'[w].pc \notin Rewriting /\ worker'[w].pc # "mark"
      BY <2>1, <2>3, BodyParts DEF At
    <2>. QED BY <1>1, <1>3, <2>1, <2>2, <2>3, <2>4, <2>5, <2>6, <2>7, <2>8, <2>9, WholeBesides DEF RowsLeft
  <1>9. ASSUME NEW w \in Workers, Cut(w) \/ Write(w) \/ Copy(w) \/ Tidy(w)
        PROVE  Whole(k)'
    BY <1>1, <1>9, WholeOfRewriting, WholeElsewhere
  <1>10. ASSUME NEW w \in Workers, Release(w)
         PROVE  Whole(k)'
    <2>1. /\ At(w, "release") /\ UNCHANGED <<file, origin, status>>
          /\ lock' = [lock EXCEPT ![Path(w)] = IF @ = w THEN Nobody ELSE @]
          /\ worker' = [worker EXCEPT ![w].pc = "mark", ![w].left = Asked(w)]
      BY <1>10 DEF Release, ReleaseOwn
    <2>2. /\ worker'[w].pc = "mark" /\ worker'[w].msg = worker[w].msg /\ worker'[w].left = Asked(w)
          /\ \A v \in Workers : v # w => worker'[v] = worker[v]
      BY <1>0, <2>1 DEF WorkerStates
    <2>3. Asked(w)' = Asked(w) /\ (Busy(w, k)' => Busy(w, k))
      BY <2>1, <2>2 DEF Busy, At, Path, Asked
    <2>4. \A v \in Workers : v # w /\ Busy(v, k) /\ worker[v].pc \in Body \ {"release"} => lock'[k] = v
      BY <1>0, <1>3, <2>1
    <2>5. Busy(w, k) => \A c \in Asked(w) : ~Kept(k, c)
      BY <1>2, <2>1 DEF Whole, Rewritten, At
    <2>6. worker[w].pc \notin Rewriting /\ worker'[w].pc \notin Rewriting
      BY <2>1, <2>2, BodyParts DEF At
    <2>7. Busy(w, k)' => (\A c \in Asked(w)' : ~Kept(k, c)) /\ worker'[w].left \subseteq Asked(w)'
      BY <2>2, <2>3, <2>5
    <2>8. UNCHANGED <<file, origin, status>>
      BY <2>1
    <2>. QED BY <1>1, <2>2, <2>4, <2>6, <2>7, <2>8, WholeBesides
  <1>11. ASSUME NEW w \in Workers, NEW c \in ConnectIds, Mark(w, c)
         PROVE  Whole(k)'
    <2>1. /\ At(w, "mark") /\ c \in worker[w].left /\ UNCHANGED <<file, origin, lock>>
          /\ status' = [status EXCEPT ![<<c, Path(w)>>] = Reported]
          /\ worker' = [worker EXCEPT ![w].left = @ \ {c}]
      BY <1>11 DEF Mark
    <2>2. /\ worker'[w].pc = "mark" /\ worker'[w].msg = worker[w].msg
          /\ worker'[w].left \subseteq worker[w].left
          /\ \A v \in Workers : v # w => worker'[v] = worker[v]
      BY <1>0, <2>1 DEF WorkerStates, At
    <2>3. Asked(w)' = Asked(w) /\ (Busy(w, k)' => Busy(w, k))
      BY <2>1, <2>2 DEF Busy, At, Path, Asked
    <2>4. Busy(w, k) => worker[w].left \subseteq Asked(w) /\ \A d \in Asked(w) : ~Kept(k, d)
      BY <1>2, <2>1 DEF Whole, Rewritten, At
    <2>5. ASSUME NEW d \in ConnectIds, status'[<<d, k>>] = "success"
          PROVE  status[<<d, k>>] = "success" \/ ~Kept(k, d)
      <3>1. CASE d = c /\ Path(w) = k
        BY <2>1, <2>4, <3>1 DEF Busy, At
      <3>2. CASE ~(d = c /\ Path(w) = k)
        <4>1. <<d, k>> # <<c, Path(w)>>
          BY <3>2
        <4>2. status'[<<d, k>>] = status[<<d, k>>]
          BY <1>0, <2>1, <4>1
        <4>. QED BY <2>5, <4>2
      <3>. QED BY <3>1, <3>2
    <2>6. worker[w].pc \notin Rewriting /\ worker'[w].pc \notin Rewriting
      BY <2>1, <2>2, BodyParts DEF At
    <2>. QED BY <1>1, <1>3, <2>1, <2>2, <2>3, <2>4, <2>5, <2>6, WholeBesides
  <1>12. ASSUME NEW w \in Workers, Raise(w) \/ Die(w)
         PROVE  Whole(k)'
    <2>1. UNCHANGED <<file, origin, status>> /\ worker' = [worker EXCEPT ![w] = Idle] /\ LeftAt(w)
          /\ (lock' = lock \/ ReleaseOwn(w))
      BY <1>12 DEF Raise, Die
    <2>2. Busy(w, k) => worker[w].pc \notin Rewriting
      BY <1>0, <2>1 DEF LeftAt, Busy
    <2>3. \A v \in Workers : v # w /\ Busy(v, k) /\ worker[v].pc \in Body \ {"release"} => lock'[k] = v
      BY <1>0, <1>3, <2>1 DEF ReleaseOwn
    <2>. QED BY <1>4, <2>1, <2>2, <2>3
  <1>13. ASSUME NEW l \in Keys, LapseOfDead(l) \/ LapseOfLiving(l)
         PROVE  Whole(k)'
    BY <1>1, <1>13, WholeStays DEF LapseOfDead, LapseOfLiving
  <1>. QED BY <1>5, <1>6, <1>7, <1>8, <1>9, <1>10, <1>11, <1>12, <1>13 DEF ExciseNext, Proceed

----------------------------------------------------------------------------
(* Keys *)

\* A key that stays goes on to stay.
LEMMA StaysOn ==
  ASSUME IInv, lastKey' \in Nat, lastKey <= lastKey', hurt \subseteq hurt',
         \A y \in 1 .. lastKey : origin'[y] = origin[y],
         NEW k, Stays(k)
  PROVE  Stays(k)'
  <1>1. lastKey \in Nat
    BY Parts, Numbers DEF IInv
  <1>2. CASE k \in 1 .. Paths
    BY <1>2 DEF Stays
  <1>3. CASE k \in 1 .. lastKey /\ origin[k] \in hurt
    <2>1. k \in 1 .. lastKey' /\ origin'[k] = origin[k]
      BY <1>1, <1>3
    <2>. QED BY <1>3, <2>1 DEF Stays
  <1>. QED BY <1>2, <1>3 DEF Stays

LEMMA KeysOfStep ==
  ASSUME IInv, NEW w \in Workers, \A v \in Workers : v # w => worker'[v] = worker[v],
         UNCHANGED <<origin, lastKey, purgeVars>>, queue' \subseteq queue, hurt \subseteq hurt',
         \A y \in Keys : y > lastKey => file'[y] = {},
         worker'[w].pc # "idle" => Stays(worker'[w].msg.path),
         worker'[w].pc \in {"copy", "tidy"} =>
           /\ worker[w].pc \in {"copy", "tidy"} /\ worker'[w].temp = worker[w].temp
           /\ worker'[w].msg = worker[w].msg
  PROVE  KeysOK'
  <1>1. KeysOK /\ origin' = origin /\ lastKey' = lastKey /\ found' = found /\ purge' = purge /\ lastKey \in Nat
    BY Parts, Numbers DEF IInv, purgeVars
  <1>2. ASSUME NEW k, Stays(k)
        PROVE  Stays(k)'
    BY <1>1, <1>2, StaysOn
  <1>3. ASSUME NEW v \in Workers
        PROVE  /\ ~At(v, "idle")' => Stays(Path(v))'
               /\ worker'[v].pc \in {"copy", "tidy"} =>
                    /\ worker'[v].temp \in (Paths + 1) .. lastKey'
                    /\ origin'[worker'[v].temp] = origin'[Path(v)']
    <2>1. CASE v = w
      BY <1>1, <1>2, <2>1 DEF KeysOK, At, Path
    <2>2. CASE v # w
      BY <1>1, <1>2, <2>2 DEF KeysOK, At, Path
    <2>. QED BY <2>1, <2>2
  <1>4. /\ \A m \in queue' : Stays(m.path)'
        /\ \A c \in ConnectIds : \A k \in found'[c] : Stays(k)'
        /\ \A r \in Runs : \A k \in purge'[r].left : Stays(k)'
    BY <1>1, <1>2 DEF KeysOK
  <1>5. /\ \A k \in 1 .. Paths : origin'[k] = k
        /\ \A k \in 1 .. lastKey' : origin'[k] \in 1 .. Paths
        /\ \A k \in Keys : k > lastKey' => file'[k] = {} /\ origin'[k] = k
    BY <1>1 DEF KeysOK
  <1>. QED BY <1>3, <1>4, <1>5 DEF KeysOK

LEMMA KeysOfWrite ==
  ASSUME IInv, NEW w \in Workers, Write(w), UNCHANGED purgeVars
  PROVE  KeysOK'
  <1>0. /\ file \in [Keys -> SUBSET Records] /\ origin \in [Keys -> Keys]
        /\ worker \in [Workers -> WorkerStates] /\ lastKey \in Nat /\ Paths \in Nat /\ Paths <= lastKey
        /\ KeysOK /\ MaxKeys \in Nat
    BY Parts, Numbers DEF IInv
  <1>1. /\ At(w, "write") /\ lastKey' = lastKey + 1 /\ lastKey' \in Keys /\ lastKey' \in Nat
        /\ file' = [file EXCEPT ![lastKey'] = worker[w].rows]
        /\ origin' = [origin EXCEPT ![lastKey'] = origin[Path(w)]] /\ UNCHANGED <<queue, hurt, found, purge>>
        /\ worker' = [worker EXCEPT ![w].pc = "copy", ![w].temp = lastKey']
    BY <1>0, Numbers DEF Write, Keys, purgeVars
  <1>2. /\ worker'[w].pc = "copy" /\ worker'[w].temp = lastKey' /\ worker'[w].msg = worker[w].msg
        /\ \A v \in Workers : v # w => worker'[v] = worker[v]
    BY <1>0, <1>1 DEF WorkerStates
  <1>3. \A y \in 1 .. lastKey : y \in Keys /\ origin'[y] = origin[y]
    BY <1>0, <1>1, Numbers DEF Keys
  <1>4. ASSUME NEW k, Stays(k)
        PROVE  Stays(k)' /\ k \in 1 .. lastKey
    BY <1>0, <1>1, <1>3, <1>4, StaysOn DEF Stays
  <1>5. Stays(Path(w)) /\ Path(w) \in 1 .. lastKey
    BY <1>0, <1>1, <1>4 DEF KeysOK, At
  <1>6. ASSUME NEW v \in Workers
        PROVE  /\ ~At(v, "idle")' => Stays(Path(v))'
               /\ worker'[v].pc \in {"copy", "tidy"} =>
                    /\ worker'[v].temp \in (Paths + 1) .. lastKey'
                    /\ origin'[worker'[v].temp] = origin'[Path(v)']
    <2>1. CASE v = w
      <3>1. Path(v)' = Path(w) /\ origin'[lastKey'] = origin[Path(w)] /\ origin'[Path(w)] = origin[Path(w)]
        BY <1>0, <1>1, <1>2, <1>3, <1>5, <2>1 DEF Path
      <3>2. Stays(Path(v))'
        BY <1>2, <1>4, <1>5, <2>1 DEF Path
      <3>. QED BY <1>0, <1>1, <1>2, <2>1, <3>1, <3>2
    <2>2. CASE v # w
      <3>1. worker'[v] = worker[v] /\ Path(v)' = Path(v) /\ (~At(v, "idle") => Stays(Path(v)) /\ Path(v) \in 1 .. lastKey)
        BY <1>0, <1>2, <1>4, <2>2 DEF KeysOK, Path
      <3>2. ~At(v, "idle")' => Stays(Path(v))'
        BY <1>4, <3>1 DEF At, Path
      <3>3. worker[v].pc \in {"copy", "tidy"} =>
              /\ worker[v].temp \in 1 .. lastKey /\ worker[v].temp \in (Paths + 1) .. lastKey'
              /\ origin[worker[v].temp] = origin[Path(v)] /\ ~At(v, "idle")
        BY <1>0, <1>1 DEF KeysOK, At
      <3>. QED BY <1>3, <3>1, <3>2, <3>3
    <2>. QED BY <2>1, <2>2
  <1>7. /\ \A m \in queue' : Stays(m.path)'
        /\ \A c \in ConnectIds : \A k \in found'[c] : Stays(k)'
        /\ \A r \in Runs : \A k \in purge'[r].left : Stays(k)'
    BY <1>0, <1>1, <1>4 DEF KeysOK
  <1>8. \A k \in 1 .. Paths : origin'[k] = k
    BY <1>0, <1>3 DEF KeysOK
  <1>9. \A k \in 1 .. lastKey' : origin'[k] \in 1 .. Paths
    <2> TAKE k \in 1 .. lastKey'
    <2>1. CASE k = lastKey'
      BY <1>0, <1>1, <1>5, <2>1 DEF KeysOK
    <2>2. CASE k # lastKey'
      <3>1. k \in 1 .. lastKey
        BY <1>0, <1>1, <2>2
      <3>. QED BY <1>0, <1>3, <3>1 DEF KeysOK
    <2>. QED BY <2>1, <2>2
  <1>10. \A k \in Keys : k > lastKey' => file'[k] = {} /\ origin'[k] = k
    BY <1>0, <1>1, Numbers DEF KeysOK
  <1>. QED BY <1>6, <1>7, <1>8, <1>9, <1>10 DEF KeysOK

LEMMA KeysOfExcise ==
  ASSUME IInv, ExciseNext, UNCHANGED purgeVars
  PROVE  KeysOK'
  <1>0. /\ file \in [Keys -> SUBSET Records] /\ origin \in [Keys -> Keys] /\ lastKey \in Nat
        /\ worker \in [Workers -> WorkerStates] /\ KeysOK /\ TypeInv
        /\ \A k \in Keys : k \in Nat /\ (k > lastKey => file[k] = {})
    BY Parts, Numbers DEF IInv, KeysOK
  <1>i. Idle \in WorkerStates /\ Idle.pc = "idle"
    BY IdleParts
  <1>1. hurt \subseteq hurt'
    BY DEF ExciseNext, Proceed, Receive, Acquire, GiveUp, Read, Cut, Write, Copy, Tidy, Release, Mark,
       Finish, Raise, Die, LeftAt, LapseOfDead, LapseOfLiving
  <1>2. ASSUME NEW w \in Workers, ~At(w, "idle")
        PROVE  Stays(Path(w)) /\ Path(w) \in Keys /\ Path(w) <= lastKey
    <2>1. Stays(Path(w))
      BY <1>0, <1>2 DEF KeysOK
    <2>2. Path(w) \in Keys
      BY <1>2, AtWork DEF IInv
    <2>3. \A k \in 1 .. Paths : k <= lastKey
      BY Origins DEF IInv
    <2>. QED BY <1>0, <2>1, <2>2, <2>3 DEF Stays
  <1>3. ASSUME NEW w \in Workers, NEW m \in queue, Receive(w, m)
        PROVE  KeysOK'
    <2> DEFINE new == [Idle EXCEPT !.pc = "wait", !.msg = m]
    <2>1. worker' = [worker EXCEPT ![w] = new] /\ new.pc = "wait" /\ new.msg = m
      BY <1>3, <1>i DEF Receive, WorkerStates
    <2> HIDE DEF new
    <2>2. worker'[w].pc = "wait" /\ worker'[w].msg = m
      BY <1>0, <2>1
    <2>3. Stays(m.path)
      BY <1>0 DEF KeysOK
    <2>4. \A v \in Workers : v # w => worker'[v] = worker[v]
      BY <1>0, <2>1
    <2>. QED BY <1>0, <1>1, <1>3, <2>2, <2>3, <2>4, KeysOfStep DEF Receive, fileVars
  <1>4. ASSUME NEW w \in Workers,
               Acquire(w) \/ Read(w) \/ Release(w) \/ (\E c \in ConnectIds : Mark(w, c)) \/ Cut(w)
        PROVE  KeysOK'
    <2>1. ~At(w, "idle")
      BY <1>4 DEF Acquire, Read, Release, Mark, Cut, At
    <2>2. worker'[w].msg = worker[w].msg /\ worker'[w].pc \notin {"copy", "tidy"}
      <3>1. worker[w] \in WorkerStates
        BY <1>0
      <3>2. CASE Acquire(w) \/ Cut(w)
        BY <1>0, <3>1, <3>2 DEF Acquire, Cut, Goto, WorkerStates
      <3>3. CASE Read(w)
        BY <1>0, <3>1, <3>3 DEF Read, WorkerStates
      <3>4. CASE Release(w)
        BY <1>0, <3>1, <3>4 DEF Release, WorkerStates
      <3>5. ASSUME NEW c \in ConnectIds, Mark(w, c)
            PROVE  worker'[w].msg = worker[w].msg /\ worker'[w].pc \notin {"copy", "tidy"}
        BY <1>0, <3>1, <3>5 DEF Mark, WorkerStates, At
      <3>. QED BY <1>4, <3>2, <3>3, <3>4, <3>5
    <2>3. \A v \in Workers : v # w => worker'[v] = worker[v]
      BY <1>4, OthersStay DEF Proceed
    <2>4. \A y \in Keys : y > lastKey => file'[y] = {}
      BY <1>0, <1>2, <1>4, <2>1 DEF Acquire, Read, Release, Mark, Cut
    <2>5. UNCHANGED <<origin, lastKey, queue>>
      BY <1>4 DEF Acquire, Read, Release, Mark, Cut
    <2>6. Stays(worker'[w].msg.path)
      BY <1>2, <2>1, <2>2 DEF Path
    <2>. QED BY <1>1, <2>2, <2>3, <2>4, <2>5, <2>6, KeysOfStep
  <1>5. ASSUME NEW w \in Workers, GiveUp(w) \/ Finish(w) \/ Raise(w) \/ Die(w)
        PROVE  KeysOK'
    <2>1. /\ worker' = [worker EXCEPT ![w] = Idle] /\ UNCHANGED <<file, origin, lastKey>>
          /\ queue' \subseteq queue
      BY <1>5 DEF GiveUp, Finish, Raise, Die
    <2>2. worker'[w].pc = "idle" /\ \A v \in Workers : v # w => worker'[v] = worker[v]
      BY <1>0, <1>i, <2>1
    <2>. QED BY <1>0, <1>1, <2>1, <2>2, KeysOfStep
  <1>6. ASSUME NEW w \in Workers, Write(w)
        PROVE  KeysOK'
    BY <1>6, KeysOfWrite
  <1>7. ASSUME NEW w \in Workers, Copy(w)
        PROVE  KeysOK'
    <2>1. /\ ~At(w, "idle") /\ worker[w].pc = "copy" /\ UNCHANGED <<origin, lastKey, queue>>
          /\ file' = [file EXCEPT ![Path(w)] = file[worker[w].temp]]
          /\ worker' = [worker EXCEPT ![w].pc = "tidy"]
      BY <1>7 DEF Copy, Goto, At
    <2>2. /\ worker'[w].msg = worker[w].msg /\ worker'[w].pc = "tidy" /\ worker'[w].temp = worker[w].temp
          /\ \A v \in Workers : v # w => worker'[v] = worker[v]
      BY <1>0, <2>1 DEF WorkerStates
    <2>3. \A y \in Keys : y > lastKey => file'[y] = {}
      BY <1>0, <1>2, <2>1
    <2>4. Stays(worker'[w].msg.path)
      BY <1>2, <2>1, <2>2 DEF Path
    <2>. QED BY <1>1, <2>1, <2>2, <2>3, <2>4, KeysOfStep
  <1>8. ASSUME NEW w \in Workers, Tidy(w)
        PROVE  KeysOK'
    <2>1. /\ ~At(w, "idle") /\ UNCHANGED <<origin, lastKey, queue>>
          /\ file' = [file EXCEPT ![worker[w].temp] = {}]
          /\ worker' = [worker EXCEPT ![w].pc = "release"]
      BY <1>8 DEF Tidy, Goto, At
    <2>2. /\ worker'[w].msg = worker[w].msg /\ worker'[w].pc = "release"
          /\ \A v \in Workers : v # w => worker'[v] = worker[v]
      BY <1>0, <2>1 DEF WorkerStates
    <2>3. \A y \in Keys : y > lastKey => file'[y] = {}
      BY <1>0, <2>1
    <2>4. Stays(worker'[w].msg.path)
      BY <1>2, <2>1, <2>2 DEF Path
    <2>. QED BY <1>1, <2>1, <2>2, <2>3, <2>4, KeysOfStep
  <1>9. ASSUME NEW l \in Keys, LapseOfDead(l) \/ LapseOfLiving(l)
        PROVE  KeysOK'
    BY <1>0, <1>9 DEF LapseOfDead, LapseOfLiving, KeysOK, Stays, At, Path, purgeVars
  <1>. QED BY <1>3, <1>4, <1>5, <1>6, <1>7, <1>8, <1>9 DEF ExciseNext, Proceed

----------------------------------------------------------------------------
(* Searches and purges *)

\* A search or a purge leaves the files alone and takes up only keys that stay.
LEMMA PurgeSide ==
  ASSUME IInv, UNCHANGED <<file, origin, lastKey, lock, worker, hurt>>,
         \A c \in ConnectIds, k \in Keys : status'[<<c, k>>] = "success" => status[<<c, k>>] = "success",
         \A m \in queue' : Stays(m.path),
         \A c \in ConnectIds : \A k \in found'[c] : Stays(k),
         \A r \in Runs : \A k \in purge'[r].left : Stays(k)
  PROVE  KeysOK' /\ WholeOK'
  <1>1. KeysOK'
    BY DEF IInv, KeysOK, Stays, At, Path
  <1>2. ASSUME NEW k \in 1 .. Paths, k \notin hurt
        PROVE  Whole(k)'
    BY <1>2, Numbers, WholeStays
  <1>. QED BY <1>1, <1>2 DEF WholeOK

\* While no worker is at work, what has records is a key that stays.
LEMMA AtRest ==
  ASSUME IInv, \A w \in Workers : At(w, "idle"), NEW k \in Keys, file[k] # {}
  PROVE  Stays(k)
  <1>1. k \in 1 .. lastKey /\ origin[k] \in 1 .. Paths
    BY Parts, Numbers DEF IInv, KeysOK, Keys
  <1>2. CASE k \in 1 .. Paths
    BY <1>2 DEF Stays
  <1>3. CASE k \notin 1 .. Paths
    <2>1. ASSUME origin[k] \notin hurt
          PROVE  FALSE
      <3>1. Whole(origin[k]) /\ k # origin[k]
        BY <1>1, <1>3, <2>1 DEF IInv, WholeOK
      <3>2. \E w \in Workers : Busy(w, origin[k])
        BY <3>1 DEF Whole
      <3>. QED BY <3>2 DEF Busy
    <2>. QED BY <1>1, <2>1 DEF Stays
  <1>. QED BY <1>2, <1>3

LEMMA PurgePreserves ==
  ASSUME ~SearchAnytime, IInv, [Next]_vars, ~(ExciseNext /\ UNCHANGED purgeVars)
  PROVE  KeysOK' /\ WholeOK'
  <1>0. /\ \A m \in queue : Stays(m.path)
        /\ \A c \in ConnectIds : \A k \in found[c] : Stays(k)
        /\ \A r \in Runs : \A k \in purge[r].left : Stays(k)
        /\ found \in [ConnectIds -> SUBSET Keys] /\ purge \in [Runs -> Purges]
        /\ \A r \in Runs : purge[r].ids \subseteq ConnectIds
        /\ status \in [ConnectIds \X Keys -> Statuses \cup {NoStatus}]
    BY Parts DEF IInv, KeysOK, TypeInv, Purges
  <1>s. ASSUME NEW cs, NEW ls, NEW s \in {"invoked", "running"}, SetStatus(cs, ls, s)
        PROVE  \A c \in ConnectIds, k \in Keys :
                 status'[<<c, k>>] = "success" => status[<<c, k>>] = "success"
    BY <1>s DEF SetStatus
  <1>1. ASSUME NEW c \in ConnectIds, Search(c)
        PROVE  KeysOK' /\ WholeOK'
    <2>1. \A k \in Keys : c \in file[k] => Stays(k)
      BY <1>1, AtRest DEF Search
    <2>2. found' = [found EXCEPT ![c] = {k \in Keys : c \in file[k]}]
      BY <1>1 DEF Search
    <2>3. \A d \in ConnectIds : \A k \in found'[d] : Stays(k)
      BY <1>0, <2>1, <2>2
    <2>4. \A d \in ConnectIds, k \in Keys : status'[<<d, k>>] = "success" => status[<<d, k>>] = "success"
      BY <1>1 DEF Search, NoStatus
    <2>. QED BY <1>0, <1>1, <2>3, <2>4, PurgeSide DEF Search, exciseVars, fileVars
  <1>2. ASSUME NEW r \in Runs, NEW cs \in SUBSET ConnectIds, Request(r, cs)
        PROVE  KeysOK' /\ WholeOK'
    <2>1. \A c \in ConnectIds, k \in Keys : status'[<<c, k>>] = "success" => status[<<c, k>>] = "success"
      BY <1>2, <1>s DEF Request
    <2>2. \A q \in Runs : \A k \in purge'[q].left : Stays(k)
      BY <1>0, <1>2 DEF Request, NotAsked
    <2>. QED BY <1>0, <1>2, <2>1, <2>2, PurgeSide DEF Request, exciseVars, fileVars
  <1>3. ASSUME NEW r \in Runs, Start(r)
        PROVE  KeysOK' /\ WholeOK'
    <2>1. \A c \in ConnectIds, k \in Keys : status'[<<c, k>>] = "success" => status[<<c, k>>] = "success"
      BY <1>3, <1>s DEF Start
    <2> DEFINE left == UNION {found[c] : c \in purge[r].ids}
    <2>2. \A k \in left : Stays(k)
      BY <1>0
    <2>3. /\ purge'[r].left = left
          /\ \A q \in Runs : q # r => purge'[q] = purge[q]
      BY <1>0, <1>3 DEF Start, Purges
    <2> HIDE DEF left
    <2>4. \A q \in Runs : \A k \in purge'[q].left : Stays(k)
      BY <1>0, <2>2, <2>3
    <2>. QED BY <1>0, <1>3, <2>1, <2>4, PurgeSide DEF Start, exciseVars, fileVars
  <1>4. ASSUME NEW r \in Runs, NEW k \in Keys, Sent(r, k)
        PROVE  \A q \in Runs : \A y \in purge'[q].left : Stays(y)
    BY <1>0, <1>4 DEF Sent, Purges
  <1>5. ASSUME NEW r \in Runs, NEW k \in Keys, Send(r, k)
        PROVE  KeysOK' /\ WholeOK'
    <2>1. Stays(k)
      BY <1>0, <1>5 DEF Send
    <2>2. \A m \in queue' : Stays(m.path)
      BY <1>0, <1>5, <2>1 DEF Send
    <2>3. \A q \in Runs : \A y \in purge'[q].left : Stays(y)
      BY <1>4, <1>5 DEF Send
    <2>. QED BY <1>0, <1>5, <2>2, <2>3, PurgeSide DEF Send
  <1>6. ASSUME NEW r \in Runs, NEW k \in Keys, SendFails(r, k)
        PROVE  KeysOK' /\ WholeOK'
    <2>1. \A q \in Runs : \A y \in purge'[q].left : Stays(y)
      BY <1>4, <1>6 DEF SendFails
    <2>. QED BY <1>0, <1>6, <2>1, PurgeSide DEF SendFails, fileVars
  <1>7. ASSUME NEW r \in Runs, EndsEarly(r)
        PROVE  KeysOK' /\ WholeOK'
    <2>1. \A q \in Runs : \A y \in purge'[q].left : Stays(y)
      BY <1>0, <1>7 DEF EndsEarly, Purges
    <2>. QED BY <1>0, <1>7, <2>1, PurgeSide DEF EndsEarly, fileVars
  <1>8. CASE UNCHANGED vars
    BY <1>0, <1>8, PurgeSide DEF vars, exciseVars, fileVars, purgeVars
  <1>. QED BY <1>1, <1>2, <1>3, <1>5, <1>6, <1>7, <1>8 DEF Next, Work

----------------------------------------------------------------------------
(* The invariant *)

LEMMA InvariantInit == Init => IInv
  <1> SUFFICES ASSUME Init PROVE IInv
    OBVIOUS
  <1>1. TypeInv
    BY TypesInit
  <1>2. \A w \in Workers : worker[w].pc = "idle" /\ At(w, "idle")
    BY IdleParts DEF Init, ExciseInit, At
  <1>3. KeysOK
    <2>1. /\ \A k \in 1 .. Paths : origin[k] = k
          /\ \A k \in 1 .. lastKey : origin[k] \in 1 .. Paths
          /\ \A k \in Keys : k > lastKey => file[k] = {} /\ origin[k] = k
      BY Numbers DEF Init, ExciseInit, Keys
    <2>2. \A c \in ConnectIds : \A k \in found[c] : Stays(k)
      BY DEF Init, Stays
    <2>3. \A r \in Runs : purge[r].left = {}
      BY DEF Init, NotAsked
    <2>. QED BY <1>2, <2>1, <2>2, <2>3 DEF KeysOK, Init, ExciseInit
  <1>4. ASSUME NEW k \in 1 .. Paths
        PROVE  Whole(k)
    <2>1. k \in Keys /\ file[k] = Records /\ \A y \in Keys : origin[y] = y
      BY Numbers DEF Init, ExciseInit
    <2>2. \A c \in ConnectIds : status[<<c, k>>] = "none"
      BY <2>1 DEF Init, NoStatus
    <2>. QED BY <1>2, <2>1, <2>2 DEF Whole, Kept, Busy, Records
  <1>. QED BY <1>1, <1>3, <1>4 DEF IInv, WholeOK

LEMMA InvariantPreserved == ~SearchAnytime /\ IInv /\ [Next]_vars => IInv'
  <1> SUFFICES ASSUME ~SearchAnytime, IInv, [Next]_vars PROVE IInv'
    OBVIOUS
  <1>1. TypeInv'
    BY TypesPreserved DEF IInv
  <1>2. CASE ExciseNext /\ UNCHANGED purgeVars
    <2>1. hurt \subseteq hurt'
      BY <1>2 DEF ExciseNext, Proceed, Receive, Acquire, GiveUp, Read, Cut, Write, Copy, Tidy, Release,
         Mark, Finish, Raise, Die, LeftAt, LapseOfDead, LapseOfLiving
    <2>2. \A k \in 1 .. Paths : k \notin hurt' => Whole(k)'
      BY <1>2, <2>1, WholeOfExcise
    <2>. QED BY <1>1, <1>2, <2>2, KeysOfExcise DEF IInv, WholeOK
  <1>3. CASE ~(ExciseNext /\ UNCHANGED purgeVars)
    BY <1>1, <1>3, PurgePreserves DEF IInv
  <1>. QED BY <1>2, <1>3

\* The copies of a file hold nothing the file, or the worker at it, does not.
LEMMA HeldIsKept ==
  ASSUME IInv, NEW k \in 1 .. Paths, k \notin hurt, NEW x
  PROVE  x \in Held(k) <=> Kept(k, x)
  <1>0. Whole(k) /\ k \in Keys /\ k # 0 /\ origin[k] = k
    BY Origins, Numbers DEF IInv, WholeOK
  <1>1. x \in Held(k) <=>
          \/ \E y \in Keys : origin[y] = k /\ x \in file[y]
          \/ \E w \in Workers : /\ Path(w) # 0 /\ origin[Path(w)] = k
                               /\ worker[w].pc \in {"write", "copy"} /\ x \in worker[w].rows
    BY DEF Held
  <1>2. ASSUME Kept(k, x)
        PROVE  x \in Held(k)
    BY <1>0, <1>1, <1>2 DEF Kept, Busy
  <1>3. ASSUME NEW y \in Keys, origin[y] = k, x \in file[y]
        PROVE  Kept(k, x)
    <2>1. CASE y = k
      BY <1>3, <2>1 DEF Kept
    <2>2. CASE y # k
      <3>1. PICK w \in Workers : Busy(w, k) /\ worker[w].pc \in {"copy", "tidy"} /\ worker[w].temp = y
        BY <1>0, <1>3, <2>2 DEF Whole
      <3>2. Rewritten(w, k)
        BY <1>0, <3>1 DEF Whole
      <3>. QED BY <1>3, <3>1, <3>2 DEF Rewritten, Kept, At
    <2>. QED BY <2>1, <2>2
  <1>4. ASSUME NEW w \in Workers, origin[Path(w)] = k, worker[w].pc \in {"write", "copy"}, x \in worker[w].rows
        PROVE  Kept(k, x)
    <2>1. ~At(w, "idle")
      BY <1>4 DEF At
    <2>2. Busy(w, k)
      BY <1>4, <2>1, Elsewhere
    <2>. QED BY <1>4, <2>2 DEF Kept
  <1>. QED BY <1>1, <1>2, <1>3, <1>4

\* What the processor, its queue and the purges keep is of its type, whatever fails,
\* dies, is delivered twice or searched for in between.
THEOREM TypeCorrect == Spec => []TypeOK
  <1>1. TypeInv => TypeOK
    BY DEF TypeInv
  <1>. QED BY <1>1, TypesInit, TypesPreserved, PTL DEF Spec

\* Searches that wait for the files to be at rest: no record of another profile is
\* lost from a file, unless a worker was cut off in the middle of rewriting it or
\* another took its lock from it at work.
THEOREM NobodyElseIsCut ==
  ASSUME ~SearchAnytime PROVE Spec => []OthersKept
  <1>1. IInv => OthersKept
    <2> SUFFICES ASSUME IInv, NEW k \in 1 .. Paths, k \notin hurt
                 PROVE  Others \subseteq Held(k)
      BY DEF OthersKept
    <2>1. \A x \in Others : Kept(k, x)
      BY DEF IInv, WholeOK, Whole
    <2>. QED BY <2>1, HeldIsKept
  <1>2. IInv /\ [Next]_vars => IInv'
    BY InvariantPreserved
  <1>. QED BY <1>1, <1>2, InvariantInit, PTL DEF Spec

\* With them too, a file whose purge of a profile is reported as a success holds
\* nothing of that profile, nor does a copy of the file, under the same exception.
THEOREM ReportedMeansErased ==
  ASSUME ~SearchAnytime PROVE Spec => []ErasedWhenReported
  <1>1. IInv => ErasedWhenReported
    <2> SUFFICES ASSUME IInv, NEW c \in ConnectIds, NEW k \in 1 .. Paths,
                        status[<<c, k>>] = "success", k \notin hurt
                 PROVE  c \notin Held(k)
      BY DEF ErasedWhenReported
    <2>1. ~Kept(k, c)
      BY DEF IInv, WholeOK, Whole
    <2>. QED BY <2>1, HeldIsKept
  <1>2. IInv /\ [Next]_vars => IInv'
    BY InvariantPreserved
  <1>. QED BY <1>1, <1>2, InvariantInit, PTL DEF Spec
=============================================================================
