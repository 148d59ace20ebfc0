--------------------------- MODULE ExciseProcessor ---------------------------
(***************************************************************************)
(* The lambda that takes the records of purged profiles out of the parquet *)
(* files of the export (ucp_s3_excise_queue_processor).  Its messages come *)
(* from a queue that delivers at least once; a file is read, deleted with  *)
(* all its versions, written anew under a fresh key of the same table and  *)
(* copied to its old key, all under a lock on the key.                     *)
(*                                                                         *)
(* The lock is what DynamoMutex shows of it: exclusive while the lease     *)
(* runs.  The lease (30 s) is not renewed and the lambda may run for two   *)
(* minutes, so a lease may run out under a worker that is still at it.     *)
(***************************************************************************)
EXTENDS Naturals, FiniteSets

CONSTANTS
    Workers,      \* invocations of the lambda at one time
    ConnectIds,   \* profiles that may be purged
    Others,       \* records of other profiles
    Paths,        \* number of files the export wrote
    MaxKeys,      \* bound: keys of files, the fresh ones of rewritten files included
    MaxRuns,      \* bound: purges; each sends its own messages
    MaxFaults,    \* bound: calls to AWS that fail, invocations that end half way,
                  \* leases that run out under a worker, messages delivered twice
    Nobody        \* holder of a free lock

ASSUME ExciseBounds ==
    /\ {Paths, MaxKeys, MaxRuns, MaxFaults} \subseteq Nat
    /\ Paths <= MaxKeys
    /\ Nobody \notin Workers
    /\ ConnectIds \cap Others = {}

Keys     == 1 .. MaxKeys
Records  == ConnectIds \cup Others
Messages == [path : Keys, ids : SUBSET ConnectIds, run : 1 .. MaxRuns]
Statuses == {"invoked", "running", "success"}
NoStatus == "none"

VARIABLES
    file,     \* the records in the file of a key; {} when there is no file
    origin,   \* the file whose records a key was written with
    lastKey,  \* the last key written
    queue,    \* messages not yet deleted
    lock,     \* the worker that holds the lock of a key, or Nobody
    lapsed,   \* keys whose lock's lease has run out
    worker,   \* what each worker is doing
    status,   \* purge status of a profile at a file
    faults,   \* how many faults there were
    hurt      \* history: files a worker left half written, or shared

fileVars   == <<file, origin, lastKey, queue, lock, lapsed>>
exciseVars == <<fileVars, worker, faults, hurt>>

Fault == faults < MaxFaults /\ faults' = faults + 1

NoMessage == [path |-> 0, ids |-> {}, run |-> 0]
Idle == [pc |-> "idle", msg |-> NoMessage, rows |-> {}, temp |-> 0, left |-> {}]

\* The steps of process_record under the lock, in their order.
Body == {"read", "cut", "write", "copy", "tidy", "release"}
\* Those at which the file is not (only) where it was.
Rewriting == {"write", "copy", "tidy"}

ExciseInit ==
    /\ file    = [k \in Keys |-> IF k <= Paths THEN Records ELSE {}]
    /\ origin  = [k \in Keys |-> k]
    /\ lastKey = Paths
    /\ queue   = {}
    /\ lock    = [k \in Keys |-> Nobody]
    /\ lapsed  = {}
    /\ worker  = [w \in Workers |-> Idle]
    /\ faults  = 0
    /\ hurt    = {}

At(w, pc)   == worker[w].pc = pc
Path(w)     == worker[w].msg.path
Asked(w)    == worker[w].msg.ids
Goto(w, pc) == worker' = [worker EXCEPT ![w].pc = pc]

\* The queue delivers a message; while it is worked on it is hidden (two minutes, the
\* time limit of the lambda), but the queue promises no more than at least once.
Receive(w, m) ==
    /\ At(w, "idle") /\ m \in queue
    /\ IF \A v \in Workers : worker[v].msg # m THEN faults' = faults ELSE Fault
    /\ worker' = [worker EXCEPT ![w] = [Idle EXCEPT !.pc = "wait", !.msg = m]]
    /\ UNCHANGED <<fileVars, status, hurt>>

\* Mutant: the lock is taken whoever holds it.
AnyLock(w) == TRUE

\* acquire_lock: a free lock, or one whose lease has run out.
LockFree(w) == lock[Path(w)] = Nobody \/ Path(w) \in lapsed

\* Somebody is still at work on the file when its lock is taken.
Overtakes(w) ==
    \E v \in Workers \ {w} : Path(v) = Path(w) /\ worker[v].pc \in Body \ {"release"}

Acquire(w) ==
    /\ At(w, "wait") /\ LockFree(w)
    /\ lock'   = [lock EXCEPT ![Path(w)] = w]
    /\ lapsed' = lapsed \ {Path(w)}
    /\ hurt'   = IF Path(w) \in lapsed /\ Overtakes(w) THEN hurt \cup {origin[Path(w)]} ELSE hurt
    /\ Goto(w, "read")
    /\ UNCHANGED <<file, origin, lastKey, queue, status, faults>>

\* FailedLockAcquisitionError: the message stays in the queue.
GiveUp(w) ==
    /\ At(w, "wait") /\ ~LockFree(w)
    /\ worker' = [worker EXCEPT ![w] = Idle]
    /\ UNCHANGED <<file, origin, lastKey, queue, lock, lapsed, status, faults, hurt>>

\* Mutant: the rows that match are kept instead of dropped.
RowsAskedFor(w) == file[Path(w)] \cap Asked(w)

\* df.drop(df.query("connectid in ..."))
RowsLeft(w) == file[Path(w)] \ Asked(w)

\* read_parquet; NoFilesFound ends the body and counts as success.
Read(w) ==
    /\ At(w, "read")
    /\ worker' = IF file[Path(w)] = {}
                 THEN [worker EXCEPT ![w].pc = "release"]
                 ELSE [worker EXCEPT ![w].pc = "cut", ![w].rows = RowsLeft(w)]
    /\ UNCHANGED <<file, origin, lastKey, queue, lock, lapsed, status, faults, hurt>>

\* The file is deleted with all its versions, whatever it holds by now.
Cut(w) ==
    /\ At(w, "cut")
    /\ file' = [file EXCEPT ![Path(w)] = {}]
    /\ Goto(w, IF worker[w].rows = {} THEN "release" ELSE "write")
    /\ UNCHANGED <<origin, lastKey, queue, lock, lapsed, status, faults, hurt>>

\* to_parquet: a new file of the same table, under a name of its own.
Write(w) ==
    /\ At(w, "write")
    /\ lastKey < MaxKeys
    /\ lastKey' = lastKey + 1
    /\ file'    = [file EXCEPT ![lastKey'] = worker[w].rows]
    /\ origin'  = [origin EXCEPT ![lastKey'] = origin[Path(w)]]
    /\ worker'  = [worker EXCEPT ![w].pc = "copy", ![w].temp = lastKey']
    /\ UNCHANGED <<queue, lock, lapsed, status, faults, hurt>>

\* copy_object to the original key.
Copy(w) ==
    /\ At(w, "copy")
    /\ file' = [file EXCEPT ![Path(w)] = file[worker[w].temp]]
    /\ Goto(w, "tidy")
    /\ UNCHANGED <<origin, lastKey, queue, lock, lapsed, status, faults, hurt>>

\* The file that was written first is deleted.
Tidy(w) ==
    /\ At(w, "tidy")
    /\ file' = [file EXCEPT ![worker[w].temp] = {}]
    /\ Goto(w, "release")
    /\ UNCHANGED <<origin, lastKey, queue, lock, lapsed, status, faults, hurt>>

\* release_lock: only the lock that was acquired.
ReleaseOwn(w) ==
    lock' = [lock EXCEPT ![Path(w)] = IF @ = w THEN Nobody ELSE @]

Release(w) ==
    /\ At(w, "release")
    /\ ReleaseOwn(w)
    /\ lapsed' = {k \in lapsed : lock'[k] # Nobody}
    /\ worker' = [worker EXCEPT ![w].pc = "mark", ![w].left = Asked(w)]
    /\ UNCHANGED <<file, origin, lastKey, queue, status, faults, hurt>>

\* Mutant: a status the backend does not know.
Misspelt == "purged"

\* "purge_success", also when there was no file.
Reported == "success"

\* One update of the results table for each profile of the message.
Mark(w, c) ==
    /\ At(w, "mark") /\ c \in worker[w].left
    /\ status' = [status EXCEPT ![<<c, Path(w)>>] = Reported]
    /\ worker' = [worker EXCEPT ![w].left = @ \ {c}]
    /\ UNCHANGED <<file, origin, lastKey, queue, lock, lapsed, faults, hurt>>

\* The handler returns, the queue deletes the message.
Finish(w) ==
    /\ At(w, "mark") /\ worker[w].left = {}
    /\ queue'  = queue \ {worker[w].msg}
    /\ worker' = [worker EXCEPT ![w] = Idle]
    /\ UNCHANGED <<file, origin, lastKey, lock, lapsed, status, faults, hurt>>

\* A file left half way through its rewriting.
LeftAt(w) ==
    hurt' = IF worker[w].pc \in Rewriting THEN hurt \cup {origin[Path(w)]} ELSE hurt

\* A call raises: the context releases the lock, the message is delivered again.
Raise(w) ==
    /\ ~At(w, "idle")
    /\ Fault
    /\ LeftAt(w)
    /\ IF worker[w].pc \in Body THEN ReleaseOwn(w) ELSE lock' = lock
    /\ lapsed' = {k \in lapsed : lock'[k] # Nobody}
    /\ worker' = [worker EXCEPT ![w] = Idle]
    /\ UNCHANGED <<file, origin, lastKey, queue, status>>

\* The invocation ends (time limit, out of memory); its lock stays behind.
Die(w) ==
    /\ ~At(w, "idle")
    /\ Fault
    /\ LeftAt(w)
    /\ worker' = [worker EXCEPT ![w] = Idle]
    /\ UNCHANGED <<file, origin, lastKey, queue, lock, lapsed, status>>

\* The holder is gone or already past its work.
Abandoned(k) == \A w \in Workers : ~(Path(w) = k /\ lock[k] = w /\ worker[w].pc \in Body)

\* A lease runs out: one that nobody works under does so in time.
LapseOfDead(k) ==
    /\ lock[k] # Nobody /\ k \notin lapsed /\ Abandoned(k)
    /\ lapsed' = lapsed \cup {k}
    /\ UNCHANGED <<file, origin, lastKey, queue, lock, worker, status, faults, hurt>>

LapseOfLiving(k) ==
    /\ lock[k] # Nobody /\ k \notin lapsed /\ ~Abandoned(k)
    /\ Fault
    /\ lapsed' = lapsed \cup {k}
    /\ UNCHANGED <<file, origin, lastKey, queue, lock, worker, status, hurt>>

\* What a worker does next unless something goes wrong.
Proceed(w) ==
    \/ Acquire(w) \/ GiveUp(w) \/ Read(w) \/ Cut(w) \/ Write(w) \/ Copy(w) \/ Tidy(w)
    \/ Release(w) \/ (\E c \in ConnectIds : Mark(w, c)) \/ Finish(w)

ExciseNext ==
    \/ \E w \in Workers : \/ \E m \in queue : Receive(w, m)
                          \/ Proceed(w) \/ Raise(w) \/ Die(w)
    \/ \E k \in Keys : LapseOfDead(k) \/ LapseOfLiving(k)

----------------------------------------------------------------------------
(* Properties *)

\* The records of a file: where it was, in a copy of it, or read by the worker
\* that has deleted it and writes it anew.
Held(k) ==
    UNION ({file[x] : x \in {y \in Keys : origin[y] = k}}
           \cup {worker[w].rows : w \in {v \in Workers : Path(v) # 0
                     /\ origin[Path(v)] = k /\ worker[v].pc \in {"write", "copy"}}})

\* Unless a worker was cut off while it rewrote a file, or was overtaken at it,
\* excising profiles from the file takes no record of any other profile out.
OthersKept == \A k \in 1 .. Paths : k \in hurt \/ Others \subseteq Held(k)

\* A file reported as purged of a profile holds nothing of it, nor does a copy of
\* the file, whatever is delivered twice or in whatever order, unless hurt.
ErasedWhenReported ==
    \A c \in ConnectIds, k \in 1 .. Paths :
        status[<<c, k>>] = "success" => k \in hurt \/ c \notin Held(k)

(***************************************************************************)
(* What the lock is for: no invocation writes back "data from a previous   *)
(* run, and inadvertently re-add[s] data that was supposed to be removed"  *)
(* (common-resource/index.ts).                                             *)
(***************************************************************************)
NothingComesBack ==
    \A c \in ConnectIds, k \in 1 .. Paths : status[<<c, k>>] = "success" => c \notin file[k]
=============================================================================
