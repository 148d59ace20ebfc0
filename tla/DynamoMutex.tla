---------------------------- MODULE DynamoMutex ----------------------------
(***************************************************************************)
(* The distributed mutex that serialises the S3 excise lambdas on one S3   *)
(* object (ucp_s3_excise_queue_processor/mutex): one DynamoDB item per     *)
(* lock, written with conditional puts and updates, taken over when the    *)
(* lease it records has run out.                                           *)
(*                                                                         *)
(* A client is one use of acquire_lock and release_lock with the check-in  *)
(* thread that renews the lease in between.  An action is one DynamoDB     *)
(* call taking effect, or the reading of the clock between two calls.      *)
(* Each client has its own clock; DynamoDB's own time to live is external. *)
(***************************************************************************)
EXTENDS Integers

CONSTANTS
    Clients,      \* users of the mutex
    Nobody,       \* the owner of no lock
    Leases,       \* lease durations asked for
    MaxTimeout,   \* config: max_timeout
    AutoRenew,    \* config: auto_renew
    Offset,       \* how far each client's clock is ahead of the slowest one
    Skew,         \* the largest such difference
    MaxTime,      \* bound: the clock
    MaxDraws      \* bound: record version numbers a client generates

ASSUME NobodyAssumption == Nobody \notin Clients
ASSUME TimeAssumption   == /\ Leases \subseteq Nat
                           /\ {MaxTimeout, Skew, MaxTime, MaxDraws} \subseteq Nat
                           /\ Offset \in [Clients -> 0 .. Skew]
ASSUME RenewAssumption  == AutoRenew \in BOOLEAN

\* Record version numbers are uuids: one is never drawn twice, so it can be
\* named by the client that drew it and the number of the draw.
Rvns  == Clients \X Nat
Locks == [rvn : Rvns, checkin : Nat, lease : Leases]

NoRvn  == <<Nobody, 0>>
NoLock == [rvn |-> NoRvn, checkin |-> 0, lease |-> 0]

VARIABLES
    now,      \* the slowest clock
    record,   \* the item in the table, or NoLock (its ttl is checkin + lease)
    client,   \* what each client is doing
    thread,   \* each client's check-in thread
    drawn     \* how many version numbers each client has drawn

vars == <<now, record, client, thread, drawn>>

\* lease, since (start_time), seen (current_rvn), found (existing_lock), at
\* (current_time of the call in flight) and lock (the lock returned).
Idle == [pc |-> "idle", lease |-> 0, since |-> 0, seen |-> NoRvn,
         found |-> NoLock, at |-> 0, lock |-> NoLock]

Off == [pc |-> "off", stop |-> FALSE, lock |-> NoLock, at |-> 0, next |-> NoLock]

Init ==
    /\ now    = 0
    /\ record = NoLock
    /\ client = [c \in Clients |-> Idle]
    /\ thread = [c \in Clients |-> Off]
    /\ drawn  = [c \in Clients |-> 0]

Clock(c)       == now + Offset[c]
Expired(l, t)  == t - l.checkin > l.lease
At(c, pc)      == client[c].pc = pc
Become(c, s)   == client' = [client EXCEPT ![c] = s]
Goto(c, pc)    == Become(c, [client[c] EXCEPT !.pc = pc])
Thread(c, t)   == thread' = [thread EXCEPT ![c] = t]

\* Mutant: the duration of the item is its time to live.
FreshUntil(c, at, lease) ==
    [rvn |-> <<c, drawn[c] + 1>>, checkin |-> at, lease |-> at + lease]

\* A lock with the next version number of client c.
Fresh(c, at, lease) == [rvn |-> <<c, drawn[c] + 1>>, checkin |-> at, lease |-> lease]

Draw(c) == drawn' = [drawn EXCEPT ![c] = @ + 1]

----------------------------------------------------------------------------
(* acquire_lock *)

StartAcquire(c, lease) ==
    /\ At(c, "idle") /\ thread[c].pc = "off"
    /\ drawn[c] < MaxDraws
    /\ Clock(c) + MaxTimeout < MaxTime
    /\ Become(c, [Idle EXCEPT !.pc = "read", !.lease = lease, !.since = Clock(c)])
    /\ Thread(c, Off)
    /\ UNCHANGED <<now, record, drawn>>

\* get_lock, a consistent read.
Read(c) ==
    /\ At(c, "read")
    /\ Become(c, [client[c] EXCEPT !.pc = "decide", !.found = record])
    /\ UNCHANGED <<now, record, thread, drawn>>

\* Mutant: the version seen twice is enough, its lease need not be over.
SeenTwice(s, t) == s.found.rvn = s.seen

\* The version seen before, and its lease is over (is_expired).
TakesOver(s, t) == s.found.rvn = s.seen /\ Expired(s.found, t)

\* No lock: put one.  The version seen before, and its lease is over: replace
\* it.  Otherwise remember the version and wait.
Decide(c) ==
    LET s == client[c]
    IN  /\ At(c, "decide")
        /\ \/ s.found = NoLock /\ Become(c, [s EXCEPT !.pc = "put", !.at = Clock(c)])
           \/ /\ s.found # NoLock
              /\ TakesOver(s, Clock(c))
              /\ Become(c, [s EXCEPT !.pc = "upsert", !.at = Clock(c)])
           \/ /\ s.found # NoLock
              /\ ~TakesOver(s, Clock(c))
              /\ Become(c, [s EXCEPT !.pc = "wait", !.seen = s.found.rvn, !.found = NoLock])
        /\ UNCHANGED <<now, record, thread, drawn>>

\* The conditional write went through: the lock is c's, a thread renews it.
Obtain(c) ==
    LET s == client[c]
        l == Fresh(c, s.at, s.lease)
    IN  /\ Draw(c)
        /\ record' = l
        /\ Become(c, [Idle EXCEPT !.pc = "held", !.lock = l])
        /\ Thread(c, IF AutoRenew THEN [Off EXCEPT !.pc = "ready", !.lock = l] ELSE Off)
        /\ UNCHANGED now

\* The conditional write was refused: sleep, then try again.
Refused(c) ==
    /\ Become(c, [client[c] EXCEPT !.pc = "wait", !.found = NoLock, !.at = 0])
    /\ UNCHANGED <<now, record, thread, drawn>>

\* put_mutex_lock, on condition that there is no item.
Put(c) ==
    /\ At(c, "put")
    /\ IF record = NoLock THEN Obtain(c) ELSE Refused(c)

\* upsert_mutex_lock, on condition that rvn, check-in time and ttl are those read.
Upsert(c) ==
    /\ At(c, "upsert")
    /\ IF record = client[c].found THEN Obtain(c) ELSE Refused(c)

\* Another error of the SDK, or a reply that is lost after the write was made.
CallFails(c) ==
    /\ \/ client[c].pc \in {"read", "put", "upsert"} /\ UNCHANGED <<record, drawn>>
       \/ /\ \/ At(c, "put")    /\ record = NoLock
             \/ At(c, "upsert") /\ record = client[c].found
          /\ Draw(c)
          /\ record' = Fresh(c, client[c].at, client[c].lease)
    /\ Become(c, Idle)
    /\ UNCHANGED <<now, thread>>

\* Mutant: the deadline is not looked at.
NeverOver(c) == FALSE

TimeIsOver(c) == Clock(c) - client[c].since > MaxTimeout

\* After the sleep: once more, or give up when max_timeout has passed.
Wake(c) ==
    /\ At(c, "wait")
    /\ \/ ~TimeIsOver(c) /\ Goto(c, "read")
       \/ TimeIsOver(c)  /\ Become(c, Idle)
    /\ UNCHANGED <<now, record, thread, drawn>>

----------------------------------------------------------------------------
(* The check-in thread: renew the lease until told to stop *)

\* renew_lock reads the clock ...
RenewStart(c) ==
    /\ thread[c].pc = "ready"
    /\ \/ thread[c].stop /\ Thread(c, Off)
       \/ /\ ~thread[c].stop /\ drawn[c] < MaxDraws
          /\ Thread(c, [thread[c] EXCEPT !.pc = "call", !.at = Clock(c)])
    /\ UNCHANGED <<now, record, client, drawn>>

\* ... and updates the item, on condition that it has the thread's version.
\* Any error, a refusal too, ends the thread.
Renew(c) ==
    LET t    == thread[c]
        l    == Fresh(c, t.at, t.lock.lease)
        died == IF t.stop THEN Off ELSE [t EXCEPT !.pc = "off", !.at = 0]
    IN  /\ t.pc = "call"
        /\ \/ /\ record.rvn = t.lock.rvn
              /\ Draw(c)
              /\ record' = l
              /\ \/ Thread(c, [t EXCEPT !.pc = "reply", !.at = 0, !.next = l])
                 \/ Thread(c, died)
           \/ Thread(c, died) /\ UNCHANGED <<record, drawn>>
        /\ UNCHANGED <<now, client>>

\* The reply reaches the thread, which then sleeps for a second.
RenewReply(c) ==
    /\ thread[c].pc = "reply"
    /\ Thread(c, [thread[c] EXCEPT !.pc = "ready", !.lock = thread[c].next,
                                   !.next = NoLock])
    /\ UNCHANGED <<now, record, client, drawn>>

----------------------------------------------------------------------------
(* release_lock *)

\* The lock as its holder knows it: the thread's, when it has one.
Known(c) == IF thread[c].lock = NoLock THEN client[c].lock ELSE thread[c].lock

\* The thread is told to stop and not waited for.
Release(c) ==
    /\ At(c, "held")
    /\ Become(c, [client[c] EXCEPT !.pc = "delete", !.lock = Known(c)])
    /\ Thread(c, IF thread[c].pc = "off" THEN Off
                 ELSE [thread[c] EXCEPT !.stop = TRUE])
    /\ UNCHANGED <<now, record, drawn>>

\* Mutant: whatever item there is, it is deleted.
AnyVersion(c) == TRUE

HasVersion(c) == record.rvn = client[c].lock.rvn

\* The item is deleted if it has that version; errors are ignored.
Delete(c) ==
    /\ At(c, "delete")
    /\ \/ HasVersion(c) /\ record' = NoLock
       \/ UNCHANGED record
    /\ Become(c, Idle)
    /\ UNCHANGED <<now, thread, drawn>>

----------------------------------------------------------------------------
\* The lambda dies, its daemon thread with it; a call in flight is not made.
Crash(c) ==
    /\ ~At(c, "idle")
    /\ Become(c, Idle)
    /\ Thread(c, Off)
    /\ UNCHANGED <<now, record, drawn>>

\* DynamoDB deletes an item some time after its ttl, by a clock of its own.
TimeToLive ==
    /\ record # NoLock
    /\ Expired(record, now + Skew)
    /\ record' = NoLock
    /\ UNCHANGED <<now, client, thread, drawn>>

Tick == now < MaxTime /\ now' = now + 1 /\ UNCHANGED <<record, client, thread, drawn>>

Acquiring(c) == Read(c) \/ Decide(c) \/ Put(c) \/ Upsert(c) \/ Wake(c)
Renewing(c)  == RenewStart(c) \/ Renew(c) \/ RenewReply(c)

Next ==
    \/ Tick \/ TimeToLive
    \/ \E c \in Clients :
           \/ \E lease \in Leases : StartAcquire(c, lease)
           \/ Acquiring(c) \/ CallFails(c)
           \/ Renewing(c)
           \/ Release(c) \/ Delete(c)
           \/ Crash(c)

Spec == Init /\ [][Next]_vars

\* Time passes, and a running lambda takes its next step.
FairSpec == Spec /\ WF_vars(Tick) /\ \A c \in Clients : WF_vars(Acquiring(c))

----------------------------------------------------------------------------
(* Properties *)

OneLock == Locks \cup {NoLock}

ClientStates ==
    [pc : {"idle", "read", "decide", "put", "upsert", "wait", "held", "delete"},
     lease : Leases \cup {0}, since : Nat, seen : Rvns \cup {NoRvn},
     found : OneLock, at : Nat, lock : OneLock]

ThreadStates ==
    [pc : {"off", "ready", "call", "reply"}, stop : BOOLEAN,
     lock : OneLock, at : Nat, next : OneLock]

\* The item, the clients and their threads hold values of their types.
TypeOK ==
    /\ now    \in Nat
    /\ record \in OneLock
    /\ client \in [Clients -> ClientStates]
    /\ thread \in [Clients -> ThreadStates]
    /\ drawn  \in [Clients -> Nat]

\* c is in the body of its LockContext and the lease it knows of is running, by
\* a clock that is as far ahead as clocks can be.
Holding(c) == At(c, "held") /\ ~Expired(Known(c), Clock(c) + Skew)

(***************************************************************************)
(* Two clients never hold the lock at the same time, as long as each stops *)
(* at the end of its lease: whatever reads are stale, replies lost,        *)
(* holders dead, renewals late, and however time to live and release race. *)
(***************************************************************************)
MutualExclusion == \A c, d \in Clients : Holding(c) /\ Holding(d) => c = d

(***************************************************************************)
(* While a lease is running nobody but its holder changes the item: no     *)
(* take-over, no late release or renewal by an earlier holder, no deletion *)
(* by time to live.                                                        *)
(***************************************************************************)
RunningLeaseStands ==
    [][\A c \in Clients : Holding(c) /\ record' # record => record'.rvn[1] = c]_vars

(***************************************************************************)
(* acquire_lock comes to an end, with the lock or without it, however the  *)
(* others renew and pass the lock on (max_timeout).                        *)
(***************************************************************************)
AcquireEnds == \A c \in Clients : At(c, "read") ~> client[c].pc \in {"idle", "held"}
=============================================================================
