------------------------- MODULE DynamoMutexProofs -------------------------
(***************************************************************************)
(* Mutual exclusion of the distributed mutex, for any clients, leases,     *)
(* clock differences and bounds.                                           *)
(***************************************************************************)
EXTENDS DynamoMutex, TLAPS

USE DEF At, TakesOver, HasVersion

\* c's lock l is running, by a clock as far ahead as clocks can be.
Running(c, l) == ~Expired(l, Clock(c) + Skew)

\* As long as l is running, the item is c's and runs at least as long.
Covered(c, l) ==
    Running(c, l) => /\ record \in Locks
                     /\ record.rvn[1] = c
                     /\ record.checkin + record.lease >= l.checkin + l.lease

Acquisition == {"read", "decide", "put", "upsert", "wait"}

\* An acquisition asks for one of the leases.
AskOK(c) == client[c].pc \in Acquisition => client[c].lease \in Leases

\* A client only ever knows locks it has drawn the version number of.
OwnOK(c) ==
    /\ client[c].pc \in {"held", "delete"} => client[c].lock \in Locks
    /\ client[c].lock # NoLock => client[c].lock.rvn[1] = c
    /\ thread[c].lock # NoLock => thread[c].lock.rvn[1] = c
    /\ thread[c].next # NoLock => thread[c].next.rvn[1] = c
    /\ thread[c].pc # "off"    => thread[c].lock \in Locks
    /\ thread[c].pc = "reply"  => thread[c].next \in Locks
    /\ client[c].pc = "held"   => ~thread[c].stop

\* Check-in times lie in the past, a renewal's not before the one it replaces.
TimesOK(c) ==
    /\ client[c].at <= Clock(c)
    /\ thread[c].lock.checkin <= Clock(c)
    /\ thread[c].next.checkin <= Clock(c)
    /\ thread[c].at <= Clock(c)
    /\ thread[c].pc = "call" => thread[c].lock.checkin <= thread[c].at

\* A take-over is under way only for a lease that is over.
LateOK(c) ==
    client[c].pc = "upsert" =>
        client[c].found \in Locks /\ Expired(client[c].found, Clock(c))

\* A holder's lock is covered by the item, and so is the renewal it has yet
\* to hear of.
HoldOK(c) ==
    client[c].pc = "held" => /\ Covered(c, Known(c))
                             /\ thread[c].pc = "reply" => Covered(c, thread[c].next)

IInv ==
    /\ TypeOK
    /\ \A c \in Clients : AskOK(c) /\ OwnOK(c) /\ TimesOK(c) /\ LateOK(c) /\ HoldOK(c)

----------------------------------------------------------------------------
\* No client is Nobody, so a lock is never taken for the absence of one.
LEMMA NoLockIsNone == NoLock \notin Locks /\ NoLock \in OneLock
  <1>1. NoRvn \notin Rvns
    <2>1. NoRvn[1] = Nobody
      BY DEF NoRvn
    <2>2. \A r \in Rvns : r[1] \in Clients
      BY DEF Rvns
    <2>. QED BY <2>1, <2>2, NobodyAssumption
  <1>2. \A l \in Locks : l.rvn \in Rvns
    BY DEF Locks
  <1>3. NoLock.rvn = NoRvn
    BY DEF NoLock
  <1>. QED BY <1>1, <1>2, <1>3 DEF OneLock

\* The fields of a lock, or of none.
LEMMA LockFields ==
  ASSUME NEW l \in OneLock
  PROVE  /\ l.checkin \in Nat /\ l.lease \in Nat
         /\ l # NoLock => l \in Locks
         /\ l \in Locks => l.rvn[1] \in Clients /\ l.lease \in Leases
  <1>1. NoLock.checkin = 0 /\ NoLock.lease = 0
    BY DEF NoLock
  <1>2. \A k \in Locks : k.rvn \in Rvns /\ k.checkin \in Nat /\ k.lease \in Leases
    BY DEF Locks
  <1>3. \A r \in Rvns : r[1] \in Clients
    BY DEF Rvns
  <1>4. \A x \in Leases : x \in Nat
    BY TimeAssumption
  <1>5. CASE l \in Locks
    BY <1>2, <1>3, <1>4, <1>5
  <1>6. CASE l = NoLock
    BY <1>1, <1>6, NoLockIsNone
  <1>. QED BY <1>5, <1>6 DEF OneLock

\* A client's clock is a number, no more than Skew ahead of the slowest.
LEMMA Clocks ==
  ASSUME NEW c \in Clients, now \in Nat
  PROVE  Clock(c) \in Nat /\ now <= Clock(c) /\ Clock(c) <= now + Skew /\ Skew \in Nat
  BY TimeAssumption DEF Clock

\* A new lock of a client is a lock of that client.
LEMMA FreshLock ==
  ASSUME TypeOK, NEW c \in Clients, NEW at \in Nat, NEW lease \in Leases
  PROVE  /\ Fresh(c, at, lease) \in Locks
         /\ Fresh(c, at, lease) \in OneLock
         /\ Fresh(c, at, lease).rvn[1] = c
         /\ Fresh(c, at, lease).checkin = at
         /\ Fresh(c, at, lease).lease = lease
  <1>1. <<c, drawn[c] + 1>> \in Rvns
    BY DEF TypeOK, Rvns
  <1>2. Fresh(c, at, lease) \in Locks
    BY <1>1 DEF Fresh, Locks
  <1>. QED BY <1>2 DEF Fresh, OneLock

\* What a client knows as its lock is its own.
LEMMA KnownLock ==
  ASSUME TypeOK, NEW c \in Clients, OwnOK(c), client[c].pc = "held"
  PROVE  Known(c) \in Locks /\ Known(c) \in OneLock /\ Known(c).rvn[1] = c
  <1>1. thread[c].lock \in OneLock
    BY DEF TypeOK, ThreadStates
  <1>2. thread[c].lock # NoLock => thread[c].lock \in Locks
    BY <1>1, LockFields
  <1>3. client[c].lock \in Locks /\ client[c].lock # NoLock
    BY NoLockIsNone DEF OwnOK
  <1>. QED BY <1>2, <1>3 DEF Known, OwnOK, OneLock

\* The lease of a lock the item covers is over once the item's is, by anybody's
\* clock and DynamoDB's.
LEMMA CoverEnds ==
  ASSUME TypeOK, NEW c \in Clients, NEW l \in OneLock, Covered(c, l),
         \/ record = NoLock
         \/ record \in Locks /\ record.rvn[1] # c
         \/ Expired(record, now + Skew)
         \/ \E d \in Clients : Expired(record, Clock(d))
  PROVE  ~Running(c, l)
  <1>1. record \in OneLock /\ now \in Nat
    BY DEF TypeOK
  <1>2. /\ record.checkin \in Nat /\ record.lease \in Nat
        /\ l.checkin \in Nat /\ l.lease \in Nat
    BY <1>1, LockFields
  <1>3. SUFFICES ASSUME Running(c, l) PROVE FALSE
    OBVIOUS
  <1>4. /\ record \in Locks /\ record.rvn[1] = c
        /\ record.checkin + record.lease >= l.checkin + l.lease
    BY <1>3 DEF Covered
  <1>5. CASE record = NoLock
    BY <1>4, <1>5, NoLockIsNone
  <1>6. CASE record \in Locks /\ record.rvn[1] # c
    BY <1>4, <1>6
  <1>7. now + Skew <= Clock(c) + Skew /\ Clock(c) \in Nat /\ Skew \in Nat
    BY <1>1, Clocks
  <1>8. Clock(c) + Skew - l.checkin <= l.lease
    BY <1>2, <1>3, <1>7 DEF Running, Expired
  <1>9. CASE Expired(record, now + Skew)
    BY <1>1, <1>2, <1>4, <1>7, <1>8, <1>9 DEF Expired
  <1>10. CASE \E d \in Clients : Expired(record, Clock(d))
    <2>1. PICK d \in Clients : Expired(record, Clock(d))
      BY <1>10
    <2>2. Clock(d) <= now + Skew /\ Clock(d) \in Nat
      BY <1>1, Clocks
    <2>. QED BY <1>1, <1>2, <1>4, <1>7, <1>8, <2>1, <2>2 DEF Expired
  <1>. QED BY <1>5, <1>6, <1>9, <1>10

----------------------------------------------------------------------------
\* A step of client c, of its lambda or its thread.
ClientStep(c) ==
    \/ \E lease \in Leases : StartAcquire(c, lease)
    \/ Read(c) \/ Decide(c) \/ Put(c) \/ Upsert(c) \/ Wake(c) \/ CallFails(c)
    \/ RenewStart(c) \/ Renew(c) \/ RenewReply(c)
    \/ Release(c) \/ Delete(c) \/ Crash(c)

\* Every step is one of time, of DynamoDB, or of one client.
LEMMA Cases ==
  Next <=> Tick \/ TimeToLive \/ \E c \in Clients : ClientStep(c)
  BY DEF Next, ClientStep, Acquiring, Renewing

\* A client or its thread goes on to a state of its type.
LEMMA GoOn ==
  ASSUME TypeOK, NEW c \in Clients
  PROVE  /\ \A s \in ClientStates : Become(c, s) => client' \in [Clients -> ClientStates]
         /\ \A t \in ThreadStates : Thread(c, t) => thread' \in [Clients -> ThreadStates]
         /\ Draw(c) => drawn' \in [Clients -> Nat]
         /\ client[c] \in ClientStates /\ thread[c] \in ThreadStates
         /\ Idle \in ClientStates /\ Off \in ThreadStates
         /\ Clock(c) \in Nat
  <1>1. NoLock \in OneLock
    BY NoLockIsNone
  <1>2. Idle \in ClientStates
    BY <1>1 DEF Idle, ClientStates
  <1>3. Off \in ThreadStates
    BY <1>1 DEF Off, ThreadStates
  <1>4. ASSUME NEW s \in ClientStates, Become(c, s)
        PROVE  client' \in [Clients -> ClientStates]
    BY <1>4 DEF TypeOK, Become
  <1>5. ASSUME NEW t \in ThreadStates, Thread(c, t)
        PROVE  thread' \in [Clients -> ThreadStates]
    BY <1>5 DEF TypeOK, Thread
  <1>6. Draw(c) => drawn' \in [Clients -> Nat]
    BY DEF TypeOK, Draw
  <1>7. client[c] \in ClientStates /\ thread[c] \in ThreadStates /\ now \in Nat
    BY DEF TypeOK
  <1>. QED BY <1>2, <1>3, <1>4, <1>5, <1>6, <1>7, Clocks

\* The type invariant is kept.
LEMMA TypeStep ==
  ASSUME TypeOK, \A c \in Clients : AskOK(c), \A c \in Clients : OwnOK(c), [Next]_vars
  PROVE  TypeOK'
  <1>1. CASE UNCHANGED vars
    BY <1>1 DEF TypeOK, vars
  <1>2. CASE Tick
    BY <1>2 DEF Tick, TypeOK
  <1>3. CASE TimeToLive
    BY <1>3, NoLockIsNone DEF TimeToLive, TypeOK
  <1>4. ASSUME NEW c \in Clients, ClientStep(c)
        PROVE  TypeOK'
    <2>1. Clock(c) \in Nat /\ AskOK(c) /\ OwnOK(c)
      BY GoOn
    <2>2. NoLock \in OneLock /\ Leases \subseteq Nat
      BY NoLockIsNone, TimeAssumption
    <2>3. /\ client[c] \in ClientStates /\ thread[c] \in ThreadStates
          /\ Idle \in ClientStates /\ Off \in ThreadStates
      BY GoOn
    <2>4. SUFFICES /\ now' \in Nat
                   /\ record' \in OneLock
                   /\ \/ UNCHANGED client
                      \/ \E s \in ClientStates : Become(c, s)
                   /\ \/ UNCHANGED thread
                      \/ \E t \in ThreadStates : Thread(c, t)
                   /\ UNCHANGED drawn \/ Draw(c)
      BY GoOn DEF TypeOK
    <2>. USE <2>2, <2>3 DEF TypeOK
    <2>5. CASE \E lease \in Leases : StartAcquire(c, lease)
      <3>1. PICK lease \in Leases : StartAcquire(c, lease)
        BY <2>5
      <3>2. [Idle EXCEPT !.pc = "read", !.lease = lease, !.since = Clock(c)] \in ClientStates
        BY <2>1 DEF Idle, ClientStates
      <3>. QED BY <3>1, <3>2 DEF StartAcquire
    <2>6. CASE Read(c)
      <3>1. [client[c] EXCEPT !.pc = "decide", !.found = record] \in ClientStates
        BY DEF ClientStates
      <3>. QED BY <2>6, <3>1 DEF Read
    <2>7. CASE Decide(c)
      <3>1. client[c].found.rvn \in Rvns \cup {NoRvn}
        <4>1. client[c].found \in OneLock
          BY DEF ClientStates
        <4>. QED BY <4>1 DEF OneLock, Locks, NoLock
      <3>2. [client[c] EXCEPT !.pc = "put", !.at = Clock(c)] \in ClientStates
        BY <2>1 DEF ClientStates
      <3>3. [client[c] EXCEPT !.pc = "upsert", !.at = Clock(c)] \in ClientStates
        BY <2>1 DEF ClientStates
      <3>4. [client[c] EXCEPT !.pc = "wait", !.seen = client[c].found.rvn,
                              !.found = NoLock] \in ClientStates
        BY <3>1 DEF ClientStates
      <3>. QED BY <2>7, <3>2, <3>3, <3>4 DEF Decide
    <2>8. ASSUME client[c].pc \in Acquisition
          PROVE  Fresh(c, client[c].at, client[c].lease) \in OneLock
      <3>1. client[c].lease \in Leases /\ client[c].at \in Nat
        BY <2>1, <2>8 DEF AskOK, ClientStates
      <3>. QED BY <3>1, FreshLock
    <2>9. CASE Put(c) \/ Upsert(c)
      <3>1. client[c].pc \in Acquisition
        BY <2>9 DEF Put, Upsert, Acquisition
      <3>2. CASE Obtain(c)
        <4> DEFINE l == Fresh(c, client[c].at, client[c].lease)
        <4>1. l \in OneLock
          BY <2>8, <3>1
        <4> HIDE DEF l
        <4>2. [Idle EXCEPT !.pc = "held", !.lock = l] \in ClientStates
          BY <4>1 DEF Idle, ClientStates
        <4>3. [Off EXCEPT !.pc = "ready", !.lock = l] \in ThreadStates
          BY <4>1 DEF Off, ThreadStates
        <4>. QED BY <3>2, <4>1, <4>2, <4>3 DEF Obtain, l
      <3>3. CASE Refused(c)
        <4>1. [client[c] EXCEPT !.pc = "wait", !.found = NoLock, !.at = 0] \in ClientStates
          BY DEF ClientStates
        <4>. QED BY <3>3, <4>1 DEF Refused
      <3>. QED BY <2>9, <3>2, <3>3 DEF Put, Upsert
    <2>10. CASE Wake(c)
      <3>1. [client[c] EXCEPT !.pc = "read"] \in ClientStates
        BY DEF ClientStates
      <3>. QED BY <2>10, <3>1 DEF Wake, Goto
    <2>11. CASE CallFails(c)
      <3>1. Fresh(c, client[c].at, client[c].lease) \in OneLock
        BY <2>8, <2>11 DEF CallFails, Acquisition
      <3>. QED BY <2>11, <3>1 DEF CallFails
    <2>12. CASE RenewStart(c)
      <3>1. [thread[c] EXCEPT !.pc = "call", !.at = Clock(c)] \in ThreadStates
        BY <2>1 DEF ThreadStates
      <3>. QED BY <2>12, <3>1 DEF RenewStart
    <2>13. CASE Renew(c)
      <3> DEFINE l == Fresh(c, thread[c].at, thread[c].lock.lease)
      <3>1. thread[c].lock \in Locks /\ thread[c].at \in Nat
        BY <2>1, <2>13 DEF Renew, OwnOK, ThreadStates
      <3>2. l \in OneLock
        BY <3>1, FreshLock DEF Locks
      <3> HIDE DEF l
      <3>3. [thread[c] EXCEPT !.pc = "reply", !.at = 0, !.next = l] \in ThreadStates
        BY <3>2 DEF ThreadStates
      <3>4. [thread[c] EXCEPT !.pc = "off", !.at = 0] \in ThreadStates
        BY DEF ThreadStates
      <3>. QED BY <2>13, <3>2, <3>3, <3>4 DEF Renew, l
    <2>14. CASE RenewReply(c)
      <3>1. [thread[c] EXCEPT !.pc = "ready", !.lock = thread[c].next, !.next = NoLock]
               \in ThreadStates
        BY DEF ThreadStates
      <3>. QED BY <2>14, <3>1 DEF RenewReply
    <2>15. CASE Release(c)
      <3>1. Known(c) \in OneLock
        BY DEF Known, ClientStates, ThreadStates
      <3>2. [client[c] EXCEPT !.pc = "delete", !.lock = Known(c)] \in ClientStates
        BY <3>1 DEF ClientStates
      <3>3. [thread[c] EXCEPT !.stop = TRUE] \in ThreadStates
        BY DEF ThreadStates
      <3>. QED BY <2>15, <3>2, <3>3 DEF Release
    <2>16. CASE Delete(c)
      BY <2>16 DEF Delete
    <2>17. CASE Crash(c)
      BY <2>17 DEF Crash
    <2>. QED BY <1>4, <2>5, <2>6, <2>7, <2>9, <2>10, <2>11, <2>12, <2>13, <2>14,
                <2>15, <2>16, <2>17 DEF ClientStep
  <1>. QED BY <1>1, <1>2, <1>3, <1>4, Cases

----------------------------------------------------------------------------
\* A step of another client leaves c alone, and the item too unless no lock
\* that the item covers for c is running any more.
LEMMA OtherStep ==
  ASSUME IInv, NEW c \in Clients, NEW d \in Clients, c # d, ClientStep(d)
  PROVE  /\ client'[c] = client[c] /\ thread'[c] = thread[c] /\ now' = now
         /\ record' = record \/ \A l \in OneLock : Covered(c, l) => ~Running(c, l)
  <1>1. TypeOK /\ OwnOK(d) /\ LateOK(d)
    BY SMTT(30) DEF IInv
  <1>2. client'[c] = client[c] /\ thread'[c] = thread[c] /\ now' = now
    <2>1. ASSUME NEW s PROVE Become(d, s) => client'[c] = client[c]
      BY <1>1 DEF Become, TypeOK
    <2>2. ASSUME NEW t PROVE Thread(d, t) => thread'[c] = thread[c]
      BY <1>1 DEF Thread, TypeOK
    <2>. QED BY <2>1, <2>2 DEF ClientStep, StartAcquire, Read, Decide, Put, Upsert,
                Obtain, Refused, Wake, CallFails, RenewStart, Renew, RenewReply,
                Release, Delete, Crash, Goto
  <1>3. SUFFICES ASSUME record' # record
                 PROVE  \A l \in OneLock : Covered(c, l) => ~Running(c, l)
    BY <1>2
  <1>4. record \in OneLock
    BY <1>1 DEF TypeOK
  <1>5. CASE record = NoLock
    BY <1>1, <1>5, CoverEnds
  <1>6. CASE Expired(record, Clock(d))
    BY <1>1, <1>6, CoverEnds
  <1>7. CASE record # NoLock /\ record.rvn[1] = d
    BY <1>1, <1>4, <1>7, CoverEnds, LockFields
  <1>8. CASE Put(d) \/ Upsert(d) \/ CallFails(d)
    BY <1>1, <1>3, <1>5, <1>6, <1>8 DEF Put, Upsert, CallFails, Refused, LateOK
  <1>9. CASE Renew(d) \/ Delete(d)
    <2>1. CASE record = NoLock
      BY <1>5, <2>1
    <2>2. CASE record # NoLock
      <3>1. /\ thread[d].lock \in OneLock /\ client[d].lock \in OneLock
        BY <1>1 DEF TypeOK, ClientStates, ThreadStates
      <3>2. CASE Renew(d)
        <4>1. record.rvn = thread[d].lock.rvn /\ thread[d].lock \in Locks
          BY <1>1, <1>3, <3>2 DEF Renew, OwnOK
        <4>. QED BY <1>1, <1>7, <2>2, <4>1, NoLockIsNone DEF OwnOK
      <3>3. CASE Delete(d)
        <4>1. record.rvn = client[d].lock.rvn /\ client[d].lock \in Locks
          BY <1>1, <1>3, <3>3 DEF Delete, OwnOK
        <4>. QED BY <1>1, <1>7, <2>2, <4>1, NoLockIsNone DEF OwnOK
      <3>. QED BY <1>9, <3>2, <3>3
    <2>. QED BY <2>1, <2>2
  <1>. QED BY <1>3, <1>8, <1>9 DEF ClientStep, StartAcquire, Read, Decide, Wake,
              RenewStart, RenewReply, Release, Crash

\* What is invariant of c stays so when c is left alone.
LEMMA LeftAlone ==
  ASSUME IInv, NEW c \in Clients,
         client'[c] = client[c], thread'[c] = thread[c], now' = now,
         record' = record \/ \A l \in OneLock : Covered(c, l) => ~Running(c, l)
  PROVE  (AskOK(c) /\ OwnOK(c) /\ TimesOK(c) /\ LateOK(c) /\ HoldOK(c))'
  <1>1. /\ TypeOK /\ AskOK(c) /\ OwnOK(c) /\ TimesOK(c) /\ LateOK(c) /\ HoldOK(c)
    BY DEF IInv
  <1>2. AskOK(c)' /\ OwnOK(c)' /\ TimesOK(c)' /\ LateOK(c)'
    BY <1>1 DEF AskOK, OwnOK, TimesOK, LateOK, Clock, Expired
  <1>3. Known(c)' = Known(c)
    BY DEF Known
  <1>4. ASSUME NEW l \in OneLock, Covered(c, l)
        PROVE  Covered(c, l)'
    BY <1>4 DEF Covered, Running, Clock, Expired
  <1>5. Known(c) \in OneLock /\ thread[c].next \in OneLock
    BY <1>1 DEF Known, TypeOK, ClientStates, ThreadStates
  <1>6. HoldOK(c)'
    BY <1>1, <1>3, <1>4, <1>5 DEF HoldOK, Covered
  <1>. QED BY <1>2, <1>6

\* The clock ticks: leases only end.
LEMMA TickStep ==
  ASSUME IInv, Tick, NEW c \in Clients
  PROVE  (AskOK(c) /\ OwnOK(c) /\ TimesOK(c) /\ LateOK(c) /\ HoldOK(c))'
  <1>1. /\ TypeOK /\ AskOK(c) /\ OwnOK(c) /\ TimesOK(c) /\ LateOK(c) /\ HoldOK(c)
    BY DEF IInv
  <1>2. /\ UNCHANGED <<record, client, thread>>
        /\ Clock(c) \in Nat /\ Clock(c)' = Clock(c) + 1 /\ Skew \in Nat
    BY <1>1, TimeAssumption, Clocks DEF Tick, Clock, TypeOK
  <1>3. \A l \in OneLock : l.checkin \in Nat /\ l.lease \in Nat
    BY LockFields
  <1>4. \A l \in OneLock : Covered(c, l) => Covered(c, l)'
    BY <1>2, <1>3 DEF Covered, Running, Expired
  <1>5. /\ client[c].at \in Nat /\ thread[c].at \in Nat
        /\ client[c].found \in OneLock
        /\ thread[c].lock \in OneLock /\ thread[c].next \in OneLock
        /\ Known(c) \in OneLock
    BY <1>1 DEF TypeOK, ClientStates, ThreadStates, Known
  <1>6. AskOK(c)' /\ OwnOK(c)'
    BY <1>1, <1>2 DEF AskOK, OwnOK
  <1>7. TimesOK(c)'
    BY <1>1, <1>2, <1>3, <1>5 DEF TimesOK
  <1>8. LateOK(c)'
    BY <1>1, <1>2, <1>3, <1>5 DEF LateOK, Expired
  <1>9. HoldOK(c)'
    BY <1>1, <1>2, <1>4, <1>5 DEF HoldOK, Known
  <1>. QED BY <1>6, <1>7, <1>8, <1>9

\* c's own steps: what it obtains or renews, the item covers.
LEMMA OwnStep ==
  ASSUME IInv, NEW c \in Clients, ClientStep(c)
  PROVE  (AskOK(c) /\ OwnOK(c) /\ TimesOK(c) /\ LateOK(c) /\ HoldOK(c))'
  <1>1. /\ TypeOK /\ AskOK(c) /\ OwnOK(c) /\ TimesOK(c) /\ LateOK(c) /\ HoldOK(c)
    BY DEF IInv
  <1>2. /\ client[c] \in ClientStates /\ thread[c] \in ThreadStates
        /\ Clock(c) \in Nat
    BY <1>1, GoOn
  <1>3. /\ \A s : Become(c, s) => client'[c] = s
        /\ \A t : Thread(c, t) => thread'[c] = t
    BY <1>1, SMTT(30) DEF TypeOK, Become, Thread
  <1>4. now' = now /\ Clock(c)' = Clock(c)
    BY DEF ClientStep, StartAcquire, Read, Decide, Put, Upsert, Obtain, Refused, Wake,
           CallFails, RenewStart, Renew, RenewReply, Release, Delete, Crash, Clock
  <1>5. /\ thread[c].lock \in OneLock /\ thread[c].next \in OneLock
        /\ client[c].lock \in OneLock /\ record \in OneLock
        /\ NoLock.checkin = 0 /\ NoLock \notin Locks
    BY <1>1, <1>2, NoLockIsNone DEF TypeOK, ClientStates, ThreadStates, NoLock
  <1>6. ASSUME client'[c].pc # "held", client'[c].pc # "upsert",
               UNCHANGED thread \/ Thread(c, Off),
               client'[c].pc \in Acquisition => client'[c].lease \in Leases,
               client'[c].pc = "delete" => client'[c].lock \in Locks,
               client'[c].lock # NoLock => client'[c].lock.rvn[1] = c,
               client'[c].at <= Clock(c)
        PROVE  (AskOK(c) /\ OwnOK(c) /\ TimesOK(c) /\ LateOK(c) /\ HoldOK(c))'
    <2>1. thread'[c] = thread[c] \/ thread'[c] = Off
      BY <1>3, <1>6
    <2>2. AskOK(c)' /\ LateOK(c)' /\ HoldOK(c)'
      BY <1>6 DEF AskOK, LateOK, HoldOK
    <2>3. OwnOK(c)'
      BY <1>1, <1>6, <2>1 DEF OwnOK, Off
    <2>4. TimesOK(c)'
      BY <1>1, <1>2, <1>4, <1>5, <1>6, <2>1 DEF TimesOK, Off
    <2>. QED BY <2>2, <2>3, <2>4
  <1>7. CASE \E lease \in Leases : StartAcquire(c, lease)
    <2>1. PICK lease \in Leases : StartAcquire(c, lease)
      BY <1>7
    <2>2. /\ client'[c] = [Idle EXCEPT !.pc = "read", !.lease = lease, !.since = Clock(c)]
          /\ Thread(c, Off)
      BY <1>3, <2>1 DEF StartAcquire
    <2>3. /\ client'[c].pc = "read" /\ client'[c].lease \in Leases
          /\ client'[c].at = 0 /\ client'[c].lock = NoLock
      BY <2>2 DEF Idle
    <2>. QED BY <1>2, <1>6, <2>2, <2>3
  <1>8. CASE Read(c)
    BY <1>1, <1>2, <1>3, <1>6, <1>8
       DEF Read, AskOK, OwnOK, TimesOK, ClientStates, Acquisition
  <1>9. CASE Decide(c)
    <2>1. CASE client'[c].pc # "upsert"
      <3>1. /\ client[c].pc = "decide" /\ UNCHANGED thread
            /\ \/ client'[c] = [client[c] EXCEPT !.pc = "put", !.at = Clock(c)]
               \/ client'[c] = [client[c] EXCEPT !.pc = "wait", !.seen = client[c].found.rvn,
                                                 !.found = NoLock]
        BY <1>2, <1>3, <1>9, <2>1 DEF Decide, ClientStates
      <3>2. /\ client'[c].pc \in {"put", "wait"} /\ client'[c].lease = client[c].lease
            /\ client'[c].lock = client[c].lock
            /\ client'[c].at \in {client[c].at, Clock(c)}
        BY <1>2, <3>1 DEF ClientStates
      <3>. QED BY <1>1, <1>2, <1>6, <3>1, <3>2 DEF AskOK, OwnOK, TimesOK, Acquisition
    <2>2. CASE client'[c].pc = "upsert"
      <3>1. /\ client[c].found # NoLock /\ Expired(client[c].found, Clock(c))
            /\ client'[c] = [client[c] EXCEPT !.pc = "upsert", !.at = Clock(c)]
            /\ thread' = thread
        BY <1>2, <1>3, <1>9, <2>2 DEF Decide, ClientStates
      <3>2. client[c].found \in Locks
        BY <1>2, <3>1 DEF ClientStates, OneLock
      <3>3. LateOK(c)'
        BY <1>2, <1>4, <3>1, <3>2 DEF LateOK, Expired, ClientStates
      <3>4. AskOK(c)' /\ OwnOK(c)' /\ TimesOK(c)' /\ HoldOK(c)'
        BY <1>1, <1>2, <1>4, <1>9, <3>1
           DEF Decide, AskOK, OwnOK, TimesOK, HoldOK, ClientStates, Acquisition
      <3>. QED BY <3>3, <3>4
    <2>. QED BY <2>1, <2>2
  <1>10. CASE Put(c) \/ Upsert(c)
    <2>1. client[c].lease \in Leases /\ client[c].at \in Nat /\ client[c].at <= Clock(c)
      BY <1>1, <1>2, <1>10 DEF Put, Upsert, AskOK, TimesOK, ClientStates, Acquisition
    <2>2. CASE Refused(c)
      <3>1. /\ client'[c] = [client[c] EXCEPT !.pc = "wait", !.found = NoLock, !.at = 0]
            /\ UNCHANGED thread
        BY <1>3, <2>2 DEF Refused
      <3>2. /\ client'[c].pc = "wait" /\ client'[c].lease = client[c].lease
            /\ client'[c].lock = client[c].lock /\ client'[c].at = 0
        BY <1>2, <3>1 DEF ClientStates
      <3>. QED BY <1>1, <1>2, <1>6, <2>1, <3>1, <3>2 DEF OwnOK
    <2>3. CASE Obtain(c)
      <3> DEFINE l == Fresh(c, client[c].at, client[c].lease)
      <3>1. /\ l \in Locks /\ l \in OneLock /\ l.rvn[1] = c /\ l.checkin = client[c].at
            /\ l.checkin \in Nat /\ l.lease \in Nat
        BY <1>1, <2>1, FreshLock, LockFields
      <3>2. /\ record' = l
            /\ client'[c] = [Idle EXCEPT !.pc = "held", !.lock = l]
            /\ \/ thread'[c] = [Off EXCEPT !.pc = "ready", !.lock = l]
               \/ thread'[c] = Off
        BY <1>3, <2>3 DEF Obtain
      <3> HIDE DEF l
      <3>3. client'[c].pc = "held" /\ client'[c].lock = l /\ client'[c].at = 0
        BY <3>2 DEF Idle
      <3>4. /\ thread'[c].pc \in {"ready", "off"} /\ ~thread'[c].stop
            /\ thread'[c].pc = "ready" => thread'[c].lock = l
            /\ thread'[c].lock \in {l, NoLock}
            /\ thread'[c].next = NoLock /\ thread'[c].at = 0
        <4>1. CASE thread'[c] = Off
          BY <4>1 DEF Off
        <4>2. CASE thread'[c] = [Off EXCEPT !.pc = "ready", !.lock = l]
          BY <4>2 DEF Off
        <4>. QED BY <3>2, <4>1, <4>2
      <3>5. Known(c)' = l
        BY <3>3, <3>4 DEF Known
      <3>6. HoldOK(c)'
        BY <3>1, <3>2, <3>4, <3>5 DEF HoldOK, Covered
      <3>7. AskOK(c)' /\ OwnOK(c)' /\ LateOK(c)'
        BY <3>1, <3>3, <3>4 DEF AskOK, OwnOK, LateOK, Acquisition
      <3>8. TimesOK(c)'
        BY <1>2, <1>4, <1>5, <2>1, <3>1, <3>3, <3>4 DEF TimesOK
      <3>. QED BY <3>6, <3>7, <3>8
    <2>. QED BY <1>10, <2>2, <2>3 DEF Put, Upsert
  <1>11. CASE Wake(c)
    BY <1>1, <1>2, <1>3, <1>6, <1>11
       DEF Wake, Goto, AskOK, OwnOK, TimesOK, Idle, ClientStates, Acquisition
  <1>12. CASE CallFails(c)
    BY <1>2, <1>3, <1>6, <1>12 DEF CallFails, Idle, Acquisition
  <1>13. CASE Release(c)
    <2>1. Known(c) \in Locks /\ Known(c).rvn[1] = c
      BY <1>1, <1>13, KnownLock DEF Release
    <2>2. /\ client'[c] = [client[c] EXCEPT !.pc = "delete", !.lock = Known(c)]
          /\ thread'[c] = Off \/ thread'[c] = [thread[c] EXCEPT !.stop = TRUE]
      BY <1>3, <1>13 DEF Release
    <2>3. AskOK(c)' /\ LateOK(c)' /\ HoldOK(c)'
      BY <1>2, <2>2 DEF AskOK, LateOK, HoldOK, Acquisition, ClientStates
    <2>4. OwnOK(c)'
      BY <1>1, <1>2, <2>1, <2>2 DEF OwnOK, Off, ClientStates, ThreadStates
    <2>5. TimesOK(c)'
      BY <1>1, <1>2, <1>4, <1>5, <2>2 DEF TimesOK, Off, ClientStates, ThreadStates
    <2>. QED BY <2>3, <2>4, <2>5
  <1>14. CASE Delete(c)
    BY <1>2, <1>3, <1>6, <1>14 DEF Delete, Idle, Acquisition
  <1>15. CASE Crash(c)
    BY <1>2, <1>3, <1>6, <1>15 DEF Crash, Idle, Acquisition
  <1>16. ASSUME client' = client,
                thread'[c].lock # NoLock => thread'[c].lock.rvn[1] = c,
                thread'[c].next # NoLock => thread'[c].next.rvn[1] = c,
                thread'[c].pc # "off"    => thread'[c].lock \in Locks,
                thread'[c].pc = "reply"  => thread'[c].next \in Locks,
                client[c].pc = "held"    => ~thread'[c].stop,
                thread'[c].lock.checkin <= Clock(c),
                thread'[c].next.checkin <= Clock(c),
                thread'[c].at <= Clock(c),
                thread'[c].pc = "call" => thread'[c].lock.checkin <= thread'[c].at,
                HoldOK(c)'
         PROVE  (AskOK(c) /\ OwnOK(c) /\ TimesOK(c) /\ LateOK(c) /\ HoldOK(c))'
    <2>1. AskOK(c)' /\ OwnOK(c)'
      BY <1>1, <1>16 DEF AskOK, OwnOK
    <2>2. TimesOK(c)' /\ LateOK(c)'
      BY <1>1, <1>4, <1>16 DEF TimesOK, LateOK, Expired
    <2>. QED BY <1>16, <2>1, <2>2
  <1>17. ASSUME NEW l \in OneLock, Covered(c, l), record' = record
         PROVE  Covered(c, l)'
    BY <1>4, <1>17 DEF Covered, Running, Expired
  <1>18. CASE RenewStart(c)
    <2>1. /\ client' = client /\ record' = record /\ thread[c].pc = "ready"
          /\ \/ thread'[c] = Off /\ thread[c].stop
             \/ thread'[c] = [thread[c] EXCEPT !.pc = "call", !.at = Clock(c)]
      BY <1>3, <1>18 DEF RenewStart
    <2>2. CASE thread'[c] = Off /\ thread[c].stop
      <3>1. client[c].pc # "held"
        BY <1>1, <2>2 DEF OwnOK
      <3>2. HoldOK(c)'
        BY <2>1, <3>1 DEF HoldOK
      <3>. QED BY <1>2, <1>5, <1>16, <2>1, <2>2, <3>1, <3>2 DEF Off
    <2>3. CASE thread'[c] = [thread[c] EXCEPT !.pc = "call", !.at = Clock(c)]
      <3>1. /\ thread'[c].pc = "call" /\ thread'[c].at = Clock(c)
            /\ thread'[c].lock = thread[c].lock /\ thread'[c].next = thread[c].next
            /\ thread'[c].stop = thread[c].stop
        BY <1>2, <2>3 DEF ThreadStates
      <3>2. Known(c)' = Known(c) /\ Known(c) \in OneLock
        BY <1>5, <2>1, <3>1 DEF Known
      <3>3. HoldOK(c)'
        BY <1>1, <1>17, <2>1, <3>1, <3>2 DEF HoldOK
      <3>. QED BY <1>1, <1>2, <1>16, <2>1, <3>1, <3>3 DEF OwnOK, TimesOK
    <2>. QED BY <2>1, <2>2, <2>3
  <1>19. CASE Renew(c)
    <2> DEFINE l == Fresh(c, thread[c].at, thread[c].lock.lease)
    <2>1. /\ thread[c].pc = "call" /\ thread[c].lock \in Locks /\ thread[c].at \in Nat
          /\ thread[c].lock.checkin <= thread[c].at /\ thread[c].at <= Clock(c)
      BY <1>1, <1>2, <1>19 DEF Renew, OwnOK, TimesOK, ThreadStates
    <2>2. /\ l \in Locks /\ l \in OneLock /\ l.rvn[1] = c /\ l.checkin = thread[c].at
          /\ l.lease = thread[c].lock.lease /\ l.lease \in Nat
          /\ thread[c].lock.checkin \in Nat
      <3>1. thread[c].lock.lease \in Leases /\ thread[c].lock.checkin \in Nat
            /\ thread[c].lock.lease \in Nat
        BY <1>5, <2>1, LockFields
      <3>. QED BY <1>1, <2>1, <3>1, FreshLock
    <2>3. /\ client' = client
          /\ record' = record \/ record' = l
          /\ \/ record' = l /\ thread'[c] = [thread[c] EXCEPT !.pc = "reply", !.at = 0, !.next = l]
             \/ thread'[c] = [thread[c] EXCEPT !.pc = "off", !.at = 0]
             \/ thread'[c] = Off /\ thread[c].stop
      BY <1>3, <1>19 DEF Renew
    <2> HIDE DEF l
    <2>4. CASE thread'[c] = Off /\ thread[c].stop
      <3>1. client[c].pc # "held"
        BY <1>1, <2>4 DEF OwnOK
      <3>2. HoldOK(c)'
        BY <2>3, <3>1 DEF HoldOK
      <3>. QED BY <1>2, <1>5, <1>16, <2>3, <2>4, <3>1, <3>2 DEF Off
    <2>5. CASE ~(thread'[c] = Off /\ thread[c].stop)
      <3>1. /\ thread'[c].lock = thread[c].lock /\ thread'[c].at = 0
            /\ thread'[c].stop = thread[c].stop
            /\ \/ /\ thread'[c].pc = "reply" /\ thread'[c].next = l /\ record' = l
               \/ /\ thread'[c].pc = "off" /\ thread'[c].next = thread[c].next
        BY <1>2, <2>3, <2>5 DEF ThreadStates
      <3>2. Known(c) = thread[c].lock /\ Known(c)' = Known(c)
        BY <1>5, <2>1, <3>1 DEF Known
      <3>3. ASSUME record' = l PROVE HoldOK(c)'
        BY <2>1, <2>2, <3>1, <3>2, <3>3 DEF HoldOK, Covered
      <3>4. ASSUME record' = record, thread'[c].pc = "off" PROVE HoldOK(c)'
        BY <1>1, <1>5, <1>17, <2>3, <3>1, <3>2, <3>4 DEF HoldOK
      <3>5. HoldOK(c)'
        BY <2>3, <3>1, <3>3, <3>4
      <3>. QED BY <1>1, <1>2, <1>16, <2>1, <2>2, <2>3, <3>1, <3>5 DEF OwnOK, TimesOK
    <2>. QED BY <2>4, <2>5
  <1>20. CASE RenewReply(c)
    <2>1. /\ client' = client /\ record' = record /\ thread[c].pc = "reply"
          /\ thread'[c] = [thread[c] EXCEPT !.pc = "ready", !.lock = thread[c].next,
                                            !.next = NoLock]
      BY <1>3, <1>20 DEF RenewReply
    <2>2. /\ thread'[c].pc = "ready" /\ thread'[c].lock = thread[c].next
          /\ thread'[c].next = NoLock /\ thread'[c].at = thread[c].at
          /\ thread'[c].stop = thread[c].stop
      BY <1>2, <2>1 DEF ThreadStates
    <2>3. thread[c].next \in Locks
      BY <1>1, <2>1 DEF OwnOK
    <2>4. Known(c)' = thread[c].next
      BY <1>5, <2>2, <2>3 DEF Known
    <2>5. HoldOK(c)'
      BY <1>1, <1>5, <1>17, <2>1, <2>2, <2>4 DEF HoldOK
    <2>. QED BY <1>1, <1>2, <1>5, <1>16, <2>1, <2>2, <2>3, <2>5 DEF OwnOK, TimesOK
  <1>. QED BY <1>7, <1>8, <1>9, <1>10, <1>11, <1>12, <1>13, <1>14, <1>15, <1>18, <1>19,
              <1>20 DEF ClientStep

\* Deletion by time to live is late enough for every lock a client knows.
LEMMA TimeToLiveStep ==
  ASSUME IInv, TimeToLive, NEW c \in Clients
  PROVE  \A l \in OneLock : Covered(c, l) => ~Running(c, l)
  <1>1. Expired(record, now + Skew) /\ TypeOK
    BY DEF TimeToLive, IInv
  <1>. QED BY <1>1, CoverEnds

(***************************************************************************)
(* What the clients know of their locks is covered by the item, always.    *)
(***************************************************************************)
THEOREM MutexInvariant == Spec => []IInv
  <1>1. Init => IInv
    <2>. SUFFICES ASSUME Init PROVE IInv
      OBVIOUS
    <2>1. NoLock \in OneLock
      BY NoLockIsNone
    <2>2. Idle \in ClientStates
      BY <2>1 DEF Idle, ClientStates
    <2>3. Off \in ThreadStates
      BY <2>1 DEF Off, ThreadStates
    <2>4. TypeOK
      BY <2>1, <2>2, <2>3 DEF Init, TypeOK
    <2>5. ASSUME NEW c \in Clients
          PROVE  AskOK(c) /\ OwnOK(c) /\ TimesOK(c) /\ LateOK(c) /\ HoldOK(c)
      <3>1. client[c] = Idle /\ thread[c] = Off /\ Clock(c) \in Nat
        BY <2>4, GoOn DEF Init
      <3>. QED BY <3>1 DEF AskOK, OwnOK, TimesOK, LateOK, HoldOK, Idle, Off, NoLock,
                           Acquisition
    <2>. QED BY <2>4, <2>5 DEF IInv
  <1>2. IInv /\ [Next]_vars => IInv'
    <2>. SUFFICES ASSUME IInv, [Next]_vars PROVE IInv'
      OBVIOUS
    <2>1. TypeOK'
      BY TypeStep DEF IInv
    <2>2. SUFFICES ASSUME NEW c \in Clients
                   PROVE  (AskOK(c) /\ OwnOK(c) /\ TimesOK(c) /\ LateOK(c) /\ HoldOK(c))'
      BY <2>1 DEF IInv
    <2>3. CASE UNCHANGED vars
      BY <2>3, LeftAlone DEF vars
    <2>4. CASE Tick
      BY <2>4, TickStep
    <2>5. CASE TimeToLive
      BY <2>5, TimeToLiveStep, LeftAlone DEF TimeToLive
    <2>6. ASSUME NEW d \in Clients, ClientStep(d)
          PROVE  (AskOK(c) /\ OwnOK(c) /\ TimesOK(c) /\ LateOK(c) /\ HoldOK(c))'
      <3>1. CASE d = c
        BY <2>6, <3>1, OwnStep
      <3>2. CASE d # c
        BY <2>6, <3>2, OtherStep, LeftAlone
      <3>. QED BY <3>1, <3>2
    <2>. QED BY <2>3, <2>4, <2>5, <2>6, Cases
  <1>. QED BY <1>1, <1>2, PTL DEF Spec

\* The item, the clients and their threads hold values of their types.
THEOREM TypeCorrect == Spec => []TypeOK
  <1>1. IInv => TypeOK
    BY DEF IInv
  <1>. QED BY <1>1, MutexInvariant, PTL

\* A lock that is held and runs is covered by an item of its holder.
LEMMA HoldersHaveIt ==
  ASSUME IInv, NEW c \in Clients, Holding(c)
  PROVE  /\ Known(c) \in OneLock /\ Covered(c, Known(c)) /\ Running(c, Known(c))
         /\ record.rvn[1] = c
  <1>1. TypeOK /\ OwnOK(c) /\ HoldOK(c)
    BY DEF IInv
  <1>2. Known(c) \in OneLock
    BY <1>1, KnownLock DEF Holding
  <1>. QED BY <1>1, <1>2 DEF Holding, HoldOK, Covered, Running

(***************************************************************************)
(* Two clients never hold the lock at once within their leases, whatever   *)
(* the leases and the differences between their clocks (acquire_lock,      *)
(* renew_lock, release_lock).                                              *)
(***************************************************************************)
THEOREM Exclusive == Spec => []MutualExclusion
  <1>1. IInv => MutualExclusion
    <2>. SUFFICES ASSUME IInv, NEW c \in Clients, NEW d \in Clients, Holding(c), Holding(d)
                  PROVE  c = d
      BY DEF MutualExclusion
    <2>. QED BY HoldersHaveIt
  <1>. QED BY <1>1, MutexInvariant, PTL

(***************************************************************************)
(* While a lease runs, nobody but its holder changes the item: no          *)
(* take-over, late release, late renewal or deletion by time to live.      *)
(***************************************************************************)
THEOREM LeaseStands == Spec => RunningLeaseStands
  <1>1. ASSUME IInv, [Next]_vars, NEW c \in Clients, Holding(c), record' # record
        PROVE  record'.rvn[1] = c
    <2>1. /\ Known(c) \in OneLock /\ Covered(c, Known(c)) /\ Running(c, Known(c))
          /\ client[c].pc = "held" /\ TypeOK /\ OwnOK(c)
      BY <1>1, HoldersHaveIt DEF Holding, IInv
    <2>2. ~TimeToLive
      BY <1>1, <2>1, TimeToLiveStep
    <2>3. PICK d \in Clients : ClientStep(d)
      BY <1>1, <2>2, Cases DEF Tick, vars
    <2>4. d = c
      BY <1>1, <2>1, <2>3, OtherStep, SMTT(30)
    <2>5. Renew(c)
      BY <1>1, <2>1, <2>3, <2>4
         DEF ClientStep, StartAcquire, Read, Decide, Put, Upsert, Wake, CallFails,
             RenewStart, RenewReply, Release, Delete, Crash
    <2>6. record' = Fresh(c, thread[c].at, thread[c].lock.lease)
      BY <1>1, <2>5 DEF Renew
    <2>. QED BY <2>6 DEF Fresh
  <1>2. IInv /\ [Next]_vars =>
          [\A c \in Clients : Holding(c) /\ record' # record => record'.rvn[1] = c]_vars
    BY <1>1
  <1>. QED BY <1>2, MutexInvariant, PTL DEF Spec, RunningLeaseStands

=============================================================================
