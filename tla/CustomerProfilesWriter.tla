------------------------ MODULE CustomerProfilesWriter ------------------------
(***************************************************************************)
(* The way of a profile into Amazon Connect Customer Profiles and out of   *)
(* it.  The profile store puts messages on the writer's queue; the writer  *)
(* lambda (ucp-cp-writer) calls the service.  The service names a new      *)
(* profile itself and publishes the name on a stream; the indexer lambda   *)
(* (ucp-cp-indexer) files it in a table.  Only with that entry can a       *)
(* profile be deleted: a deletion that does not find it is put back on the *)
(* queue with a delay, a given number of times.                            *)
(*                                                                         *)
(* The messages with the objects of a profile go with the one of the       *)
(* profile and are not shown; the service is external, and the time it     *)
(* takes is part of the lag of its stream.                                 *)
(***************************************************************************)
EXTENDS Naturals, Sequences, SequencesExt

CONSTANTS
    ProfileIds,   \* connect ids
    MaxNames,     \* bound: profiles the service ever creates
    MaxFaults,    \* bound: calls that fail, messages handled twice
    Ordered,      \* TRUE: the queue keeps its order; SQS does not promise it
    Prompt        \* TRUE: the indexer is never later than the retries of a deletion

ASSUME WriterBounds ==
    /\ {MaxNames, MaxFaults} \subseteq Nat
    /\ {Ordered, Prompt} \subseteq BOOLEAN

NumRetries  == 2             \* of a deletion
RetryEvents == 2             \* of an event, by the stream's event source
Names       == 1 .. MaxNames
NoName      == 0
Events      == [id : ProfileIds, name : Names, tries : 0 .. RetryEvents]

VARIABLES
    queue,    \* messages to the writer
    service,  \* the name the service has given to a profile, or NoName
    names,    \* how many names it has given
    stream,   \* CREATED events the indexer has yet to file
    index,    \* the table the indexer fills, or NoName
    reported, \* ids of which some failure was reported (DLQ, error table, caller)
    faults    \* how many faults there were

writerVars == <<queue, service, names, stream, index, reported, faults>>

PutMessage(p)       == [request |-> "put_profile", id |-> p, retries |-> 0]
DeleteMessage(p, n) == [request |-> "delete_profile", id |-> p, retries |-> n]
Messages == {PutMessage(p) : p \in ProfileIds}
            \cup {DeleteMessage(p, n) : p \in ProfileIds, n \in 0 .. NumRetries}

WriterInit ==
    /\ queue    = <<>>
    /\ service  = [p \in ProfileIds |-> NoName]
    /\ names    = 0
    /\ stream   = <<>>
    /\ index    = [p \in ProfileIds |-> NoName]
    /\ reported = {}
    /\ faults   = 0

Fault == faults < MaxFaults /\ faults' = faults + 1

\* The message the writer gets next, and what stays on the queue.
Taken(i)   == IF Ordered THEN i = 1 ELSE i \in 1 .. Len(queue)
Rest(i)    == RemoveAt(queue, i)
Indexed(p) == \A i \in 1 .. Len(stream) : stream[i].id # p
Queued(p)  == \E i \in 1 .. Len(queue) : queue[i].id = p

\* putprofile.go.  The service makes a profile of an id it does not know and updates
\* the profile of one it does.  The message stays when the lambda ends unacknowledged.
WriteProfile(i) ==
    LET p == queue[i].id IN
    /\ queue[i].request = "put_profile"
    /\ IF service[p] = NoName
       THEN /\ names < MaxNames
            /\ names'   = names + 1
            /\ service' = [service EXCEPT ![p] = names + 1]
            /\ stream'  = Append(stream, [id |-> p, name |-> names + 1, tries |-> 0])
       ELSE UNCHANGED <<names, service, stream>>
    /\ \/ queue' = Rest(i) /\ UNCHANGED faults
       \/ queue' = queue /\ Fault
    /\ UNCHANGED <<index, reported>>

\* Any request that the service refuses goes to the dead letter queue.
LoggedOnly(p) == reported
SentToDLQ(p)  == reported \cup {p}
Filed(p)      == SentToDLQ(p)

Refused(i) ==
    /\ Fault
    /\ queue'    = Rest(i)
    /\ reported' = Filed(queue[i].id)
    /\ UNCHANGED <<service, names, stream, index>>

\* deleteprofile.go, when the table has a name for the profile.  The name can be that of
\* an earlier profile: then the service has nothing to delete and says so.
DeleteFromService(i) ==
    LET p == queue[i].id IN
    /\ queue[i].request = "delete_profile"
    /\ index[p] # NoName
    /\ IF service[p] = index[p]
       THEN service' = [service EXCEPT ![p] = NoName] /\ UNCHANGED reported
       ELSE reported' = Filed(p) /\ UNCHANGED service
    /\ queue' = Rest(i)
    /\ UNCHANGED <<names, stream, index, faults>>

\* When it has none: back on the queue with one retry less.
OneMore(n)      == n + 1
OneLess(n)      == n - 1
RetriesAfter(n) == OneLess(n)

DeleteLater(i) ==
    LET m == queue[i] IN
    /\ m.request = "delete_profile"
    /\ index[m.id] = NoName
    /\ m.retries > 0
    /\ queue' = Append(Rest(i), DeleteMessage(m.id, RetriesAfter(m.retries)))
    /\ UNCHANGED <<service, names, stream, index, reported, faults>>

\* And when none is left: an error is logged, and none is returned.
GiveUp(i) ==
    LET m == queue[i] IN
    /\ m.request = "delete_profile"
    /\ index[m.id] = NoName
    /\ m.retries = 0
    /\ Prompt => Indexed(m.id)
    /\ queue' = Rest(i)
    /\ UNCHANGED <<service, names, stream, index, reported, faults>>

Write(i) ==
    /\ Taken(i)
    /\ \/ WriteProfile(i) \/ Refused(i)
       \/ DeleteFromService(i) \/ DeleteLater(i) \/ GiveUp(i)

\* handleRec of the indexer saves two entries; the one for deletions is the first.  An
\* event that fails is tried again, twice, and is then gone.
IndexProfile ==
    /\ stream # <<>>
    /\ index'  = [index EXCEPT ![Head(stream).id] = Head(stream).name]
    /\ stream' = Tail(stream)
    /\ UNCHANGED <<queue, service, names, reported, faults>>

IndexFails ==
    /\ stream # <<>>
    /\ Fault
    /\ stream' = IF Head(stream).tries < RetryEvents
                 THEN <<[Head(stream) EXCEPT !.tries = @ + 1]>> \o Tail(stream)
                 ELSE Tail(stream)
    /\ \/ index' = [index EXCEPT ![Head(stream).id] = Head(stream).name]
       \/ UNCHANGED index
    /\ UNCHANGED <<queue, service, names, reported>>

WriterNext ==
    \/ \E i \in 1 .. Len(queue) : Write(i)
    \/ IndexProfile \/ IndexFails
=============================================================================
