---------------------------- MODULE ProfilePurge ----------------------------
(***************************************************************************)
(* Privacy searches and purges of profiles.  A search notes where a        *)
(* profile has data; a purge, asked for at the backend and carried out by  *)
(* the async lambda, asks the excise processor to take the profile out of  *)
(* each file.  A purge is not retried (retryAttempts: 0).                  *)
(*                                                                         *)
(* The same purge deletes the profile from the profile store and its pairs *)
(* from the match table, in goroutines of their own that share no data     *)
(* with this one; they are left out.                                       *)
(***************************************************************************)
EXTENDS ExciseProcessor

CONSTANTS
    MaxSearches,  \* bound: searches
    SearchAnytime \* bound: whether a search may run while files are worked on

ASSUME PurgeBounds == MaxSearches \in Nat /\ SearchAnytime \in BOOLEAN

VARIABLES
    found,     \* main record of a profile: the locations the last search found
    searches,  \* number of searches
    purge,     \* the purges asked for
    cut        \* history: whether a purge was cut short

purgeVars == <<found, searches, purge, cut>>
vars == <<exciseVars, status, purgeVars>>

Runs == 1 .. MaxRuns
NotAsked == [pc |-> "none", ids |-> {}, found |-> [c \in ConnectIds |-> {}], left |-> {}]

\* Each profile has been searched for once, before anything is purged.
Init ==
    /\ ExciseInit
    /\ status   = [l \in ConnectIds \X Keys |-> NoStatus]
    /\ found    = [c \in ConnectIds |-> 1 .. Paths]
    /\ searches = 0
    /\ purge    = [r \in Runs |-> NotAsked]
    /\ cut      = FALSE

\* The status of the locations ls[c] of the profiles cs.
SetStatus(cs, ls, s) ==
    status' = [cl \in ConnectIds \X Keys |->
                  IF cl[1] \in cs /\ cl[2] \in ls[cl[1]] THEN s ELSE status[cl]]

\* SearchForMatches: clears what is noted of the profile and looks for it anew.
Search(c) ==
    /\ searches < MaxSearches
    /\ SearchAnytime \/ \A w \in Workers : At(w, "idle")
    /\ searches' = searches + 1
    /\ found'  = [found EXCEPT ![c] = {k \in Keys : c \in file[k]}]
    /\ status' = [cl \in ConnectIds \X Keys |->
                     IF cl[1] = c THEN NoStatus ELSE status[cl]]
    /\ UNCHANGED <<exciseVars, purge, cut>>

\* CreatePrivacyDataPurge: marks what was found and invokes the async lambda.
Request(r, cs) ==
    /\ purge[r].pc = "none"
    /\ \A q \in Runs : q < r => purge[q].pc # "none"
    /\ cs # {}
    /\ SetStatus(cs, found, "invoked")
    /\ purge' = [purge EXCEPT ![r] = [NotAsked EXCEPT !.pc = "invoked", !.ids = cs]]
    /\ UNCHANGED <<exciseVars, found, searches, cut>>

\* PurgeProfileData.Execute up to the goroutines.
Start(r) ==
    /\ purge[r].pc = "invoked"
    /\ SetStatus(purge[r].ids, found, "running")
    /\ purge' = [purge EXCEPT ![r].pc = "running", ![r].found = found,
                              ![r].left = UNION {found[c] : c \in purge[r].ids}]
    /\ UNCHANGED <<exciseVars, found, searches, cut>>

Sent(r, k) == purge' = [purge EXCEPT ![r].left = @ \ {k}]

\* Mutant: one of them only.
OneIn(r, k) == {CHOOSE c \in purge[r].ids : k \in purge[r].found[c]}

\* purgeS3ChangeProcBucket: the ids of the purge that were found in this file.
IdsIn(r, k) == {c \in purge[r].ids : k \in purge[r].found[c]}

Send(r, k) ==
    /\ k \in purge[r].left
    /\ queue' = queue \cup {[path |-> k, ids |-> IdsIn(r, k), run |-> r]}
    /\ Sent(r, k)
    /\ UNCHANGED <<file, origin, lastKey, lock, lapsed, worker, status, faults, hurt>>
    /\ UNCHANGED <<found, searches, cut>>

\* A send that fails is only logged.
SendFails(r, k) ==
    /\ k \in purge[r].left
    /\ Fault /\ cut' = TRUE
    /\ Sent(r, k)
    /\ UNCHANGED <<fileVars, worker, status, hurt, found, searches>>

\* The async lambda ends before its goroutines do.
EndsEarly(r) ==
    /\ purge[r].pc = "running" /\ purge[r].left # {}
    /\ Fault /\ cut' = TRUE
    /\ purge' = [purge EXCEPT ![r].left = {}]
    /\ UNCHANGED <<fileVars, worker, status, hurt, found, searches>>

Work(r) ==
    \/ Start(r)
    \/ \E k \in Keys : Send(r, k)

Next ==
    \/ ExciseNext /\ UNCHANGED purgeVars
    \/ \E c \in ConnectIds : Search(c)
    \/ \E r \in Runs : \/ \E cs \in SUBSET ConnectIds : Request(r, cs)
                       \/ Work(r) \/ EndsEarly(r) \/ \E k \in Keys : SendFails(r, k)

Spec == Init /\ [][Next]_vars

(***************************************************************************)
(* The queue delivers what it holds (messages live 14 days, there is no    *)
(* dead letter queue), invocations that neither raise nor die go on, the   *)
(* lease of a dead one runs out.                                           *)
(***************************************************************************)
Fairness ==
    /\ \A w \in Workers : WF_vars(Proceed(w) /\ UNCHANGED purgeVars)
    /\ WF_vars(\E w \in Workers, m \in queue : Receive(w, m) /\ UNCHANGED purgeVars)
    /\ \A k \in Keys : WF_vars(LapseOfDead(k) /\ UNCHANGED purgeVars)
    /\ \A r \in Runs : WF_vars(Work(r))

LiveSpec == Spec /\ Fairness

----------------------------------------------------------------------------
(* Properties *)

\* GetPurgeStatus
IsPurgeRunning ==
    \E c \in ConnectIds, k \in Keys : status[<<c, k>>] \in {"invoked", "running"}

\* Whatever is raised, dies or is delivered twice, the purges asked for end, unless
\* one was cut short: then it is shown as running for good, nothing tries again.
PurgeEnds == IsPurgeRunning ~> (~IsPurgeRunning \/ cut)

\* Types.
TypeOK ==
    /\ file    \in [Keys -> SUBSET Records]
    /\ origin  \in [Keys -> 1 .. MaxKeys]
    /\ lastKey \in Paths .. MaxKeys
    /\ queue   \in SUBSET Messages
    /\ lock    \in [Keys -> Workers \cup {Nobody}]
    /\ lapsed  \in SUBSET Keys
    /\ worker  \in [Workers -> [pc : Body \cup {"idle", "wait", "mark"},
                                msg : Messages \cup {NoMessage}, rows : SUBSET Records,
                                temp : 0 .. MaxKeys, left : SUBSET ConnectIds]]
    /\ status  \in [ConnectIds \X Keys -> Statuses \cup {NoStatus}]
    /\ hurt    \in SUBSET Keys
    /\ found   \in [ConnectIds -> SUBSET Keys]
=============================================================================
