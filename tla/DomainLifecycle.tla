-------------------------- MODULE DomainLifecycle --------------------------
(***************************************************************************)
(* Creation and deletion of one domain by the async lambda.  A domain is   *)
(* made of many parts in several services: a configuration record, tables  *)
(* in Aurora and DynamoDB, mappings, rule sets, Glue tables, user groups   *)
(* and an export partition.  No transaction spans them: a creation that    *)
(* fails takes back what it made, and a deletion goes on after errors.     *)
(*                                                                         *)
(* Every CREATE is IF NOT EXISTS, and only a domain with a configuration   *)
(* record can be deleted: a table that outlives the record is out of reach *)
(* and would be taken over, with its rows, by the next domain of the name. *)
(***************************************************************************)
EXTENDS Naturals, Sequences, SequencesExt, FiniteSets

CONSTANTS
    Workers,     \* invocations of the async lambda
    Types,       \* sequence of the object types, as in ACCP_RECORDS
    Businesses,  \* sequence of the business objects, as in BUSINESS_OBJECTS
    MayFail,     \* bound: the kinds of step that may fail
    MayDie,      \* bound: what an invocation may die in
    MaxCreates, MaxDeletes, MaxFaults, MaxDeaths  \* bounds

Kinds == {"stage", "mapping", "admins", "task", "rule", "undo", "list", "drop"}
Phases == {"stage", "tasks", "undo", "erase", "clear"}

ASSUME DomainBounds ==
    /\ Types \in Seq(STRING) /\ Types # <<>>
    /\ \A i, k \in DOMAIN Types : Types[i] = Types[k] => i = k
    /\ Businesses \in Seq(STRING)
    /\ MayFail \subseteq Kinds /\ MayDie \subseteq Phases
    /\ {MaxCreates, MaxDeletes, MaxFaults, MaxDeaths} \subseteq Nat

VARIABLES
    there,  \* the parts that exist
    made,   \* whether the last creation reported success, and no deletion since
    job,    \* what each invocation is at
    used,   \* the operations and faults so far
    slips   \* history: the parts whose last step failed and was passed over

vars == <<there, made, job, used, slips>>
-----------------------------------------------------------------------------
Config  == <<"record", "config">>
Rules   == <<"record", "rules">>
Table(t)   == <<"table", t>>
Mapping(t) == <<"mapping", t>>
Glue(b)    == <<"glue", b>>
Admins     == <<"group", "admins">>
AppRoles   == <<"group", "app">>
Export     == <<"partition", "export">>
Settings   == <<"setting", "prompt">>

(* What CreateDomainWithQueue makes, in this order, and DeleteDomainByName *)
(* takes away, in another one, between the mappings and the end.           *)
Stages  == <<Table("cache"), Table("master"), Table("search"),
             Table("count"), Table("history"), Table("index")>>
Removal == <<Table("cache"), Table("count"), Table("history"), Table("master"),
             Table("search"), Rules, Config, Table("index")>>

LastType == Types[Len(Types)]

\* For each of the types ts, a mapping is recorded and then its interaction and history
\* tables are made.
Pairs(ts) == [i \in 1 .. 2 * Len(ts) |->
    IF i % 2 = 1 THEN Mapping(ts[(i + 1) \div 2]) ELSE Table(ts[i \div 2])]

\* The tables are made before the mapping is recorded (a mutant).
TablesFirst == [i \in 1 .. 2 * Len(Types) |->
    IF i % 2 = 0 THEN Mapping(Types[i \div 2]) ELSE Table(Types[(i + 1) \div 2])]

MappingSteps == Pairs(Types)

GlueTables == [i \in DOMAIN Businesses |-> Glue(Businesses[i])]

\* What the goroutines of g make: the rule set has to wait for the mappings.
Tasks == ToSet(GlueTables) \cup {AppRoles, Export, Settings, Rules}

Tables == {Table(t) : t \in ToSet(Types)} \cup ToSet(Stages)

\* The deferred functions run last in, first out.
Deferred == <<Export, AppRoles>> \o Reverse(GlueTables)

\* Everything deleteDomain removes before the domain itself.
Around == ToSet(GlueTables) \cup {Export, AppRoles}

Everything == {Config, Admins} \cup ToSet(Stages) \cup ToSet(MappingSteps) \cup Tasks
StoreParts == {Config, Rules} \cup ToSet(Stages) \cup ToSet(MappingSteps)

\* A group made under another name than it is removed (a mutant).
Misnamed(p) == IF p = AppRoles THEN {<<"group", "admin">>, AppRoles} ELSE {p}

\* The two groups of a domain are made in one goroutine and removed in one call.
WithGroup(p) == IF p = AppRoles THEN {Admins, AppRoles} ELSE {p}

\* The types whose mappings can be listed, in the order of their names, which is not
\* that of Types.
Listed    == {t \in ToSet(Types) : Mapping(t) \in there}
Orders(S) == {ts \in [1 .. Cardinality(S) -> S] : ToSet(ts) = S}

(* The deletion of the mappings that are listed and of all other parts of  *)
(* the store.  A mapping is unlisted before its tables are dropped.        *)
Plan(ts) == Pairs(ts) \o Removal

Idle == [pc |-> "idle", todo |-> <<>>, tasks |-> {}, err |-> FALSE]
At(w, pc) == job[w].pc = pc
Onward(j) == [j EXCEPT !.todo = Tail(@)]

Init ==
    /\ there = {}
    /\ made = FALSE
    /\ job = [w \in Workers |-> Idle]
    /\ used = [creates |-> 0, deletes |-> 0, faults |-> 0, deaths |-> 0]
    /\ slips = {}

Spend(b, limit) == used[b] < limit /\ used' = [used EXCEPT ![b] = @ + 1]
Fails(kind) == kind \in MayFail /\ Spend("faults", MaxFaults)

\* DeleteDomainByName(name): nothing happens without a configuration record.
Erasing(listed) ==
    IF Config \in there
    THEN {[Idle EXCEPT !.pc = "erase", !.todo = Plan(ts)] : ts \in Orders(listed)}
    ELSE {Idle}

Make(ps)   == there' = there \cup ps /\ slips' = slips \ ps
TakeAway(ps) == there' = there \ ps /\ slips' = slips \ ps
PassOver(ps) == slips' = slips \cup ps

\* A step that fails may have made a table without its index; a record is
\* written or not (a write that took effect has its reply: bound).
HalfMade(p) == there' \in {there} \cup {there \cup {q} : q \in {p} \cap Tables}
-----------------------------------------------------------------------------
(* createDomainConfig looks for the record and then writes it, in two      *)
(* steps; a creation that finds it ends there.                             *)
Create(w) ==
    /\ At(w, "idle") /\ Config \notin there
    /\ Spend("creates", MaxCreates)
    /\ job' = [job EXCEPT ![w] = [Idle EXCEPT !.pc = "configure"]]
    /\ UNCHANGED <<there, made, slips>>

SaveConfig(w) ==
    /\ At(w, "configure")
    /\ Make({Config})
    /\ job' = [job EXCEPT ![w].pc = "stage", ![w].todo = Stages]
    /\ UNCHANGED <<made, used>>

\* No clean-up here: nothing else has been made.
SaveConfigFails(w) ==
    /\ At(w, "configure") /\ Fails("stage")
    /\ job' = [job EXCEPT ![w] = Idle]
    /\ UNCHANGED <<there, made, slips>>

\* One more table; after the last one the goroutines start.
Stage(w) ==
    /\ At(w, "stage")
    /\ Make({Head(job[w].todo)})
    /\ job' = [job EXCEPT ![w] =
          IF Len(@.todo) > 1 THEN Onward(@)
          ELSE [@ EXCEPT !.pc = "tasks", !.todo = MappingSteps, !.tasks = Tasks]]
    /\ UNCHANGED <<made, used>>

\* cleanupDomainData: the domain is deleted and the creation ends with an error.
StageFails(w) ==
    /\ At(w, "stage") /\ Fails("stage")
    /\ HalfMade(Head(job[w].todo))
    /\ \E j \in Erasing(Listed) : job' = [job EXCEPT ![w] = j]
    /\ UNCHANGED <<made, slips>>

\* createMappingsAndIntegrations makes the mappings one after the other.
Map(w) ==
    /\ At(w, "tasks") /\ job[w].todo # <<>>
    /\ Make({Head(job[w].todo)})
    /\ job' = [job EXCEPT ![w].todo = Tail(@)]
    /\ UNCHANGED <<made, used>>

(* The first mapping that fails is the last one tried.  The error of the   *)
(* group of mappings is replaced by that of the other group before it is   *)
(* returned: the creation does not fail for this reason.                   *)
MapFails(w) ==
    /\ At(w, "tasks") /\ job[w].todo # <<>>
    /\ Fails("mapping")
    /\ HalfMade(Head(job[w].todo))
    /\ PassOver({Head(job[w].todo)})
    /\ job' = [job EXCEPT ![w].todo = <<>>]
    /\ UNCHANGED made

\* The rule joins alternate ids: it is valid only with their mapping, the last.
RuleIsValid == Mapping(LastType) \in there

Task(w, p) ==
    /\ At(w, "tasks") /\ p \in job[w].tasks
    /\ p = Rules => job[w].todo = <<>> /\ RuleIsValid
    /\ Make(WithGroup(p))
    /\ job' = [job EXCEPT ![w].tasks = @ \ {p}]
    /\ UNCHANGED <<made, used>>

TaskFails(w, p) ==
    /\ At(w, "tasks") /\ p \in job[w].tasks
    /\ p = Rules => job[w].todo = <<>>
    /\ Fails(IF p = Rules THEN "rule" ELSE "task")
    /\ \E some \in SUBSET WithGroup(p) : there' = there \cup some
    /\ job' = [job EXCEPT ![w].tasks = @ \ {p}, ![w].err = TRUE]
    /\ UNCHANGED <<made, slips>>

RuleIsRefused(w) ==
    /\ At(w, "tasks") /\ Rules \in job[w].tasks /\ job[w].todo = <<>>
    /\ ~RuleIsValid
    /\ job' = [job EXCEPT ![w].tasks = @ \ {Rules}, ![w].err = TRUE]
    /\ UNCHANGED <<there, made, used, slips>>

\* The error of the admin group is overwritten by the result of the app's groups.
AdminsFail(w) ==
    /\ At(w, "tasks") /\ AppRoles \in job[w].tasks
    /\ Fails("admins")
    /\ there' = there \cup {AppRoles}
    /\ slips' = (slips \cup {Admins}) \ {AppRoles}
    /\ job' = [job EXCEPT ![w].tasks = @ \ {AppRoles}]
    /\ UNCHANGED made

\* g.Wait: the creation has succeeded, or the deferred functions run.
Settle(w) ==
    /\ At(w, "tasks") /\ job[w].tasks = {}
    /\ made' = (made \/ ~job[w].err)
    /\ job' = [job EXCEPT ![w] =
          IF @.err THEN [@ EXCEPT !.pc = "undo", !.todo = Deferred] ELSE Idle]
    /\ UNCHANGED <<there, used, slips>>

(* A deferred function does something only while there is an error.  That  *)
(* of a Glue table assigns its own result to the error, so the first Glue  *)
(* table that is removed ends the rollback: the other tables and the       *)
(* domain are left.  Removing a table that does not exist is an error.     *)
Undo(w) ==
    /\ At(w, "undo") /\ job[w].todo # <<>>
    /\ LET p == Head(job[w].todo) IN
       /\ TakeAway(WithGroup(p))
       /\ job' = [job EXCEPT ![w] =
             IF p \in ToSet(GlueTables) /\ p \in there THEN Idle
             ELSE Onward(@)]
    /\ UNCHANGED <<made, used>>

UndoFails(w) ==
    /\ At(w, "undo") /\ job[w].todo # <<>>
    /\ Fails("undo")
    /\ job' = [job EXCEPT ![w].todo = Tail(@)]
    /\ UNCHANGED <<there, made, slips>>

\* The deferred deletion of the domain, declared first, runs last.
UndoDomain(w) ==
    /\ At(w, "undo") /\ job[w].todo = <<>>
    /\ \E j \in Erasing(Listed) : job' = [job EXCEPT ![w] = j]
    /\ UNCHANGED <<there, made, used, slips>>
-----------------------------------------------------------------------------
Delete(w) ==
    /\ At(w, "idle")
    /\ Spend("deletes", MaxDeletes)
    /\ made' = FALSE
    /\ job' = [job EXCEPT ![w] = [Idle EXCEPT !.pc = "clear", !.tasks = Around]]
    /\ UNCHANGED <<there, slips>>

\* The parts around the store are removed by goroutines; an error stops none.
Clear(w, p) ==
    /\ At(w, "clear") /\ p \in job[w].tasks
    /\ TakeAway(WithGroup(p))
    /\ job' = [job EXCEPT ![w].tasks = @ \ {p}]
    /\ UNCHANGED <<made, used>>

ClearFails(w, p) ==
    /\ At(w, "clear") /\ p \in job[w].tasks
    /\ Fails("drop")
    /\ job' = [job EXCEPT ![w].tasks = @ \ {p}]
    /\ UNCHANGED <<there, made, slips>>

\* DeleteDomainByName, if there is a configuration record, with all mappings.
StartErasing(w) ==
    /\ At(w, "clear") /\ job[w].tasks = {}
    /\ \E j \in Erasing(Listed) : job' = [job EXCEPT ![w] = j]
    /\ UNCHANGED <<there, made, used, slips>>

\* The mappings cannot be listed: the deletion goes on without them.
ListFails(w) ==
    /\ At(w, "clear") /\ job[w].tasks = {} /\ Config \in there
    /\ Fails("list")
    /\ \E j \in Erasing({}) : job' = [job EXCEPT ![w] = j]
    /\ PassOver(ToSet(MappingSteps))
    /\ UNCHANGED <<there, made>>

Advance(w) == job' = [job EXCEPT ![w] =
    IF Len(@.todo) > 1 THEN Onward(@) ELSE Idle]

Erase(w) ==
    /\ At(w, "erase")
    /\ TakeAway({Head(job[w].todo)})
    /\ Advance(w)
    /\ UNCHANGED <<made, used>>

\* "continuing domain deletion"
EraseFails(w) ==
    /\ At(w, "erase") /\ Fails("drop")
    /\ Advance(w)
    /\ PassOver({Head(job[w].todo)})
    /\ UNCHANGED <<there, made>>

\* The invocation times out or is lost; it is not retried (retryAttempts: 0).
Die(w) ==
    /\ job[w].pc \in MayDie
    /\ Spend("deaths", MaxDeaths)
    /\ job' = [job EXCEPT ![w] = Idle]
    /\ UNCHANGED <<there, made, slips>>

Next == \E w \in Workers :
    \/ Create(w) \/ SaveConfig(w) \/ SaveConfigFails(w) \/ Stage(w) \/ StageFails(w)
    \/ Map(w) \/ MapFails(w) \/ AdminsFail(w) \/ RuleIsRefused(w)
    \/ \E p \in Tasks : Task(w, p) \/ TaskFails(w, p)
    \/ Settle(w) \/ Undo(w) \/ UndoFails(w) \/ UndoDomain(w)
    \/ Delete(w) \/ \E p \in Around : Clear(w, p) \/ ClearFails(w, p)
    \/ StartErasing(w) \/ ListFails(w) \/ Erase(w) \/ EraseFails(w)
    \/ Die(w)

Spec == Init /\ [][Next]_vars
-----------------------------------------------------------------------------
\* Only known parts exist, and every invocation works on parts of its phase.
TypeOK ==
    /\ there \subseteq Everything
    /\ slips \subseteq Everything
    /\ made \in BOOLEAN
    /\ \A w \in Workers :
          /\ job[w].pc \in Phases \cup {"idle", "configure"}
          /\ ToSet(job[w].todo) \subseteq Everything
          /\ job[w].tasks \subseteq Tasks
          /\ job[w].pc \in {"stage", "erase"} => job[w].todo # <<>>
          /\ job[w].err \in BOOLEAN
    /\ used.creates <= MaxCreates /\ used.deletes <= MaxDeletes
    /\ used.faults <= MaxFaults /\ used.deaths <= MaxDeaths

Quiet == \A w \in Workers : At(w, "idle")

(***************************************************************************)
(* When no invocation runs, a domain is there or it is not, but for the    *)
(* parts whose own step failed and was passed over ("continuing domain     *)
(* deletion").  Without a configuration record nothing of its store is     *)
(* left, whatever failed or was cut short in its creations: a deletion     *)
(* could still reach it.  If the last creation reported success everything *)
(* is there, although the error of a failed mapping is lost on the way:    *)
(* the rule made after the mappings is refused when the last is missing,   *)
(* unless an earlier deletion passed over the record of that mapping.      *)
(***************************************************************************)
AllOrNothing ==
    Quiet =>
        /\ Config \notin there => there \cap StoreParts \subseteq slips
        /\ made /\ Mapping(LastType) \notin slips => Everything \ there \subseteq slips
=============================================================================
