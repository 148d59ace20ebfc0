------------------------------- MODULE RuleSets -------------------------------
(***************************************************************************)
(* The stitching rule sets of a domain: the rows of the draft, of the      *)
(* active and of the historical rule sets in the DynamoDB config table,    *)
(* the switch RuleBaseIdResolutionOn in the domain config, and the control *)
(* plane cache every process keeps of the switch and of the active rule    *)
(* set for 60 seconds.  A rule is named by the save request that brought   *)
(* it and by its index.  Requests of administrators come one at a time,    *)
(* each served by any of the backend's processes, and each may be cut      *)
(* short between two writes or, a write being split into batches of 25     *)
(* rows, in the middle of one.                                             *)
(***************************************************************************)
EXTENDS Naturals, FiniteSets

CONSTANTS
  Draft, Active,  \* the names of the draft and of the active rule set; the historical
                  \* ones are named for their version
  Admins,         \* processes of the backend lambda, which serve the requests
  Readers,        \* processes that only use the active rule set (ingestion, merger)
  MaxSize,        \* bound: rules in one rule set
  MaxSaves,       \* bound: rule sets saved as a draft
  MaxActivations, \* bound: activations
  MaxToggles,     \* bound: times rule based resolution is switched off or on
  MaxFaults,      \* bound: requests cut short and failed writes
  MayFail,        \* the steps whose write DynamoDB or Aurora may refuse
  Patient         \* a request that retires a rule set comes a minute after the
                  \* last change made by another process

ASSUME SizesAssumption ==
  /\ MaxSize \in Nat \ {0}
  /\ {MaxSaves, MaxActivations, MaxToggles, MaxFaults} \subseteq Nat

ASSUME NamesAssumption == Draft # Active /\ {Draft, Active} \cap 0..MaxActivations = {}

VARIABLES
  rows,    \* the config table: name of a rule set -> index -> row
  on,      \* RuleBaseIdResolutionOn in the domain config
  knows,   \* process -> cached switch
  cached,  \* process -> cached active rule set
  req,     \* the request being served
  spent    \* how many of each bounded event there have been

vars == <<rows, on, knows, cached, req, spent>>

Processes == Admins \cup Readers
Indexes == 0..(MaxSize - 1)
Historical == 1..MaxActivations
Names == {Draft, Active} \cup Historical
Saves == 1..MaxSaves
NoRow == [save |-> 0, latest |-> 0]
Rows == [save : Saves, latest : 0..MaxActivations] \cup {NoRow}
NoRows == [i \in Indexes |-> NoRow]

RuleSet == [rules : [Indexes -> 0..MaxSaves], version : 0..MaxActivations]
Absent == [rules |-> <<>>, version |-> 0]
NoRules == [rules |-> [i \in Indexes |-> 0], version |-> 0]
IsEmpty(set) == \A i \in Indexes : set.rules[i] = 0

Idle == [by |-> "nobody", step |-> "idle", draft |-> NoRules, old |-> NoRules]
Steps == {"clear", "draft", "retire", "drop", "create", "forget", "empty", "off", "retireoff", "dropoff"}

ASSUME FailAssumption == MayFail \subseteq Steps

TypeOK ==
  /\ rows \in [Names -> [Indexes -> Rows]]
  /\ on \in BOOLEAN
  /\ knows \in [Processes -> {"absent", "on", "off"}]
  /\ cached \in [Processes -> RuleSet \cup {Absent}]
  /\ \/ req = Idle
     \/ req \in [by : Admins, step : Steps, draft : RuleSet, old : RuleSet]
  /\ spent \in [saves : 0..MaxSaves, activations : 0..MaxActivations,
                toggles : 0..MaxToggles, faults : 0..MaxFaults]

Init ==
  /\ rows = [n \in Names |-> NoRows]
  /\ on = TRUE
  /\ knows = [p \in Processes |-> "absent"]
  /\ cached = [p \in Processes |-> Absent]
  /\ req = Idle
  /\ spent = [saves |-> 0, activations |-> 0, toggles |-> 0, faults |-> 0]

(* What getRuleSet makes of the rows of a name: the version is that of the *)
(* first row found.                                                        *)
Stored(name) ==
  LET present == {i \in Indexes : rows[name][i] # NoRow} IN
  [rules |-> [i \in Indexes |-> rows[name][i].save],
   version |-> IF present = {} THEN 0
               ELSE rows[name][CHOOSE i \in present : \A j \in present : i <= j].latest]

(* getRuleSet of the active rule set, through the cache of process p: the  *)
(* rule set, empty or not, is cached when it was not there.                *)
ActiveFor(p) == IF cached[p] = Absent THEN Stored(Active) ELSE cached[p]

(* createRuleSet puts a row per rule and leaves the other rows of the name *)
(* alone; deleteRuleSet deletes the rows it finds.  Both go through the    *)
(* indexes in order, and `upto` of them are reached.                       *)
Created(name, set, latest, upto) ==
  [rows EXCEPT ![name] = [i \in Indexes |->
     IF i < upto /\ set.rules[i] # 0 THEN [save |-> set.rules[i], latest |-> latest] ELSE @[i]]]
Deleted(name, upto) ==
  [rows EXCEPT ![name] = [i \in Indexes |-> IF i < upto THEN NoRow ELSE @[i]]]

(* Mutant: the version goes up by two. *)
SkippingOne(version) == version + 2

(* The version of the rule set that replaces one of version `version`.     *)
NextVersion(version) == version + 1

(* Mutant: the old rule set is dropped before it is copied. *)
DroppedFirst(step, upto) ==
  CASE step = "clear" -> Deleted(Draft, upto)
    [] step = "draft" -> Created(Draft, req.draft, 0, upto)
    [] step \in {"drop", "dropoff"} -> Created(req.old.version, req.old, 0, upto)
    [] step \in {"retire", "retireoff"} -> Deleted(Active, upto)
    [] step = "create" -> Created(Active, req.draft, NextVersion(req.old.version), upto)
    [] step = "forget" -> Deleted(Draft, upto)
    [] OTHER -> rows

(* The write of each step, reaching the first `upto` indexes.              *)
Written(step, upto) ==
  CASE step = "clear" -> Deleted(Draft, upto)
    [] step = "draft" -> Created(Draft, req.draft, 0, upto)
    [] step \in {"retire", "retireoff"} -> Created(req.old.version, req.old, 0, upto)
    [] step \in {"drop", "dropoff"} -> Deleted(Active, upto)
    [] step = "create" -> Created(Active, req.draft, NextVersion(req.old.version), upto)
    [] step = "forget" -> Deleted(Draft, upto)
    [] OTHER -> rows

(* Mutant: the old active rows are not deleted. *)
NothingDropped(step) ==
  CASE step = "clear" -> "draft"
    [] step = "retire" -> "create"
    [] step = "create" -> "forget"
    [] step = "forget" /\ ~IsEmpty(req.old) -> "empty"
    [] OTHER -> "idle"

(* Mutant: the draft is left behind when an older rule set was active. *)
NothingForgotten(step) ==
  CASE step = "clear" -> "draft"
    [] step = "retire" -> "drop"
    [] step = "drop" -> "create"
    [] step = "create" -> IF IsEmpty(req.old) THEN "forget" ELSE "empty"
    [] step = "retireoff" -> "dropoff"
    [] OTHER -> "idle"

(* The step after a write that went through.                               *)
Following(step) ==
  CASE step = "clear" -> "draft"
    [] step = "retire" -> "drop"
    [] step = "drop" -> "create"
    [] step = "create" -> "forget"
    [] step = "forget" /\ ~IsEmpty(req.old) -> "empty"
    [] step = "retireoff" -> "dropoff"
    [] OTHER -> "idle"

(* The step after a write that failed: activation only logs that the old   *)
(* rule set could not be retired, every other failure ends the request.    *)
AfterFailure(step) == IF step \in {"retire", "drop"} THEN "create" ELSE "idle"

(* ActivateIdResRuleSet invalidates its own process's cache at the end,    *)
(* failed or not, unless emptying the index failed; the switch of          *)
(* DisableRuleBasedIdRes invalidates nothing of the rule sets.             *)
Invalidates(step, failed) ==
  IF failed THEN step \in {"create", "forget"} ELSE step \in {"forget", "empty"}

Goes(step) == req' = IF step = "idle" THEN Idle ELSE [req EXCEPT !.step = step]
-----------------------------------------------------------------------------
(* SetDomain: the domain config is read through the process's cache.       *)
ReadConfig(p) ==
  /\ knows[p] = "absent"
  /\ knows' = [knows EXCEPT ![p] = IF on THEN "on" ELSE "off"]
  /\ UNCHANGED <<rows, on, cached, req, spent>>

(* An object is put or profiles are merged: the active rule set is looked  *)
(* up and cached, an empty one too.                                        *)
ReadRules(p) ==
  /\ p \in Readers
  /\ knows[p] = "on"
  /\ cached[p] = Absent
  /\ cached' = [cached EXCEPT ![p] = Stored(Active)]
  /\ UNCHANGED <<rows, on, knows, req, spent>>

(* 60 seconds after it was stored an entry of the cache expires.           *)
ConfigExpires(p) ==
  /\ knows[p] # "absent"
  /\ req.by # p
  /\ knows' = [knows EXCEPT ![p] = "absent"]
  /\ UNCHANGED <<rows, on, cached, req, spent>>

(* Mutant: an empty rule set stays in the cache. *)
NoneStays(p) ==
  /\ cached[p] # Absent
  /\ ~IsEmpty(cached[p])
  /\ cached' = [cached EXCEPT ![p] = Absent]
  /\ UNCHANGED <<rows, on, knows, req, spent>>

RulesExpire(p) ==
  /\ cached[p] # Absent
  /\ cached' = [cached EXCEPT ![p] = Absent]
  /\ UNCHANGED <<rows, on, knows, req, spent>>

(* SaveIdResRuleSet.                                                       *)
SaveRequest(p) ==
  /\ req = Idle
  /\ knows[p] = "on"
  /\ spent.saves < MaxSaves
  /\ spent' = [spent EXCEPT !.saves = @ + 1]
  /\ \E size \in 1..MaxSize :
       req' = [Idle EXCEPT !.by = p, !.step = "clear",
                           !.draft = [NoRules EXCEPT !.rules =
                              [i \in Indexes |-> IF i < size THEN spent'.saves ELSE 0]]]
  /\ UNCHANGED <<rows, on, knows, cached>>

Timely(p) == Patient => cached[p] \in {Absent, Stored(Active)}

(* ActivateIdResRuleSet up to its first write: the draft is read from the  *)
(* table, the rule set to retire through the cache.                        *)
ActivateRequest(p) ==
  /\ req = Idle
  /\ knows[p] = "on"
  /\ Timely(p)
  /\ spent.activations < MaxActivations
  /\ ~IsEmpty(Stored(Draft))
  /\ spent' = [spent EXCEPT !.activations = @ + 1]
  /\ cached' = [cached EXCEPT ![p] = ActiveFor(p)]
  /\ req' = [by |-> p, step |-> IF IsEmpty(ActiveFor(p)) THEN "create" ELSE "retire",
             draft |-> Stored(Draft), old |-> ActiveFor(p)]
  /\ UNCHANGED <<rows, on, knows>>

(* EnableRuleBasedIdRes and DisableRuleBasedIdRes: the config, read        *)
(* through the cache, is saved with the switch turned, and its entry       *)
(* invalidated.                                                            *)
EnableRequest(p) ==
  /\ req = Idle
  /\ knows[p] = "off"
  /\ spent.toggles < MaxToggles
  /\ spent' = [spent EXCEPT !.toggles = @ + 1]
  /\ on' = TRUE
  /\ knows' = [knows EXCEPT ![p] = "absent"]
  /\ UNCHANGED <<rows, cached, req>>

DisableRequest(p) ==
  /\ req = Idle
  /\ knows[p] = "on"
  /\ Timely(p)
  /\ spent.toggles < MaxToggles
  /\ spent' = [spent EXCEPT !.toggles = @ + 1]
  /\ on' = FALSE
  /\ knows' = [knows EXCEPT ![p] = "absent"]
  /\ req' = [Idle EXCEPT !.by = p, !.step = "off"]
  /\ UNCHANGED <<rows, cached>>

(* DisableRuleBasedIdRes goes on to the active rule set, read through the  *)
(* cache.                                                                  *)
LookUpActive ==
  /\ req.step = "off"
  /\ cached' = [cached EXCEPT ![req.by] = ActiveFor(req.by)]
  /\ req' = IF IsEmpty(ActiveFor(req.by)) THEN Idle
            ELSE [req EXCEPT !.step = "retireoff", !.old = ActiveFor(req.by)]
  /\ UNCHANGED <<rows, on, knows, spent>>

(* The write of the current step goes through.                             *)
Write ==
  /\ req.step \notin {"idle", "off"}
  /\ rows' = Written(req.step, MaxSize)
  /\ cached' = IF Following(req.step) = "idle" /\ Invalidates(req.step, FALSE)
                 THEN [cached EXCEPT ![req.by] = Absent] ELSE cached
  /\ Goes(Following(req.step))
  /\ UNCHANGED <<on, knows, spent>>

(* It is refused, at once or after some batches.                           *)
WriteFails ==
  /\ req.step \in MayFail
  /\ spent.faults < MaxFaults
  /\ spent' = [spent EXCEPT !.faults = @ + 1]
  /\ \E upto \in Indexes : rows' = Written(req.step, upto)
  /\ cached' = IF Invalidates(req.step, TRUE) THEN [cached EXCEPT ![req.by] = Absent] ELSE cached
  /\ Goes(AfterFailure(req.step))
  /\ UNCHANGED <<on, knows>>

(* The lambda is stopped, its memory with it.                              *)
CutShort ==
  /\ req # Idle
  /\ spent.faults < MaxFaults
  /\ spent' = [spent EXCEPT !.faults = @ + 1]
  /\ \E upto \in Indexes : rows' = Written(req.step, upto)
  /\ knows' = [knows EXCEPT ![req.by] = "absent"]
  /\ cached' = [cached EXCEPT ![req.by] = Absent]
  /\ req' = Idle
  /\ UNCHANGED on

Serve == LookUpActive \/ Write

Next ==
  \/ \E p \in Processes : ReadConfig(p) \/ ReadRules(p) \/ ConfigExpires(p) \/ RulesExpire(p)
  \/ \E p \in Admins : SaveRequest(p) \/ ActivateRequest(p) \/ EnableRequest(p) \/ DisableRequest(p)
  \/ Serve \/ WriteFails \/ CutShort

Spec == Init /\ [][Next]_vars

(* A request that is served goes on, and time passes.                      *)
LiveSpec ==
  /\ Spec
  /\ WF_vars(Serve)
  /\ \A p \in Processes : WF_vars(RulesExpire(p))
-----------------------------------------------------------------------------
FromOneSave(rules) == Cardinality({rules[i] : i \in Indexes} \ {0}) <= 1

(* A rule set is never pieced together: the rules of the draft, of the     *)
(* active rule set and of every cached one were saved by one request.      *)
(* createRuleSet writes over whatever rows of the name are left, so this   *)
(* rests on the delete before every create, whatever was cut short.        *)
NoMixture ==
  /\ \A name \in {Draft, Active} : FromOneSave(Stored(name).rules)
  /\ \A p \in Processes : cached[p] # Absent => FromOneSave(cached[p].rules)

(* No row of an active rule set is deleted or written over before a        *)
(* historical rule set holds it, wherever the request is cut short:        *)
(* activation and disabling promise that it can still be viewed.           *)
RetiredFirst ==
  [][\A i \in Indexes :
       LET row == rows[Active][i] IN
       row # NoRow /\ rows'[Active][i] # row
         => \E v \in Historical : rows[v][i].save = row.save]_vars

(* An activation that reports success has made exactly the draft it read   *)
(* active, under a version above that of the rule set it replaced, and     *)
(* used the draft up.                                                      *)
ActivationTakesDraft ==
  [][req.step \in {"forget", "empty"} /\ req' = Idle /\ spent' = spent
       => /\ Stored(Active)'.rules = req.draft.rules
          /\ Stored(Active)'.version > req.old.version
          /\ IsEmpty(Stored(Draft))']_vars

(* Once the administrators are done every process sooner or later works    *)
(* with the rule set that is active: an entry nobody invalidated, an empty *)
(* one too, expires.                                                       *)
CachesCatchUp == <>[](\A p \in Processes : cached[p] \in {Absent, Stored(Active)})
=============================================================================
