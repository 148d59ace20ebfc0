---------------------------- MODULE RuleSetsProofs ----------------------------
(***************************************************************************)
(* The rule sets of a domain, for any processes, sizes and bounds: their   *)
(* types, whatever fails; and, as long as requests that retire a rule set  *)
(* see the one that is active (Careful), that no rule set is pieced        *)
(* together, that none is lost before it is retired, and that activation   *)
(* activates the draft.                                                    *)
(***************************************************************************)
EXTENDS RuleSets, FiniteSetTheorems, WellFoundedInduction, TLAPS

\* An activation, from the moment it has read the draft.
Activating == req.step \in {"retire", "drop", "create", "forget", "empty"}

\* The rule set being retired, by an activation or by the switch.
Retiring == req.step \in {"retire", "drop", "retireoff", "dropoff"}

\* Active rows carry the number of an activation; an activation has room for
\* the version it is going to write.
Versions ==
  /\ \A i \in Indexes : rows[Active][i] # NoRow => rows[Active][i].latest \in 1..spent.activations
  /\ \A p \in Processes : cached[p].version \in 0..spent.activations
  /\ Activating => req.old.version < spent.activations

TypeInv == TypeOK /\ Versions

\* The requests that retire a rule set see the active one, and their writes
\* are refused only together with the request.
Careful == Patient /\ MayFail \cap {"retire", "drop"} = {}

\* One request saved all these rules.
Together(rules) == \A i, j \in Indexes : rules[i] # 0 /\ rules[j] # 0 => rules[i] = rules[j]
SavedTogether(name) == Together([i \in Indexes |-> rows[name][i].save])

\* The rows an activation leaves under the name of the active rule set.
Activated ==
  [i \in Indexes |-> IF req.draft.rules[i] = 0 THEN NoRow
                     ELSE [save |-> req.draft.rules[i], latest |-> NextVersion(req.old.version)]]

\* Where a request stands in the table.
Progress ==
  /\ req.step = "draft" => rows[Draft] = NoRows
  /\ req.step = "off" => cached[req.by] \in {Absent, Stored(Active)}
  /\ req.step \in {"retire", "retireoff"} => req.old = Stored(Active)
  /\ Retiring => req.old.version \in Historical
  /\ req.step \in {"drop", "dropoff"} =>
       \A i \in Indexes : rows[Active][i] # NoRow =>
          rows[req.old.version][i].save = rows[Active][i].save
  /\ req.step = "create" => rows[Active] = NoRows
  /\ req.step \in {"forget", "empty"} => rows[Active] = Activated
  /\ req.step = "empty" => rows[Draft] = NoRows
  /\ Activating => ~IsEmpty(req.draft)

Whole ==
  /\ SavedTogether(Draft)
  /\ SavedTogether(Active)
  /\ \A p \in Processes : cached[p] # Absent => Together(cached[p].rules)
  /\ Together(req.draft.rules)

IInv == TypeInv /\ Whole /\ Progress

-----------------------------------------------------------------------------
\* The rows of a table, and which of them is none.
LEMMA RowFacts ==
  /\ \A r \in Rows : /\ r.save \in 0..MaxSaves
                     /\ r.latest \in 0..MaxActivations
                     /\ r # NoRow <=> r.save # 0
  /\ \A s \in Saves, v \in 0..MaxActivations : [save |-> s, latest |-> v] \in Rows
  /\ NoRow \in Rows /\ NoRow.save = 0
  /\ NoRows \in [Indexes -> Rows] /\ \A i \in Indexes : NoRows[i] = NoRow
  BY SizesAssumption DEF Rows, NoRow, NoRows, Saves

\* The names are distinct, and a version names a historical rule set.
LEMMA NameFacts ==
  /\ Draft \in Names /\ Active \in Names /\ Historical \subseteq Names
  /\ Draft # Active
  /\ \A v \in 0..MaxActivations : v # Draft /\ v # Active
  BY NamesAssumption DEF Names, Historical

\* A set of indexes that is not empty has a first one, and getRuleSet finds it.
LEMMA FirstIndex ==
  ASSUME NEW S \in SUBSET Indexes, S # {}
  PROVE  (CHOOSE i \in S : \A j \in S : i <= j) \in S
  <1>1. S \subseteq Nat
    BY SizesAssumption DEF Indexes
  <1> DEFINE R == {ss \in Nat \X Nat : ss[1] < ss[2]}
  <1>2. IsWellFoundedOn(R, Nat)
    BY NatLessThanWellFounded DEF OpToRel
  <1>3. PICK x \in S : \A y \in S : <<y, x>> \notin R
    <2> HIDE DEF R
    <2>. QED BY <1>1, <1>2, WFMin
  <1>4. \A y \in S : ~(y < x)
    <2>1. ASSUME NEW y \in S PROVE y < x => <<y, x>> \in R
      BY <1>1
    <2>. QED BY <2>1, <1>3
  <1>5. \A y \in S : x <= y
    BY <1>1, <1>4
  <1>. QED BY <1>5

\* What getRuleSet makes of the rows of a name.
LEMMA StoredFacts ==
  ASSUME rows \in [Names -> [Indexes -> Rows]], NEW n \in Names
  PROVE  /\ Stored(n) \in RuleSet
         /\ Stored(n).rules = [i \in Indexes |-> rows[n][i].save]
         /\ IsEmpty(Stored(n)) => rows[n] = NoRows /\ Stored(n).version = 0
         /\ ~IsEmpty(Stored(n)) =>
              \E i \in Indexes : rows[n][i] # NoRow /\ Stored(n).version = rows[n][i].latest
  <1> DEFINE present == {i \in Indexes : rows[n][i] # NoRow}
             first == CHOOSE i \in present : \A j \in present : i <= j
             version == IF present = {} THEN 0 ELSE rows[n][first].latest
  <1>1. Stored(n).rules = [i \in Indexes |-> rows[n][i].save] /\ Stored(n).version = version
    BY DEF Stored
  <1>2. present # {} => first \in present
    BY FirstIndex
  <1>3. [i \in Indexes |-> rows[n][i].save] \in [Indexes -> 0..MaxSaves]
    BY RowFacts
  <1>4. version \in 0..MaxActivations
    BY <1>2, RowFacts, SizesAssumption
  <1>5. Stored(n) \in RuleSet
    BY <1>1, <1>3, <1>4 DEF RuleSet, Stored
  <1>6. IsEmpty(Stored(n)) <=> present = {}
    BY <1>1, RowFacts DEF IsEmpty
  <1>7. present = {} => rows[n] = NoRows
    BY DEF NoRows
  <1>. QED BY <1>1, <1>2, <1>5, <1>6, <1>7

\* The rule sets of the model are rule sets.
LEMMA RuleSetFacts ==
  /\ NoRules \in RuleSet /\ IsEmpty(NoRules) /\ NoRules.version = 0
  /\ Absent.version = 0
  /\ \A set \in RuleSet : set.rules \in [Indexes -> 0..MaxSaves] /\ set.version \in 0..MaxActivations
  BY SizesAssumption DEF RuleSet, NoRules, IsEmpty, Absent

\* What deleteRuleSet and createRuleSet leave in the table.
LEMMA DeletedTable ==
  ASSUME rows \in [Names -> [Indexes -> Rows]], NEW n \in Names, NEW upto \in Nat
  PROVE  /\ Deleted(n, upto) \in [Names -> [Indexes -> Rows]]
         /\ \A m \in Names : m # n => Deleted(n, upto)[m] = rows[m]
  BY RowFacts DEF Deleted

LEMMA DeletedRows ==
  ASSUME rows \in [Names -> [Indexes -> Rows]], NEW n \in Names, NEW upto \in Nat, NEW i \in Indexes
  PROVE  Deleted(n, upto)[n][i] = IF i < upto THEN NoRow ELSE rows[n][i]
  BY DEF Deleted

LEMMA CreatedTable ==
  ASSUME rows \in [Names -> [Indexes -> Rows]],
         NEW n \in Names \cup 0..MaxActivations, NEW upto \in Nat,
         NEW set \in RuleSet, NEW latest \in 0..MaxActivations
  PROVE  /\ Created(n, set, latest, upto) \in [Names -> [Indexes -> Rows]]
         /\ \A m \in Names : m # n => Created(n, set, latest, upto)[m] = rows[m]
  <1>1. \A i \in Indexes : set.rules[i] # 0 => [save |-> set.rules[i], latest |-> latest] \in Rows
    BY RuleSetFacts, RowFacts, SizesAssumption DEF Saves
  <1>. QED BY <1>1 DEF Created

LEMMA CreatedRows ==
  ASSUME rows \in [Names -> [Indexes -> Rows]],
         NEW n \in Names, NEW upto \in Nat, NEW set \in RuleSet, NEW latest \in 0..MaxActivations,
         NEW i \in Indexes
  PROVE  Created(n, set, latest, upto)[n][i] =
           IF i < upto /\ set.rules[i] # 0
             THEN [save |-> set.rules[i], latest |-> latest] ELSE rows[n][i]
  BY DEF Created

\* A request that is being served is well formed.
LEMMA RequestFacts ==
  ASSUME TypeOK, req # Idle
  PROVE  /\ req.by \in Admins /\ req.step \in Steps
         /\ req.draft \in RuleSet /\ req.old \in RuleSet
         /\ req \in [by : Admins, step : Steps, draft : RuleSet, old : RuleSet]
  BY DEF TypeOK

LEMMA IdleFacts == Idle.step = "idle" /\ Idle.draft = NoRules /\ Idle.old = NoRules /\ "idle" \notin Steps
  BY DEF Idle, Steps

-----------------------------------------------------------------------------
\* The write of a step keeps the table a table, and gives active rows only the
\* number of an activation.
LEMMA WrittenTypes ==
  ASSUME TypeInv, req # Idle, NEW upto \in Nat
  PROVE  /\ Written(req.step, upto) \in [Names -> [Indexes -> Rows]]
         /\ \A i \in Indexes : Written(req.step, upto)[Active][i] # NoRow =>
               Written(req.step, upto)[Active][i].latest \in 1..spent.activations
  <1> DEFINE W == Written(req.step, upto)
  <1>1. rows \in [Names -> [Indexes -> Rows]] /\ spent.activations \in 0..MaxActivations
    BY DEF TypeInv, TypeOK
  <1>2. req.draft \in RuleSet /\ req.old \in RuleSet /\ req.old.version \in 0..MaxActivations
    BY RequestFacts, RuleSetFacts DEF TypeInv
  <1>3. \A i \in Indexes : rows[Active][i] # NoRow => rows[Active][i].latest \in 1..spent.activations
    BY DEF TypeInv, Versions
  <1>4. 0 \in 0..MaxActivations
    BY SizesAssumption
  <1>5. CASE req.step \in {"clear", "forget"}
    <2>1. W = Deleted(Draft, upto)
      BY <1>5 DEF Written
    <2>2. W[Active] = rows[Active]
      BY <2>1, <1>1, NameFacts DEF Deleted
    <2>3. W \in [Names -> [Indexes -> Rows]]
      BY <2>1, <1>1, DeletedTable, NameFacts
    <2> HIDE DEF W
    <2>4. \A i \in Indexes : W[Active][i] # NoRow => W[Active][i].latest \in 1..spent.activations
      BY <2>2, <1>3
    <2>. QED BY <2>3, <2>4 DEF W
  <1>6. CASE req.step = "draft"
    <2>1. W = Created(Draft, req.draft, 0, upto)
      BY <1>6 DEF Written
    <2>2. W[Active] = rows[Active]
      BY <2>1, <1>1, <1>2, NameFacts DEF Created
    <2>3. W \in [Names -> [Indexes -> Rows]]
      <3>1. Draft \in Names \cup 0..MaxActivations
        BY <1>2, NameFacts
      <3>2. Created(Draft, req.draft, 0, upto) \in [Names -> [Indexes -> Rows]]
        BY <1>1, <1>2, <1>4, <3>1, CreatedTable
      <3>. QED BY <2>1, <3>2
    <2> HIDE DEF W
    <2>4. \A i \in Indexes : W[Active][i] # NoRow => W[Active][i].latest \in 1..spent.activations
      BY <2>2, <1>3
    <2>. QED BY <2>3, <2>4 DEF W
  <1>7. CASE req.step \in {"retire", "retireoff"}
    <2>1. W = Created(req.old.version, req.old, 0, upto)
      BY <1>7 DEF Written
    <2>2. W[Active] = rows[Active]
      BY <2>1, <1>1, <1>2, NameFacts DEF Created
    <2>3. W \in [Names -> [Indexes -> Rows]]
      <3>1. req.old.version \in Names \cup 0..MaxActivations
        BY <1>2, NameFacts
      <3>2. Created(req.old.version, req.old, 0, upto) \in [Names -> [Indexes -> Rows]]
        BY <1>1, <1>2, <1>4, <3>1, CreatedTable
      <3>. QED BY <2>1, <3>2
    <2> HIDE DEF W
    <2>4. \A i \in Indexes : W[Active][i] # NoRow => W[Active][i].latest \in 1..spent.activations
      BY <2>2, <1>3
    <2>. QED BY <2>3, <2>4 DEF W
  <1>8. CASE req.step \in {"drop", "dropoff"}
    <2>1. W = Deleted(Active, upto)
      BY <1>8 DEF Written
    <2>2. \A i \in Indexes : W[Active][i] = IF i < upto THEN NoRow ELSE rows[Active][i]
      BY <2>1, <1>1, DeletedRows, NameFacts
    <2>3. W \in [Names -> [Indexes -> Rows]]
      BY <2>1, <1>1, DeletedTable, NameFacts
    <2> HIDE DEF W
    <2>4. \A i \in Indexes : W[Active][i] # NoRow => W[Active][i].latest \in 1..spent.activations
      BY <2>2, <1>3
    <2>. QED BY <2>3, <2>4 DEF W
  <1>9. CASE req.step = "create"
    <2>1. W = Created(Active, req.draft, NextVersion(req.old.version), upto)
      BY <1>9 DEF Written
    <2>2. NextVersion(req.old.version) \in 1..spent.activations
      BY <1>1, <1>2, <1>9 DEF TypeInv, Versions, Activating, NextVersion
    <2>3. NextVersion(req.old.version) \in 0..MaxActivations
      BY <2>2, <1>1, SizesAssumption
    <2>4. W \in [Names -> [Indexes -> Rows]]
      BY <2>1, <2>3, <1>1, <1>2, CreatedTable, NameFacts
    <2>5. \A i \in Indexes : W[Active][i] =
            IF i < upto /\ req.draft.rules[i] # 0
              THEN [save |-> req.draft.rules[i], latest |-> NextVersion(req.old.version)]
              ELSE rows[Active][i]
      BY <2>1, <2>3, <1>1, <1>2, CreatedRows, NameFacts
    <2> HIDE DEF W
    <2>6. \A i \in Indexes : W[Active][i] # NoRow => W[Active][i].latest \in 1..spent.activations
      <3> TAKE i \in Indexes
      <3>1. CASE W[Active][i] = rows[Active][i]
        BY <3>1, <1>3
      <3>2. CASE W[Active][i] = [save |-> req.draft.rules[i], latest |-> NextVersion(req.old.version)]
        BY <3>2, <2>2
      <3>. QED BY <3>1, <3>2, <2>5
    <2>. QED BY <2>4, <2>6 DEF W
  <1>10. CASE req.step \in {"empty", "off"}
    <2>1. W = rows
      BY <1>10 DEF Written
    <2> HIDE DEF W
    <2>2. W \in [Names -> [Indexes -> Rows]]
      BY <2>1, <1>1
    <2>3. \A i \in Indexes : W[Active][i] # NoRow => W[Active][i].latest \in 1..spent.activations
      BY <2>1, <1>3
    <2>. QED BY <2>2, <2>3 DEF W
  <1>. QED BY <1>5, <1>6, <1>7, <1>8, <1>9, <1>10, RequestFacts DEF Steps, TypeInv

-----------------------------------------------------------------------------
\* The active rule set, read from the table or through a cache.
LEMMA ActiveFacts ==
  ASSUME TypeInv
  PROVE  /\ Stored(Active) \in RuleSet /\ Stored(Active).version \in 0..spent.activations
         /\ Stored(Draft) \in RuleSet
         /\ \A p \in Processes : /\ ActiveFor(p) \in RuleSet
                                 /\ ActiveFor(p).version \in 0..spent.activations
  <1>1. rows \in [Names -> [Indexes -> Rows]] /\ spent.activations \in 0..MaxActivations
    BY DEF TypeInv, TypeOK
  <1>2. Stored(Active) \in RuleSet /\ Stored(Draft) \in RuleSet
    BY <1>1, StoredFacts, NameFacts
  <1>3. Stored(Active).version \in 0..spent.activations
    <2>1. CASE IsEmpty(Stored(Active))
      <3>1. Stored(Active).version = 0
        BY <2>1, <1>1, StoredFacts, NameFacts
      <3>. QED BY <3>1, <1>1, SizesAssumption
    <2>2. CASE ~IsEmpty(Stored(Active))
      <3>1. PICK i \in Indexes : /\ rows[Active][i] # NoRow
                                 /\ Stored(Active).version = rows[Active][i].latest
        BY <2>2, <1>1, StoredFacts, NameFacts
      <3>. QED BY <3>1, <1>1 DEF TypeInv, Versions
    <2>. QED BY <2>1, <2>2
  <1>. QED BY <1>2, <1>3 DEF TypeInv, TypeOK, Versions, ActiveFor

\* The types hold whatever fails and however stale the caches are.
LEMMA TypesInit == Init => TypeInv
  <1> SUFFICES ASSUME Init PROVE TypeInv
    OBVIOUS
  <1>1. rows = [n \in Names |-> NoRows] /\ \A i \in Indexes : rows[Active][i] = NoRow
    BY RowFacts, NameFacts DEF Init
  <1>2. TypeOK
    BY <1>1, RowFacts, SizesAssumption DEF Init, TypeOK
  <1>3. Versions
    BY <1>1, RuleSetFacts, IdleFacts, SizesAssumption DEF Init, Versions, Activating
  <1>. QED BY <1>2, <1>3 DEF TypeInv

\* A step that leaves the table, the request and the counters alone.
LEMMA TypesReading ==
  ASSUME TypeInv, UNCHANGED <<rows, on, req, spent>>, knows' \in [Processes -> {"absent", "on", "off"}],
         cached' \in [Processes -> RuleSet \cup {Absent}],
         \A p \in Processes : cached'[p].version \in 0..spent.activations
  PROVE  TypeInv'
  BY DEF TypeInv, TypeOK, Versions, Activating

\* A write of a request, after which it is done or at another step.
LEMMA TypesWriting ==
  ASSUME TypeInv, req # Idle,
         NEW upto \in Nat, rows' = Written(req.step, upto),
         on' = on, spent'.activations = spent.activations,
         spent' \in [saves : 0..MaxSaves, activations : 0..MaxActivations,
                     toggles : 0..MaxToggles, faults : 0..MaxFaults],
         knows' = knows \/ knows' = [knows EXCEPT ![req.by] = "absent"],
         cached' = cached \/ cached' = [cached EXCEPT ![req.by] = Absent],
         NEW step \in Steps \cup {"idle"}, Goes(step),
         step \in {"retire", "drop", "create", "forget", "empty"} => Activating
  PROVE  TypeInv'
  <1>1. rows' \in [Names -> [Indexes -> Rows]]
    BY WrittenTypes
  <1>2. \A i \in Indexes : rows'[Active][i] # NoRow => rows'[Active][i].latest \in 1..spent'.activations
    BY WrittenTypes
  <1>3. req' = Idle \/ (step \in Steps /\ req' = [req EXCEPT !.step = step])
    BY DEF Goes
  <1>4. req' = Idle \/ req' \in [by : Admins, step : Steps, draft : RuleSet, old : RuleSet]
    BY <1>3, RequestFacts DEF TypeInv
  <1>5. knows' \in [Processes -> {"absent", "on", "off"}]
    BY DEF TypeInv, TypeOK
  <1>6. cached' \in [Processes -> RuleSet \cup {Absent}]
    BY DEF TypeInv, TypeOK
  <1>7. TypeOK'
    BY <1>1, <1>4, <1>5, <1>6 DEF TypeInv, TypeOK
  <1>8. \A p \in Processes : cached'[p].version \in 0..spent'.activations
    BY RuleSetFacts, SizesAssumption DEF TypeInv, TypeOK, Versions
  <1>9. Activating' => req'.old.version < spent'.activations
    <2>1. CASE req' = Idle
      BY <2>1, IdleFacts DEF Activating, Steps
    <2>2. CASE req' = [req EXCEPT !.step = step]
      BY <2>2, RequestFacts DEF TypeInv, Versions, Activating
    <2>. QED BY <1>3, <2>1, <2>2
  <1>. QED BY <1>2, <1>7, <1>8, <1>9 DEF TypeInv, Versions

LEMMA TypesPreserved == TypeInv /\ [Next]_vars => TypeInv'
  <1> SUFFICES ASSUME TypeInv, [Next]_vars PROVE TypeInv'
    OBVIOUS
  <1>0. /\ rows \in [Names -> [Indexes -> Rows]] /\ on \in BOOLEAN
        /\ knows \in [Processes -> {"absent", "on", "off"}]
        /\ cached \in [Processes -> RuleSet \cup {Absent}]
        /\ spent \in [saves : 0..MaxSaves, activations : 0..MaxActivations,
                       toggles : 0..MaxToggles, faults : 0..MaxFaults]
        /\ req = Idle \/ req \in [by : Admins, step : Steps, draft : RuleSet, old : RuleSet]
        /\ Versions
    BY DEF TypeInv, TypeOK
  <1>p. Admins \subseteq Processes
    BY DEF Processes
  <1>1. ASSUME NEW p \in Processes, ReadConfig(p) \/ ConfigExpires(p)
        PROVE  TypeInv'
    BY <1>1, <1>0, TypesReading DEF ReadConfig, ConfigExpires, Versions
  <1>2. ASSUME NEW p \in Processes, ReadRules(p)
        PROVE  TypeInv'
    BY <1>2, <1>0, ActiveFacts, TypesReading DEF ReadRules, Versions
  <1>3. ASSUME NEW p \in Processes, RulesExpire(p)
        PROVE  TypeInv'
    BY <1>3, <1>0, RuleSetFacts, SizesAssumption, TypesReading DEF RulesExpire, Versions
  <1>4. ASSUME NEW p \in Admins, SaveRequest(p)
        PROVE  TypeInv'
    <2>1. spent' \in [saves : 0..MaxSaves, activations : 0..MaxActivations,
                      toggles : 0..MaxToggles, faults : 0..MaxFaults]
          /\ spent'.saves \in 1..MaxSaves /\ spent'.activations = spent.activations
      BY <1>4, <1>0, SizesAssumption DEF SaveRequest
    <2>2. PICK size \in 1..MaxSize :
            req' = [Idle EXCEPT !.by = p, !.step = "clear",
                           !.draft = [NoRules EXCEPT !.rules =
                              [i \in Indexes |-> IF i < size THEN spent'.saves ELSE 0]]]
      BY <1>4 DEF SaveRequest
    <2>3. [NoRules EXCEPT !.rules = [i \in Indexes |-> IF i < size THEN spent'.saves ELSE 0]] \in RuleSet
      BY <2>1, SizesAssumption DEF NoRules, RuleSet
    <2>4. req' \in [by : Admins, step : Steps, draft : RuleSet, old : RuleSet] /\ req'.step = "clear"
      BY <2>2, <2>3, RuleSetFacts DEF Idle, Steps
    <2>5. TypeOK'
      BY <1>4, <1>0, <2>1, <2>4 DEF SaveRequest, TypeOK
    <2>6. Versions'
      BY <1>4, <1>0, <2>1, <2>4 DEF SaveRequest, Versions, Activating
    <2>. QED BY <2>5, <2>6 DEF TypeInv
  <1>5. ASSUME NEW p \in Admins, ActivateRequest(p)
        PROVE  TypeInv'
    <2>1. spent' \in [saves : 0..MaxSaves, activations : 0..MaxActivations,
                      toggles : 0..MaxToggles, faults : 0..MaxFaults]
          /\ spent'.activations = spent.activations + 1 /\ spent.activations \in Nat
      BY <1>5, <1>0, SizesAssumption DEF ActivateRequest
    <2>2. /\ req' \in [by : Admins, step : Steps, draft : RuleSet, old : RuleSet]
          /\ req'.old = ActiveFor(p)
      BY <1>5, <1>p, ActiveFacts DEF ActivateRequest, Steps
    <2>3. TypeOK'
      BY <1>5, <1>0, <1>p, <2>1, <2>2, ActiveFacts DEF ActivateRequest, TypeOK
    <2>4. ActiveFor(p).version < spent'.activations
      BY <1>p, <2>1, ActiveFacts
    <2>5. \A q \in Processes : cached'[q].version \in 0..spent'.activations
      BY <1>5, <1>0, <1>p, <2>1, ActiveFacts DEF ActivateRequest, Versions
    <2>6. \A i \in Indexes : rows'[Active][i] # NoRow => rows'[Active][i].latest \in 1..spent'.activations
      BY <1>5, <1>0, <2>1 DEF ActivateRequest, Versions
    <2>. QED BY <2>2, <2>3, <2>4, <2>5, <2>6 DEF TypeInv, Versions
  <1>6. ASSUME NEW p \in Admins, EnableRequest(p)
        PROVE  TypeInv'
    <2>1. spent' \in [saves : 0..MaxSaves, activations : 0..MaxActivations,
                      toggles : 0..MaxToggles, faults : 0..MaxFaults]
          /\ spent'.activations = spent.activations
      BY <1>6, <1>0, SizesAssumption DEF EnableRequest
    <2>. QED BY <1>6, <1>0, <1>p, <2>1 DEF EnableRequest, TypeInv, TypeOK, Versions, Activating
  <1>7. ASSUME NEW p \in Admins, DisableRequest(p)
        PROVE  TypeInv'
    <2>1. spent' \in [saves : 0..MaxSaves, activations : 0..MaxActivations,
                      toggles : 0..MaxToggles, faults : 0..MaxFaults]
          /\ spent'.activations = spent.activations
      BY <1>7, <1>0, SizesAssumption DEF DisableRequest
    <2>2. req' \in [by : Admins, step : Steps, draft : RuleSet, old : RuleSet] /\ req'.step = "off"
      BY <1>7, RuleSetFacts DEF DisableRequest, Idle, Steps
    <2>. QED BY <1>7, <1>0, <1>p, <2>1, <2>2 DEF DisableRequest, TypeInv, TypeOK, Versions, Activating
  <1>8. CASE LookUpActive
    <2>1. req # Idle /\ req.by \in Admins /\ req.by \in Processes
      BY <1>8, <1>p, RequestFacts, IdleFacts DEF LookUpActive, TypeInv
    <2>2. req' = Idle \/ (/\ req' \in [by : Admins, step : Steps, draft : RuleSet, old : RuleSet]
                          /\ req'.step = "retireoff")
      BY <1>8, <2>1, RequestFacts, ActiveFacts DEF LookUpActive, Steps, TypeInv
    <2>3. ~Activating'
      BY <2>2, IdleFacts DEF Activating, Steps
    <2>4. TypeOK'
      BY <1>8, <1>0, <2>1, <2>2, ActiveFacts DEF LookUpActive, TypeOK
    <2>5. \A q \in Processes : cached'[q].version \in 0..spent'.activations
      BY <1>8, <1>0, <2>1, ActiveFacts DEF LookUpActive, Versions
    <2>. QED BY <1>8, <1>0, <2>3, <2>4, <2>5 DEF LookUpActive, TypeInv, Versions
  <1>9. CASE Write
    <2>1. req # Idle /\ req.step \in Steps
      BY <1>9, RequestFacts, IdleFacts DEF Write, TypeInv
    <2>2. Following(req.step) \in Steps \cup {"idle"}
      BY DEF Following, Steps
    <2>3. Following(req.step) \in {"retire", "drop", "create", "forget", "empty"} => Activating
      BY DEF Following, Activating
    <2>4. MaxSize \in Nat
      BY SizesAssumption
    <2>. QED BY <1>9, <1>0, <2>1, <2>2, <2>3, <2>4, TypesWriting DEF Write
  <1>10. CASE WriteFails
    <2>1. req # Idle /\ req.step \in Steps
      BY <1>10, FailAssumption, IdleFacts DEF WriteFails
    <2>2. PICK upto \in Indexes : rows' = Written(req.step, upto)
      BY <1>10 DEF WriteFails
    <2>3. upto \in Nat
      BY SizesAssumption DEF Indexes
    <2>4. spent' \in [saves : 0..MaxSaves, activations : 0..MaxActivations,
                      toggles : 0..MaxToggles, faults : 0..MaxFaults]
          /\ spent'.activations = spent.activations
      BY <1>10, <1>0, SizesAssumption DEF WriteFails
    <2>5. AfterFailure(req.step) \in Steps \cup {"idle"}
      BY DEF AfterFailure, Steps
    <2>6. AfterFailure(req.step) \in {"retire", "drop", "create", "forget", "empty"} => Activating
      BY DEF AfterFailure, Activating
    <2>. QED BY <1>10, <2>1, <2>2, <2>3, <2>4, <2>5, <2>6, TypesWriting DEF WriteFails
  <1>11. CASE CutShort
    <2>1. PICK upto \in Indexes : rows' = Written(req.step, upto)
      BY <1>11 DEF CutShort
    <2>2. upto \in Nat
      BY SizesAssumption DEF Indexes
    <2>3. spent' \in [saves : 0..MaxSaves, activations : 0..MaxActivations,
                      toggles : 0..MaxToggles, faults : 0..MaxFaults]
          /\ spent'.activations = spent.activations
      BY <1>11, <1>0, SizesAssumption DEF CutShort
    <2>4. Goes("idle")
      BY <1>11 DEF CutShort, Goes
    <2>. QED BY <1>11, <2>1, <2>2, <2>3, <2>4, TypesWriting DEF CutShort
  <1>12. CASE UNCHANGED vars
    BY <1>12, <1>0, TypesReading DEF vars, Versions
  <1>. QED BY <1>1, <1>2, <1>3, <1>4, <1>5, <1>6, <1>7, <1>8, <1>9, <1>10, <1>11, <1>12
        DEF Next, Serve

-----------------------------------------------------------------------------
(***************************************************************************)
(* What follows is about careful requests.                                 *)
(***************************************************************************)
\* A rule set that is active is retired under the name of its version.
LEMMA ActiveVersion ==
  ASSUME TypeInv, ~IsEmpty(Stored(Active))
  PROVE  Stored(Active).version \in Historical
  <1>1. rows \in [Names -> [Indexes -> Rows]] /\ spent.activations \in 0..MaxActivations
    BY DEF TypeInv, TypeOK
  <1>2. PICK i \in Indexes : /\ rows[Active][i] # NoRow
                             /\ Stored(Active).version = rows[Active][i].latest
    BY <1>1, StoredFacts, NameFacts
  <1>3. rows[Active][i].latest \in 1..spent.activations
    BY <1>2 DEF TypeInv, Versions
  <1>. QED BY <1>1, <1>2, <1>3, SizesAssumption DEF Historical

\* Rules read from rows saved together were saved together.
LEMMA StoredTogether ==
  ASSUME TypeOK, Whole
  PROVE  Together(Stored(Active).rules) /\ Together(Stored(Draft).rules)
  <1>1. /\ Stored(Active).rules = [i \in Indexes |-> rows[Active][i].save]
        /\ Stored(Draft).rules = [i \in Indexes |-> rows[Draft][i].save]
    BY DEF Stored
  <1>. QED BY <1>1 DEF Whole, SavedTogether

\* What the first `upto` writes of a step leave: they only delete the active
\* rows a historical rule set holds, and write rows where there are none.
LEMMA Leaves ==
  ASSUME IInv, req # Idle, NEW upto \in Nat, rows' = Written(req.step, upto), NEW i \in Indexes
  PROVE  /\ rows'[Draft][i].save \in {0, rows[Draft][i].save, req.draft.rules[i]}
         /\ rows'[Draft][i].save # 0 => req.step = "draft" \/ rows'[Draft][i] = rows[Draft][i]
         /\ rows'[Active][i].save \in {0, rows[Active][i].save, req.draft.rules[i]}
         /\ rows'[Active][i].save # 0 => req.step = "create" \/ rows'[Active][i] = rows[Active][i]
         /\ rows'[Active][i] # rows[Active][i] =>
              \/ req.step \in {"drop", "dropoff"} /\ rows' = Deleted(Active, upto)
              \/ rows[Active][i] = NoRow
  <1>1. rows \in [Names -> [Indexes -> Rows]]
    BY DEF IInv, TypeInv, TypeOK
  <1>2. req.draft \in RuleSet /\ req.old \in RuleSet /\ req.old.version \in 0..MaxActivations
    BY RequestFacts, RuleSetFacts DEF IInv, TypeInv
  <1>3. rows[Draft][i] \in Rows /\ rows[Active][i] \in Rows
    BY <1>1, NameFacts
  <1>5. CASE req.step \in {"clear", "forget"}
    <2>1. rows' = Deleted(Draft, upto)
      BY <1>5 DEF Written
    <2>2. rows'[Active] = rows[Active]
      BY <2>1, <1>1, NameFacts DEF Deleted
    <2>3. rows'[Draft][i] = IF i < upto THEN NoRow ELSE rows[Draft][i]
      BY <2>1, <1>1, DeletedRows, NameFacts
    <2>. QED BY <2>2, <2>3, <1>3, RowFacts
  <1>6. CASE req.step = "draft"
    <2>1. rows' = Created(Draft, req.draft, 0, upto)
      BY <1>6 DEF Written
    <2>2. rows'[Active] = rows[Active]
      BY <2>1, <1>1, <1>2, NameFacts DEF Created
    <2>3. rows'[Draft][i] = IF i < upto /\ req.draft.rules[i] # 0
                              THEN [save |-> req.draft.rules[i], latest |-> 0] ELSE rows[Draft][i]
      BY <2>1, <1>1, NameFacts DEF Created
    <2>. QED BY <2>2, <2>3, <1>3, <1>6
  <1>7. CASE req.step \in {"retire", "retireoff"}
    <2>1. rows' = Created(req.old.version, req.old, 0, upto)
      BY <1>7 DEF Written
    <2>2. rows'[Active] = rows[Active] /\ rows'[Draft] = rows[Draft]
      BY <2>1, <1>1, <1>2, NameFacts DEF Created
    <2>. QED BY <2>2, <1>3
  <1>8. CASE req.step \in {"drop", "dropoff"}
    <2>1. rows' = Deleted(Active, upto)
      BY <1>8 DEF Written
    <2>2. rows'[Draft] = rows[Draft]
      BY <2>1, <1>1, NameFacts DEF Deleted
    <2>3. rows'[Active][i] = IF i < upto THEN NoRow ELSE rows[Active][i]
      BY <2>1, <1>1, DeletedRows, NameFacts
    <2>. QED BY <2>1, <2>2, <2>3, <1>3, <1>8, RowFacts
  <1>9. CASE req.step = "create"
    <2>1. rows' = Created(Active, req.draft, NextVersion(req.old.version), upto)
      BY <1>9 DEF Written
    <2>2. rows'[Draft] = rows[Draft]
      BY <2>1, <1>1, NameFacts DEF Created
    <2>3. rows'[Active][i] = IF i < upto /\ req.draft.rules[i] # 0
            THEN [save |-> req.draft.rules[i], latest |-> NextVersion(req.old.version)] ELSE rows[Active][i]
      BY <2>1, <1>1, NameFacts DEF Created
    <2>4. rows[Active][i] = NoRow
      BY <1>9, RowFacts DEF IInv, Progress
    <2>. QED BY <2>2, <2>3, <2>4, <1>3, <1>9
  <1>10. CASE req.step \in {"empty", "off"}
    <2>1. rows' = rows
      BY <1>10 DEF Written
    <2>. QED BY <2>1, <1>3
  <1>. QED BY <1>5, <1>6, <1>7, <1>8, <1>9, <1>10, RequestFacts DEF Steps, IInv, TypeInv

\* A write keeps the rules of a name together: it starts from no rows, or only
\* takes rows away.
LEMMA WholeWriting ==
  ASSUME IInv, req # Idle, NEW upto \in Nat, rows' = Written(req.step, upto)
  PROVE  SavedTogether(Draft)' /\ SavedTogether(Active)'
  <1>1. Together(req.draft.rules)
    BY DEF IInv, Whole
  <1>2. \A i, j \in Indexes : /\ rows[Draft][i].save # 0 /\ rows[Draft][j].save # 0 =>
                                 rows[Draft][i].save = rows[Draft][j].save
                              /\ rows[Active][i].save # 0 /\ rows[Active][j].save # 0 =>
                                 rows[Active][i].save = rows[Active][j].save
    BY DEF IInv, Whole, SavedTogether, Together
  <1>3. req.step = "draft" => \A i \in Indexes : rows[Draft][i].save = 0
    BY RowFacts DEF IInv, Progress
  <1>4. req.step = "create" => \A i \in Indexes : rows[Active][i].save = 0
    BY RowFacts DEF IInv, Progress
  <1>5. ASSUME NEW i \in Indexes, NEW j \in Indexes,
               rows'[Draft][i].save # 0, rows'[Draft][j].save # 0
        PROVE  rows'[Draft][i].save = rows'[Draft][j].save
    BY <1>1, <1>2, <1>3, <1>5, Leaves DEF Together
  <1>6. ASSUME NEW i \in Indexes, NEW j \in Indexes,
               rows'[Active][i].save # 0, rows'[Active][j].save # 0
        PROVE  rows'[Active][i].save = rows'[Active][j].save
    BY <1>1, <1>2, <1>4, <1>6, Leaves DEF Together
  <1>. QED BY <1>5, <1>6 DEF SavedTogether, Together

\* A step that leaves the table and the request alone.
LEMMA WholeReading ==
  ASSUME IInv, UNCHANGED <<rows, req>>,
         \A p \in Processes : cached'[p] = cached[p] \/ cached'[p] \in {Absent, Stored(Active)}
  PROVE  Whole' /\ Progress'
  <1>1. Stored(Active)' = Stored(Active)
    BY DEF Stored
  <1>2. Together(Stored(Active).rules)
    BY StoredTogether DEF IInv, TypeInv
  <1>3. \A p \in Processes : cached'[p] # Absent => Together(cached'[p].rules)
    BY <1>2 DEF IInv, Whole
  <1>4. Whole'
    BY <1>3 DEF IInv, Whole, SavedTogether
  <1>5. req.step = "off" => req.by \in Processes
    BY RequestFacts, IdleFacts DEF IInv, TypeInv, Processes
  <1>6. req.step = "off" => cached'[req.by] \in {Absent, Stored(Active)}
    BY <1>5 DEF IInv, Progress
  <1>7. Activated' = Activated
    BY DEF Activated
  <1>8. Progress'
    BY <1>1, <1>6, <1>7 DEF IInv, Progress, Retiring, Activating
  <1>. QED BY <1>4, <1>8

\* A request that ends leaves nothing to be done.
LEMMA Ended ==
  ASSUME req' = Idle
  PROVE  Progress' /\ Together(req'.draft.rules)
  BY IdleFacts DEF Progress, Retiring, Activating, Together, NoRules

\* A write that ends its request, refused or not, or is the last of it.
LEMMA WholeEnding ==
  ASSUME IInv, req # Idle, NEW upto \in Nat, rows' = Written(req.step, upto), req' = Idle,
         \A p \in Processes : cached'[p] \in {cached[p], Absent}
  PROVE  Whole' /\ Progress'
  <1>1. SavedTogether(Draft)' /\ SavedTogether(Active)'
    BY WholeWriting
  <1>. QED BY <1>1, Ended DEF IInv, Whole

\* A write that goes through brings its request on.
LEMMA WholeGoingOn ==
  ASSUME IInv, Write, Following(req.step) # "idle"
  PROVE  Whole' /\ Progress'
  <1>0. /\ rows \in [Names -> [Indexes -> Rows]] /\ MaxSize \in Nat
        /\ \A i \in Indexes : i < MaxSize
    BY SizesAssumption DEF IInv, TypeInv, TypeOK, Indexes
  <1>1. req # Idle /\ req.step \in Steps
    BY RequestFacts, IdleFacts DEF Write, IInv, TypeInv
  <1>2. /\ req.draft \in RuleSet /\ req.old \in RuleSet /\ req.old.version \in 0..MaxActivations
        /\ req.draft.rules \in [Indexes -> 0..MaxSaves]
    BY <1>1, RequestFacts, RuleSetFacts DEF IInv, TypeInv
  <1>3. /\ rows' = Written(req.step, MaxSize) /\ cached' = cached
        /\ req' = [req EXCEPT !.step = Following(req.step)]
    BY DEF Write, Goes, Invalidates, Following
  <1>4. /\ req'.step = Following(req.step) /\ req'.by = req.by
        /\ req'.draft = req.draft /\ req'.old = req.old
    BY <1>1, <1>3, RequestFacts DEF IInv, TypeInv
  <1>5. Whole'
    BY <1>0, <1>1, <1>3, <1>4, WholeWriting DEF IInv, Whole
  <1>6. CASE req.step = "clear"
    <2>1. rows' = Deleted(Draft, MaxSize) /\ req'.step = "draft"
      BY <1>3, <1>4, <1>6 DEF Written, Following
    <2>2. rows'[Draft] = NoRows
      BY <2>1, <1>0, NameFacts DEF Deleted, NoRows
    <2>. QED BY <1>5, <2>1, <2>2 DEF Progress, Retiring, Activating
  <1>7. CASE req.step \in {"retire", "retireoff"}
    <2>1. rows' = Created(req.old.version, req.old, 0, MaxSize) /\ req'.step \in {"drop", "dropoff"}
          /\ (req'.step = "drop" => req.step = "retire")
      BY <1>3, <1>4, <1>7 DEF Written, Following
    <2>2. req.old = Stored(Active) /\ req.old.version \in Historical /\ req.old.version \in Names
      BY <1>7, NameFacts DEF IInv, Progress, Retiring
    <2>3. rows'[Active] = rows[Active]
      BY <2>1, <1>0, <1>2, NameFacts DEF Created
    <2>4. \A i \in Indexes : rows[Active][i] # NoRow =>
            rows'[req.old.version][i].save = rows[Active][i].save
      <3> TAKE i \in Indexes
      <3>1. req.old.rules[i] = rows[Active][i].save
        BY <2>2 DEF Stored
      <3>2. rows[Active][i] # NoRow => rows[Active][i].save # 0
        BY <1>0, NameFacts, RowFacts
      <3>3. rows'[req.old.version][i] =
              IF i < MaxSize /\ req.old.rules[i] # 0
                THEN [save |-> req.old.rules[i], latest |-> 0] ELSE rows[req.old.version][i]
        BY <2>1, <2>2, <1>0 DEF Created
      <3>. QED BY <3>1, <3>2, <3>3, <1>0
    <2>5. req'.step = "drop" => ~IsEmpty(req'.draft)
      BY <2>1, <1>4 DEF IInv, Progress, Activating
    <2>. QED BY <1>4, <1>5, <2>1, <2>2, <2>3, <2>4, <2>5 DEF Progress, Retiring, Activating
  <1>8. CASE req.step = "drop"
    <2>1. rows' = Deleted(Active, MaxSize) /\ req'.step = "create"
      BY <1>3, <1>4, <1>8 DEF Written, Following
    <2>2. rows'[Active] = NoRows
      BY <2>1, <1>0, NameFacts DEF Deleted, NoRows
    <2>3. ~IsEmpty(req'.draft)
      BY <1>8, <1>4 DEF IInv, Progress, Activating
    <2>. QED BY <1>5, <2>1, <2>2, <2>3 DEF Progress, Retiring, Activating
  <1>9. CASE req.step = "create"
    <2>1. rows' = Created(Active, req.draft, NextVersion(req.old.version), MaxSize)
          /\ req'.step = "forget"
      BY <1>3, <1>4, <1>9 DEF Written, Following
    <2>2. rows[Active] = NoRows
      BY <1>9 DEF IInv, Progress
    <2>3. rows'[Active] =
            [i \in Indexes |-> IF i < MaxSize /\ req.draft.rules[i] # 0
               THEN [save |-> req.draft.rules[i], latest |-> NextVersion(req.old.version)]
               ELSE rows[Active][i]]
      BY <2>1, <1>0, NameFacts DEF Created
    <2>4. rows'[Active] = Activated'
      BY <2>2, <2>3, <1>0, <1>4, RowFacts DEF Activated, NextVersion
    <2>5. ~IsEmpty(req'.draft)
      BY <1>9, <1>4 DEF IInv, Progress, Activating
    <2>. QED BY <1>5, <2>1, <2>4, <2>5 DEF Progress, Retiring, Activating
  <1>10. CASE req.step = "forget"
    <2>1. rows' = Deleted(Draft, MaxSize) /\ req'.step = "empty"
      BY <1>3, <1>4, <1>10 DEF Written, Following
    <2>2. rows'[Draft] = NoRows
      BY <2>1, <1>0, NameFacts DEF Deleted, NoRows
    <2>3. rows'[Active] = rows[Active] /\ rows[Active] = Activated
      BY <2>1, <1>0, <1>10, NameFacts DEF Deleted, IInv, Progress
    <2>4. Activated' = Activated
      BY <1>4 DEF Activated, NextVersion
    <2>5. ~IsEmpty(req'.draft)
      BY <1>10, <1>4 DEF IInv, Progress, Activating
    <2>. QED BY <1>5, <2>1, <2>2, <2>3, <2>4, <2>5 DEF Progress, Retiring, Activating
  <1>. QED BY <1>1, <1>6, <1>7, <1>8, <1>9, <1>10 DEF Following, Steps

LEMMA WholeInit == Init => Whole /\ Progress
  <1> SUFFICES ASSUME Init PROVE Whole /\ Progress
    OBVIOUS
  <1>1. \A i \in Indexes : rows[Active][i].save = 0 /\ rows[Draft][i].save = 0
    BY RowFacts, NameFacts DEF Init
  <1>2. Whole
    BY <1>1, IdleFacts DEF Init, Whole, SavedTogether, Together, NoRules
  <1>3. Progress
    BY IdleFacts DEF Init, Progress, Retiring, Activating
  <1>. QED BY <1>2, <1>3

LEMMA WholePreserved ==
  ASSUME Careful, IInv, [Next]_vars
  PROVE  Whole' /\ Progress'
  <1>0. TypeInv /\ Whole /\ Progress /\ Admins \subseteq Processes
        /\ cached \in [Processes -> RuleSet \cup {Absent}]
        /\ rows \in [Names -> [Indexes -> Rows]]
    BY DEF IInv, Processes, TypeInv, TypeOK
  <1>1. ASSUME NEW p \in Processes, ReadConfig(p) \/ ConfigExpires(p) \/ ReadRules(p) \/ RulesExpire(p)
        PROVE  Whole' /\ Progress'
    BY <1>1, <1>0, WholeReading DEF ReadConfig, ConfigExpires, ReadRules, RulesExpire
  <1>2. ASSUME NEW p \in Admins, SaveRequest(p)
        PROVE  Whole' /\ Progress'
    <2>1. PICK size \in 1..MaxSize :
            req' = [Idle EXCEPT !.by = p, !.step = "clear",
                           !.draft = [NoRules EXCEPT !.rules =
                              [i \in Indexes |-> IF i < size THEN spent'.saves ELSE 0]]]
      BY <1>2 DEF SaveRequest
    <2>2. req'.step = "clear" /\ Together(req'.draft.rules)
      BY <2>1 DEF Idle, NoRules, Together
    <2>3. UNCHANGED <<rows, cached>>
      BY <1>2 DEF SaveRequest
    <2>4. Progress'
      BY <2>2 DEF Progress, Retiring, Activating
    <2>. QED BY <1>0, <2>2, <2>3, <2>4 DEF Whole, SavedTogether
  <1>3. ASSUME NEW p \in Admins, ActivateRequest(p)
        PROVE  Whole' /\ Progress'
    <2>1. cached[p] \in {Absent, Stored(Active)}
      BY <1>3 DEF ActivateRequest, Timely, Careful
    <2>2. ActiveFor(p) = Stored(Active)
      BY <2>1 DEF ActiveFor
    <2>3. /\ req' = [by |-> p, step |-> IF IsEmpty(Stored(Active)) THEN "create" ELSE "retire",
                     draft |-> Stored(Draft), old |-> Stored(Active)]
          /\ ~IsEmpty(Stored(Draft))
          /\ rows' = rows /\ cached' = [cached EXCEPT ![p] = Stored(Active)]
      BY <1>3, <2>2 DEF ActivateRequest
    <2>4. Together(Stored(Active).rules) /\ Together(Stored(Draft).rules)
      BY <1>0, StoredTogether DEF TypeInv
    <2>5. Whole'
      BY <1>0, <2>3, <2>4 DEF Whole, SavedTogether
    <2>6. IsEmpty(Stored(Active)) => rows[Active] = NoRows
      BY <1>0, StoredFacts, NameFacts
    <2>7. ~IsEmpty(Stored(Active)) => Stored(Active).version \in Historical
      BY <1>0, ActiveVersion
    <2>8. Stored(Active)' = Stored(Active)
      BY <2>3 DEF Stored
    <2>9. CASE IsEmpty(Stored(Active))
      <3>1. req'.step = "create" /\ req'.draft = Stored(Draft)
        BY <2>3, <2>9
      <3>. QED BY <3>1, <2>3, <2>5, <2>6, <2>9 DEF Progress, Retiring, Activating
    <2>10. CASE ~IsEmpty(Stored(Active))
      <3>1. req'.step = "retire" /\ req'.draft = Stored(Draft) /\ req'.old = Stored(Active)
        BY <2>3, <2>10
      <3>. QED BY <3>1, <2>3, <2>5, <2>7, <2>8, <2>10 DEF Progress, Retiring, Activating
    <2>. QED BY <2>9, <2>10
  <1>4. ASSUME NEW p \in Admins, EnableRequest(p)
        PROVE  Whole' /\ Progress'
    BY <1>4, <1>0, WholeReading DEF EnableRequest
  <1>5. ASSUME NEW p \in Admins, DisableRequest(p)
        PROVE  Whole' /\ Progress'
    <2>1. cached[p] \in {Absent, Stored(Active)} /\ UNCHANGED <<rows, cached>>
      BY <1>5 DEF DisableRequest, Timely, Careful
    <2>2. req'.step = "off" /\ req'.by = p /\ req'.draft = NoRules
      BY <1>5 DEF DisableRequest, Idle
    <2>3. Stored(Active)' = Stored(Active)
      BY <2>1 DEF Stored
    <2>4. Progress'
      BY <2>1, <2>2, <2>3 DEF Progress, Retiring, Activating
    <2>5. Together(req'.draft.rules)
      BY <2>2 DEF Together, NoRules
    <2>. QED BY <1>0, <2>1, <2>4, <2>5 DEF Whole, SavedTogether
  <1>6. CASE LookUpActive
    <2>1. req # Idle /\ req.by \in Processes
      BY <1>6, <1>0, RequestFacts, IdleFacts DEF LookUpActive, TypeInv
    <2>2. ActiveFor(req.by) = Stored(Active)
      BY <1>6, <1>0 DEF LookUpActive, Progress, ActiveFor
    <2>3. rows' = rows /\ cached' = [cached EXCEPT ![req.by] = Stored(Active)]
      BY <1>6, <2>2 DEF LookUpActive
    <2>4. Together(Stored(Active).rules)
      BY <1>0, StoredTogether DEF TypeInv
    <2>5. CASE IsEmpty(Stored(Active))
      <3>1. req' = Idle
        BY <1>6, <2>2, <2>5 DEF LookUpActive
      <3>. QED BY <3>1, <1>0, <2>1, <2>3, <2>4, Ended DEF Whole, SavedTogether
    <2>6. CASE ~IsEmpty(Stored(Active))
      <3>1. req' = [req EXCEPT !.step = "retireoff", !.old = Stored(Active)]
        BY <1>6, <2>2, <2>6 DEF LookUpActive
      <3>2. req'.step = "retireoff" /\ req'.old = Stored(Active) /\ req'.draft = req.draft
        BY <3>1, <2>1, <1>0, RequestFacts DEF TypeInv
      <3>3. Stored(Active)' = Stored(Active)
        BY <2>3 DEF Stored
      <3>4. Stored(Active).version \in Historical
        BY <1>0, <2>6, ActiveVersion
      <3>5. Progress'
        BY <3>2, <3>3, <3>4 DEF Progress, Retiring, Activating
      <3>6. \A q \in Processes : cached'[q] # Absent => Together(cached'[q].rules)
        BY <1>0, <2>3, <2>4 DEF Whole
      <3>. QED BY <1>0, <2>3, <3>2, <3>5, <3>6 DEF Whole, SavedTogether
    <2>. QED BY <2>5, <2>6
  <1>7. CASE Write
    <2>1. req # Idle /\ req.by \in Processes
      BY <1>7, <1>0, RequestFacts, IdleFacts DEF Write, TypeInv
    <2>2. CASE Following(req.step) = "idle"
      <3>1. rows' = Written(req.step, MaxSize) /\ req' = Idle /\ MaxSize \in Nat
            /\ \A q \in Processes : cached'[q] \in {cached[q], Absent}
        BY <1>7, <1>0, <2>1, <2>2, SizesAssumption DEF Write, Goes
      <3>. QED BY <3>1, <2>1, WholeEnding
    <2>3. CASE Following(req.step) # "idle"
      BY <1>7, <2>3, WholeGoingOn
    <2>. QED BY <2>2, <2>3
  <1>8. CASE WriteFails
    <2>1. req # Idle /\ req.step \in Steps /\ AfterFailure(req.step) = "idle"
      BY <1>8, FailAssumption, IdleFacts DEF WriteFails, Careful, AfterFailure
    <2>2. PICK upto \in Indexes : rows' = Written(req.step, upto)
      BY <1>8 DEF WriteFails
    <2>3. upto \in Nat /\ req' = Idle /\ \A q \in Processes : cached'[q] \in {cached[q], Absent}
      BY <1>8, <1>0, <2>1, SizesAssumption DEF WriteFails, Goes, Indexes
    <2>. QED BY <2>1, <2>2, <2>3, WholeEnding
  <1>9. CASE CutShort
    <2>1. PICK upto \in Indexes : rows' = Written(req.step, upto)
      BY <1>9 DEF CutShort
    <2>2. upto \in Nat /\ req # Idle /\ req' = Idle
          /\ \A q \in Processes : cached'[q] \in {cached[q], Absent}
      BY <1>9, <1>0, SizesAssumption DEF CutShort, Indexes
    <2>. QED BY <2>1, <2>2, WholeEnding
  <1>10. CASE UNCHANGED vars
    BY <1>10, <1>0, WholeReading DEF vars
  <1>. QED BY <1>1, <1>2, <1>3, <1>4, <1>5, <1>6, <1>7, <1>8, <1>9, <1>10 DEF Next, Serve

-----------------------------------------------------------------------------
\* The table, the caches and the request always have their types: the number a
\* new active rule set gets never passes the number of activations, whatever
\* write of a request failed and however old the rule set a cache gave it.
THEOREM TypeCorrect == Spec => []TypeOK
  <1>1. Init => TypeInv
    BY TypesInit
  <1>2. TypeInv /\ [Next]_vars => TypeInv'
    BY TypesPreserved
  <1>3. TypeInv => TypeOK
    BY DEF TypeInv
  <1>. QED BY <1>1, <1>2, <1>3, PTL DEF Spec

\* The invariant of careful requests.
LEMMA Invariance ==
  ASSUME Careful
  PROVE  Spec => []IInv
  <1>1. Init => IInv
    BY TypesInit, WholeInit DEF IInv
  <1>2. IInv /\ [Next]_vars => IInv'
    BY TypesPreserved, WholePreserved DEF IInv
  <1>. QED BY <1>1, <1>2, PTL DEF Spec

\* Rules saved together come from at most one request.
LEMMA TogetherIsOneSave ==
  ASSUME NEW rules \in [Indexes -> Nat], Together(rules)
  PROVE  FromOneSave(rules)
  <1> DEFINE S == {rules[i] : i \in Indexes} \ {0}
  <1>1. CASE S = {}
    BY <1>1, FS_EmptySet DEF FromOneSave
  <1>2. CASE S # {}
    <2>1. PICK x \in S : TRUE
      BY <1>2
    <2>2. S = {x}
      BY <2>1 DEF Together
    <2>3. Cardinality(S) = 1
      BY <2>2, FS_Singleton
    <2>. QED BY <2>3 DEF FromOneSave
  <1>. QED BY <1>1, <1>2

\* The rules of the draft, of the active rule set and of every cached one were
\* saved by one request, wherever requests are cut short (createRuleSet writes
\* over what is left of a name: the deletes before it leave nothing).
THEOREM NothingIsMixed ==
  ASSUME Careful
  PROVE  Spec => []NoMixture
  <1>1. IInv => NoMixture
    <2> SUFFICES ASSUME IInv PROVE NoMixture
      OBVIOUS
    <2>1. /\ rows \in [Names -> [Indexes -> Rows]]
          /\ cached \in [Processes -> RuleSet \cup {Absent}]
      BY DEF IInv, TypeInv, TypeOK
    <2>2. ASSUME NEW n \in {Draft, Active}
          PROVE  FromOneSave(Stored(n).rules)
      <3>1. n \in Names
        BY NameFacts
      <3>2. /\ Stored(n).rules = [i \in Indexes |-> rows[n][i].save]
            /\ Stored(n).rules \in [Indexes -> Nat]
        BY <2>1, <3>1, RowFacts, SizesAssumption DEF Stored
      <3>3. Together(Stored(n).rules)
        BY <3>2 DEF IInv, Whole, SavedTogether
      <3>. QED BY <3>2, <3>3, TogetherIsOneSave
    <2>3. ASSUME NEW p \in Processes, cached[p] # Absent
          PROVE  FromOneSave(cached[p].rules)
      <3>1. cached[p].rules \in [Indexes -> Nat]
        BY <2>1, <2>3, RuleSetFacts, SizesAssumption
      <3>. QED BY <2>3, <3>1, TogetherIsOneSave DEF IInv, Whole
    <2>. QED BY <2>2, <2>3 DEF NoMixture
  <1>. QED BY <1>1, Invariance, PTL

\* A step that takes away or writes over a row of the active rule set finds its
\* rule under the name of a historical version.
THEOREM NothingIsLost ==
  ASSUME Careful
  PROVE  Spec => RetiredFirst
  <1>1. ASSUME IInv, [Next]_vars
        PROVE  \A i \in Indexes :
                 LET row == rows[Active][i] IN
                 row # NoRow /\ rows'[Active][i] # row
                   => \E v \in Historical : rows[v][i].save = row.save
    <2> SUFFICES ASSUME NEW i \in Indexes, rows[Active][i] # NoRow, rows'[Active][i] # rows[Active][i]
                 PROVE  \E v \in Historical : rows[v][i].save = rows[Active][i].save
      OBVIOUS
    <2>1. PICK upto \in Nat : req # Idle /\ rows' = Written(req.step, upto)
      <3>1. Write => rows' = Written(req.step, MaxSize) /\ req # Idle /\ MaxSize \in Nat
        BY SizesAssumption, IdleFacts DEF Write
      <3>2. WriteFails \/ CutShort => req # Idle /\ \E upto \in Indexes : rows' = Written(req.step, upto)
        BY FailAssumption, IdleFacts DEF WriteFails, CutShort
      <3>3. Write \/ WriteFails \/ CutShort
        BY <1>1 DEF Next, Serve, LookUpActive, ReadConfig, ReadRules, ConfigExpires, RulesExpire,
             SaveRequest, ActivateRequest, EnableRequest, DisableRequest, vars
      <3>4. Indexes \subseteq Nat
        BY SizesAssumption DEF Indexes
      <3>. QED BY <3>1, <3>2, <3>3, <3>4
    <2>2. req.step \in {"drop", "dropoff"}
      BY <1>1, <2>1, Leaves
    <2>. QED BY <1>1, <2>2 DEF IInv, Progress, Retiring
  <1>. QED BY <1>1, Invariance, PTL DEF Spec, RetiredFirst

\* An activation that reports success has made exactly the draft it read active,
\* under a version above the one it replaced, and has used the draft up.
THEOREM ActivationsTakeTheDraft ==
  ASSUME Careful
  PROVE  Spec => ActivationTakesDraft
  <1>1. ASSUME IInv, [Next]_vars
        PROVE  req.step \in {"forget", "empty"} /\ req' = Idle /\ spent' = spent
                 => /\ Stored(Active)'.rules = req.draft.rules
                    /\ Stored(Active)'.version > req.old.version
                    /\ IsEmpty(Stored(Draft))'
    <2> SUFFICES ASSUME req.step \in {"forget", "empty"}, req' = Idle, spent' = spent
                 PROVE  /\ Stored(Active)'.rules = req.draft.rules
                        /\ Stored(Active)'.version > req.old.version
                        /\ IsEmpty(Stored(Draft))'
      OBVIOUS
    <2>0. /\ rows \in [Names -> [Indexes -> Rows]] /\ MaxSize \in Nat
          /\ \A i \in Indexes : i < MaxSize
          /\ spent.faults \in Nat
          /\ spent \in [saves : 0..MaxSaves, activations : 0..MaxActivations,
                       toggles : 0..MaxToggles, faults : 0..MaxFaults]
      BY <1>1, SizesAssumption DEF IInv, TypeInv, TypeOK, Indexes
    <2>1. req # Idle
      BY IdleFacts
    <2>2. /\ req.draft.rules \in [Indexes -> 0..MaxSaves] /\ req.old.version \in Nat
          /\ ~IsEmpty(req.draft)
      BY <1>1, <2>1, RequestFacts, RuleSetFacts, SizesAssumption
      DEF IInv, TypeInv, Progress, Activating
    <2>3. spent' # [spent EXCEPT !.faults = @ + 1]
      BY <2>0
    <2>4. Write
      BY <1>1, <2>1, <2>3 DEF Next, Serve, LookUpActive, WriteFails, CutShort, ReadConfig, ReadRules,
           ConfigExpires, RulesExpire, SaveRequest, ActivateRequest, EnableRequest, DisableRequest, vars
    <2>5. rows' = Written(req.step, MaxSize)
      BY <2>4 DEF Write
    <2>6. rows[Active] = Activated /\ (req.step = "empty" => rows[Draft] = NoRows)
      BY <1>1 DEF IInv, Progress
    <2>7. rows'[Active] = Activated /\ rows'[Draft] = NoRows
      <3>1. CASE req.step = "forget"
        <4>1. rows' = Deleted(Draft, MaxSize)
          BY <2>5, <3>1 DEF Written
        <4>. QED BY <4>1, <2>0, <2>6, NameFacts DEF Deleted, NoRows
      <3>2. CASE req.step = "empty"
        BY <2>5, <2>6, <3>2 DEF Written
      <3>. QED BY <3>1, <3>2
    <2>8. Stored(Active)'.rules = req.draft.rules
      <3>1. Stored(Active)'.rules = [i \in Indexes |-> rows'[Active][i].save]
        BY DEF Stored
      <3>2. \A i \in Indexes : rows'[Active][i].save = req.draft.rules[i]
        BY <2>2, <2>7, RowFacts DEF Activated
      <3>. QED BY <3>1, <3>2, <2>2
    <2>9. Stored(Active)'.version > req.old.version
      <3> DEFINE present == {i \in Indexes : rows'[Active][i] # NoRow}
                 first == CHOOSE i \in present : \A j \in present : i <= j
      <3>1. Stored(Active)'.version = IF present = {} THEN 0 ELSE rows'[Active][first].latest
        BY DEF Stored
      <3>2. PICK i \in Indexes : req.draft.rules[i] # 0
        BY <2>2 DEF IsEmpty
      <3>3. i \in present
        BY <2>7, <3>2 DEF Activated, NoRow
      <3>4. first \in present
        BY <3>3, FirstIndex
      <3>5. rows'[Active][first].latest = NextVersion(req.old.version)
        <4> HIDE DEF first
        <4>. QED BY <3>4, <2>7 DEF Activated
      <3>. QED BY <3>1, <3>3, <3>5, <2>2 DEF NextVersion
    <2>10. IsEmpty(Stored(Draft))'
      BY <2>7, RowFacts DEF IsEmpty, Stored
    <2>. QED BY <2>8, <2>9, <2>10
  <1>. QED BY <1>1, Invariance, PTL DEF Spec, ActivationTakesDraft
=============================================================================
