----------------------------- MODULE RuleMatching -----------------------------
(***************************************************************************)
(* Rule-based identity resolution down to the fields: how an ingested      *)
(* object is turned into index values rule by rule, how it is searched in  *)
(* the rule index table, and how puts, merges, the batch job and the       *)
(* activation of a rule set keep that table.  Invocations come one at a    *)
(* time; their interleaving is the subject of ProfileStore, which leaves   *)
(* open what matches.                                                      *)
(*                                                                         *)
(* A rule is [index, matches, skips, window]: a sequence of match          *)
(* conditions [in, ex] over fields, a set of skip conditions               *)
(* [field, other, values, negated], and the seconds of its filter.  An     *)
(* index value, the segments joined by "_", is kept as the sequence of the *)
(* segments; a normalization setting is part of Norm.                      *)
(***************************************************************************)
EXTENDS Naturals, Sequences, FiniteSets, SequencesExt

CONSTANTS
  Fields,       \* the fields of the profile and of all object types
  NoField,      \* a field a condition leaves out
  TypeOf,       \* field -> ProfileType or the object type that has it
  ProfileType,  \* PROFILE_OBJECT_TYPE_NAME
  Values,       \* field values
  Blank,        \* the empty string
  Norm,         \* value -> value, normalizeForIRIndex
  NoWindow,     \* the window of a rule without a filter
  RuleVersions, \* the rule sets activated one after the other
  Objects,      \* what is ingested: [pid, type, ts, val]
  Now,          \* the time of everything that carries no timestamp
  MaxIds,       \* bound: connect ids ever generated, one per put
  MaxTasks,     \* bound: objects the batch job takes up, over all activations
  Lagging       \* another process may still have the rule set before the active one

ASSUME ValuesAssumption  == Blank \in Values /\ Norm \in [Values -> Values] /\ Norm[Blank] = Blank
ASSUME FieldsAssumption  ==
  ProfileType \in STRING /\ TypeOf \in [Fields -> STRING] /\ NoField \notin Fields
ASSUME ObjectsAssumption ==
  \A o \in Objects : /\ o.type \in STRING /\ o.ts \in Nat
                     /\ o.val \in [Fields -> Values]
                     /\ \A f \in Fields : TypeOf[f] \notin {ProfileType, o.type} => o.val[f] = Blank
ASSUME LaggingAssumption == Lagging \in BOOLEAN /\ {Now, MaxIds, MaxTasks} \subseteq Nat

VARIABLES
  home,     \* master: profile_id -> connect_id
  origin,   \* master: profile_id -> original_connect_id
  row,      \* search table: connect_id -> its profile fields, all Blank without a row
  stored,   \* interaction tables: the objects ingested
  index,    \* rule index table
  queue,    \* merge queue: <<SourceID, TargetID>>
  active,   \* version of the active rule set
  nextId,   \* the next uuid
  tasks,    \* how many objects the batch job has taken up
  shown,    \* history: what each id was indexed for, rule by rule
  covered   \* history: <<object, rule index>> that went into the index

vars == <<home, origin, row, stored, index, queue, active, nextId, tasks, shown, covered>>

\* A validated rule has match conditions, and no two rules of a set have one number.
RuleRecords ==
  [index : Nat, window : Nat,
   matches : Seq([in : Fields, ex : Fields \cup {NoField}]) \ {<<>>},
   skips : SUBSET [field : Fields, other : Fields \cup {NoField}, values : SUBSET Values,
                   negated : BOOLEAN]]

ASSUME RulesAssumption ==
  /\ RuleVersions \in Seq(SUBSET RuleRecords)
  /\ \A i \in DOMAIN RuleVersions : \A r, s \in RuleVersions[i] : r.index = s.index => r = s

Pids == {o.pid : o \in Objects}
Ids  == 1..MaxIds
NoId == 0
Profile == {f \in Fields : TypeOf[f] = ProfileType}
BlankRow == [f \in Profile |-> Blank]
Rules(version) == IF version = 0 THEN {} ELSE RuleVersions[version]
----------------------------------------------------------------------------
(* What the conditions of a rule see of an object: its type, its time and  *)
(* its values, the profile fields among them.                              *)

\* objectMapToProfile: the profile as this object alone would make it.
Own(o) == [type |-> o.type, ts |-> o.ts, val |-> o.val]

\* The object with the profile fields of its search row.
Hydrated(o, fields, ts) ==
  [type |-> o.type, ts |-> ts, val |-> [f \in Fields |-> IF f \in Profile THEN fields[f] ELSE o.val[f]]]

\* A profile without an object, after a merge.
Whole(fields) ==
  [type |-> ProfileType, ts |-> Now, val |-> [f \in Fields |-> IF f \in Profile THEN fields[f] ELSE Blank]]

\* getValue
Value(v, f) == IF TypeOf[f] \in {ProfileType, v.type} THEN v.val[f] ELSE Blank

\* A condition without an existing field compares the incoming one on both sides.
Incoming(c) == c.in
Existing(c) == IF c.ex = NoField THEN c.in ELSE c.ex

Compared(s, v) == IF s.other = NoField THEN s.values ELSE {Value(v, s.other)}
SkipApplies(s, v) ==
  /\ TypeOf[s.field] \in {ProfileType, v.type}
  /\ s.negated # (Value(v, s.field) \in Compared(s, v))

(* Mutant: one empty field is enough for a rule not to apply. *)
AppliesFully(r, v) ==
  /\ \A s \in r.skips : ~SkipApplies(s, v)
  /\ \A c \in Range(r.matches) : Value(v, Incoming(c)) # Blank /\ Value(v, Existing(c)) # Blank

Applies(r, v) ==
  /\ \A s \in r.skips : ~SkipApplies(s, v)
  /\ \A c \in Range(r.matches) : Value(v, Incoming(c)) # Blank \/ Value(v, Existing(c)) # Blank

\* The k-th smallest of some positions.
Nth(S, k) == CHOOSE i \in S : Cardinality({j \in S : j < i}) = k - 1

\* The fields of one side that have a value, each once, in the order of the conditions.
Firsts(fields) == {i \in DOMAIN fields : \A k \in 1..(i - 1) : fields[k] # fields[i]}
UsedFields(fields, v) ==
  LET used == {i \in Firsts(fields) : Value(v, fields[i]) # Blank}
  IN  [k \in 1..Cardinality(used) |-> fields[Nth(used, k)]]

\* The segments of a side; a single empty one joins to the empty string.
Joined(fields, v) ==
  LET used == UsedFields(fields, v)
      segments == [i \in DOMAIN used |-> Norm[Value(v, used[i])]]
  IN  IF segments = <<Blank>> THEN <<>> ELSE segments

Value1(r, v) == Joined([i \in DOMAIN r.matches |-> Incoming(r.matches[i])], v)
Value2(r, v) == Joined([i \in DOMAIN r.matches |-> Existing(r.matches[i])], v)

Entry(id, r, v) == [cid |-> id, rule |-> r.index, v1 |-> Value1(r, v), v2 |-> Value2(r, v), ts |-> v.ts]
SameKey(a, b) == a.cid = b.cid /\ a.rule = b.rule /\ a.v1 = b.v1 /\ a.v2 = b.v2

\* INSERT ... ON CONFLICT DO NOTHING of the record of every rule that applies.
Indexed(table, id, rules, v) ==
  table \cup {e \in {Entry(id, r, v) : r \in {r \in rules : Applies(r, v)}} :
                \A t \in table : ~SameKey(t, e)}

Seconds(a, b) == IF a > b THEN a - b ELSE b - a
WithinWindow(r, a, b) == r.window = NoWindow \/ Seconds(a, b) <= r.window

(* Mutant: the search compares a side with the same side of the index. *)
SameSide(r, v, t) ==
  LET v2 == Value2(r, v) IN IF v2 # <<>> THEN t.v2 = v2 ELSE t.v1 = Value1(r, v)

(* createFindMatchSql: the existing side is looked up among the incoming   *)
(* ones, or the other way round if there is no existing side.              *)
SearchHits(r, v, t) ==
  LET v2 == Value2(r, v) IN IF v2 # <<>> THEN t.v1 = v2 ELSE t.v2 = Value1(r, v)

\* The ids FindMatches returns for a rule; `self` is the searching profile.
Found(r, v, self) ==
  IF ~Applies(r, v) THEN {}
  ELSE {t.cid : t \in {t \in index : /\ t.rule = r.index /\ t.cid # self
                                     /\ SearchHits(r, v, t)
                                     /\ WithinWindow(r, v.ts, t.ts)}}

RulesThatMatch(rules, v, self) == {r \in rules : Found(r, v, self) # {}}

\* MatchIDs[0] of every rule; the query states no order.
FirstMatches(rules, v, self) ==
  {m \in [RulesThatMatch(rules, v, self) -> Ids] : \A r \in DOMAIN m : m[r] \in Found(r, v, self)}
----------------------------------------------------------------------------
Init ==
  /\ home = [p \in Pids |-> NoId]
  /\ origin = [p \in Pids |-> NoId]
  /\ row = [c \in Ids |-> BlankRow]
  /\ stored = {} /\ index = {} /\ queue = {}
  /\ active = 0
  /\ nextId = 1 /\ tasks = 0
  /\ shown = {} /\ covered = {}

\* What another process takes for the active rule set.
Cached == IF Lagging /\ active > 0 THEN {active - 1, active} ELSE {active}

\* A search row takes a value over from another one; which wins where both have
\* one is the precedence of object types.
Combinations(old, new) ==
  {f \in [Profile -> Values] : \A x \in Profile :
     \/ f[x] = new[x] /\ (new[x] # Blank \/ old[x] = Blank)
     \/ f[x] = old[x] /\ old[x] # Blank}

Shown(id, rules, v) == {[cid |-> id, rule |-> r, view |-> v] : r \in {r \in rules : Applies(r, v)}}

(* The rest of PutProfileObject: object and search row under id c, and the *)
(* index record of the object with the fields the row now has.             *)
Store(o, c, rules) ==
  /\ stored' = stored \cup {o}
  /\ nextId' = nextId + 1
  /\ \E fields \in Combinations(row[c], [f \in Profile |-> o.val[f]]) :
       LET v == Hydrated(o, fields, o.ts) IN
       /\ row' = [row EXCEPT ![c] = fields]
       /\ index' = Indexed(index, c, rules, v)
       /\ shown' = shown \cup Shown(c, rules, v)
  /\ covered' = covered \cup {<<o, r>> : r \in rules}
  /\ UNCHANGED <<active, tasks>>

(* A profile_id that is there already: its row is kept whatever matches,   *)
(* and the requests name the uuid made for this put.                       *)
PutKnown(o, rules) ==
  /\ home[o.pid] # NoId
  /\ \E m \in FirstMatches(rules, Own(o), nextId) :
       queue' = queue \cup {<<nextId, m[r]>> : r \in DOMAIN m}
  /\ Store(o, home[o.pid], rules)
  /\ UNCHANGED <<home, origin>>

\* A new profile_id no rule matches is a new profile.
PutNew(o, rules) ==
  /\ home[o.pid] = NoId
  /\ RulesThatMatch(rules, Own(o), nextId) = {}
  /\ home' = [home EXCEPT ![o.pid] = nextId]
  /\ origin' = [origin EXCEPT ![o.pid] = nextId]
  /\ Store(o, nextId, rules)
  /\ UNCHANGED queue

\* The matches of the other rules go to the merger.
Remaining(m, first) == {<<nextId, m[r]>> : r \in DOMAIN m \ {first}}

(* A new profile_id goes straight into the first match of one of the rules *)
(* (the rules come out of a map).                                          *)
PutMatched(o, rules) ==
  /\ home[o.pid] = NoId
  /\ \E m \in FirstMatches(rules, Own(o), nextId) : \E first \in DOMAIN m :
       /\ home' = [home EXCEPT ![o.pid] = m[first]]
       /\ origin' = [origin EXCEPT ![o.pid] = nextId]
       /\ queue' = queue \cup Remaining(m, first)
       /\ Store(o, m[first], rules)

Put(o) ==
  /\ nextId <= MaxIds
  /\ o \notin stored
  /\ \E version \in Cached :
       LET rules == Rules(version) IN PutKnown(o, rules) \/ PutNew(o, rules) \/ PutMatched(o, rules)

\* FindCurrentParentOfProfile: the master row of an original connect id.
Resolve(u) == {home[p] : p \in {p \in Pids : origin[p] = u}}

\* Every condition names the profile on both sides; a skip condition or a condition
\* without an existing field does not.
IsProfileLevel(r) ==
  /\ r.skips = {}
  /\ \A c \in Range(r.matches) :
       c.ex # NoField /\ TypeOf[c.in] = ProfileType /\ TypeOf[c.ex] = ProfileType

(* Mutant: all records of src are moved, those tgt has as well.            *)
AllMoved(table, src, tgt, dropped) ==
  LET all == {IF t.cid = src THEN [t EXCEPT !.cid = tgt] ELSE t : t \in table}
  IN  {t \in all : t.cid = tgt => \A r \in dropped : t.rule # r.index}

(* The records of src under tgt, but for those tgt has, and without those  *)
(* of the rules `dropped`.                                                 *)
MovedRecords(table, src, tgt, dropped) ==
  LET kept  == {t \in table : t.cid # src}
      moved == {[t EXCEPT !.cid = tgt] : t \in {t \in table : t.cid = src}}
      all   == kept \cup {m \in moved : \A t \in kept : ~SameKey(t, m)}
  IN  {t \in all : t.cid = tgt => \A r \in dropped : t.rule # r.index}

MovedShown(src, tgt, dropped) ==
  {s \in {[h EXCEPT !.cid = IF @ = src THEN tgt ELSE @] : h \in shown} :
     s.cid = tgt => s.rule \notin dropped}

(* ReindexProfileAfterMerge and the search that follows it.  When no rule  *)
(* of the profile level applies to the merged profile, the INSERT has no   *)
(* values and fails, the transaction is rolled back and the request comes  *)
(* back to find its profiles merged.                                       *)
Reindex(rq, src, tgt, v, rules) ==
  LET levels == {r \in rules : IsProfileLevel(r)} IN
  IF levels # {} /\ \A r \in levels : ~Applies(r, v)
  THEN UNCHANGED <<index, shown, queue>>
  ELSE IF rules = {} THEN queue' = queue \ {rq} /\ UNCHANGED <<index, shown>>
  ELSE /\ index' = Indexed(MovedRecords(index, src, tgt, levels), tgt, levels, v)
       /\ shown' = MovedShown(src, tgt, levels) \cup Shown(tgt, levels, v)
       /\ \E m \in FirstMatches(rules, v, tgt)' :
            queue' = (queue \ {rq}) \cup
                     (IF DOMAIN m \cap levels = {} THEN {} ELSE {<<tgt, m[r]>> : r \in DOMAIN m})

(* MergeProfiles for a request whose ids belong to two profiles.           *)
Merge(rq) ==
  \E src \in Resolve(rq[1]), tgt \in Resolve(rq[2]) :
    /\ src # tgt
    /\ home' = [p \in Pids |-> IF home[p] = src THEN tgt ELSE home[p]]
    /\ \E fields \in Combinations(row[src], row[tgt]) :
         /\ row' = [row EXCEPT ![src] = BlankRow, ![tgt] = fields]
         /\ \E version \in Cached : Reindex(rq, src, tgt, Whole(fields), Rules(version))
    /\ UNCHANGED <<origin, stored, active, nextId, tasks, covered>>

\* A request between profiles that are one already, or that names an id no master
\* row has, which ends in the dead letter queue.
Drop(rq) ==
  /\ Resolve(rq[1]) = {} \/ Resolve(rq[2]) = {} \/ Resolve(rq[1]) = Resolve(rq[2])
  /\ queue' = queue \ {rq}
  /\ UNCHANGED <<home, origin, row, stored, index, active, nextId, tasks, shown, covered>>

(* RunRuleBasedIdentityResolution for a stored object and one rule: a match *)
(* is asked to be merged, and only an object without one is indexed.  The  *)
(* task takes the timestamp off the object.                                *)
Resolution(o, r) ==
  LET c == home[o.pid]
      v == Hydrated(o, row[c], Now)
  IN  /\ tasks < MaxTasks /\ tasks' = tasks + 1
      /\ IF Found(r, v, c) # {}
         THEN /\ \E m \in Found(r, v, c) : queue' = queue \cup {<<c, m>>}
              /\ UNCHANGED <<index, shown, covered>>
         ELSE /\ index' = Indexed(index, c, {r}, v)
              /\ shown' = shown \cup Shown(c, {r}, v)
              /\ covered' = covered \cup {<<o, r>>}
              /\ UNCHANGED queue
      /\ UNCHANGED <<home, origin, row, stored, active, nextId>>

\* EmptyIRTable
Emptied(table) == IF Rules(active) = {} THEN table ELSE {}

(* ActivateIdResRuleSet: the index of the rule set before is emptied.      *)
Activate ==
  /\ active < Len(RuleVersions)
  /\ active' = active + 1
  /\ index' = Emptied(index)
  /\ shown' = {} /\ covered' = {}
  /\ UNCHANGED <<home, origin, row, stored, queue, nextId, tasks>>

Next ==
  \/ \E o \in Objects : Put(o)
  \/ \E rq \in queue : Merge(rq) \/ Drop(rq)
  \/ \E o \in stored, version \in Cached : \E r \in Rules(version) : Resolution(o, r)
  \/ Activate

Spec == Init /\ [][Next]_vars
----------------------------------------------------------------------------
Sides == Seq(Values)
Views == [type : STRING, ts : Nat, val : [Fields -> Values]]
AllRules == UNION {RuleVersions[i] : i \in DOMAIN RuleVersions}

(* Types: every record of the index is of an id handed out and of a rule of *)
(* some rule set, and no two have one key.                                 *)
TypeOK ==
  /\ home \in [Pids -> Ids \cup {NoId}] /\ origin \in [Pids -> Ids \cup {NoId}]
  /\ row \in [Ids -> [Profile -> Values]]
  /\ stored \subseteq Objects
  /\ \A t \in index : t.cid \in Ids /\ t.v1 \in Sides /\ t.v2 \in Sides /\ t.ts \in Nat
  /\ \A t, u \in index : SameKey(t, u) => t = u
  /\ queue \subseteq Ids \X Ids
  /\ active \in 0..Len(RuleVersions) /\ nextId \in 1..(MaxIds + 1) /\ tasks \in 0..MaxTasks
  /\ \A s \in shown : s.cid \in Ids /\ s.rule \in AllRules /\ s.view \in Views
  /\ covered \subseteq stored \X AllRules

Skipped(r, v) == \E s \in r.skips : SkipApplies(s, v)
Agree(r, a, b) ==
  \A c \in Range(r.matches) :
    LET x == Norm[Value(a, Incoming(c))] IN x # Blank /\ x = Norm[Value(b, Existing(c))]

\* What the administrator means: neither is skipped, the times are close enough and
\* every match condition holds, one of the two taken as the incoming one.
Meant(r, a, b) ==
  /\ ~Skipped(r, a) /\ ~Skipped(r, b)
  /\ WithinWindow(r, a.ts, b.ts)
  /\ Agree(r, a, b) \/ Agree(r, b, a)

(* Whatever arrives next, an id the index offers for a rule is one that has *)
(* been indexed with fields that meet every condition of the rule: no      *)
(* concatenation of segments, no side left empty, no record moved by a     *)
(* merge or left from an older rule set brings strangers together.         *)
MatchesAreMeant ==
  \A o \in Objects : \A r \in Rules(active) : \A c \in Found(r, Own(o), home[o.pid]) :
    \E s \in shown : s.cid = c /\ s.rule = r /\ Meant(r, Own(o), s.view)

(* Two objects that belong together find each other in whichever order they *)
(* come: the first object of a new traveller is offered the profile of     *)
(* every indexed object it matches, whatever merges that profile has been  *)
(* through and whatever its search row has become.                         *)
FoundInEitherOrder ==
  \A o \in Objects \ stored : \A b \in covered :
    /\ home[o.pid] = NoId
    /\ b[2] \in Rules(active) /\ b[2].window = NoWindow
    /\ Meant(b[2], Own(o), Hydrated(b[1], row[home[b[1].pid]], b[1].ts))
    => home[b[1].pid] \in Found(b[2], Own(o), NoId)

(* The index offers no id that has been merged away: a new traveller is put *)
(* straight under the id it offers.                                        *)
IndexOffersProfiles == \A t \in index : \E p \in Pids : home[p] = t.cid
=============================================================================
