------------------------ MODULE DomainLifecycleProofs ------------------------
(***************************************************************************)
(* A domain is made and taken away as a whole, for any object types and    *)
(* business objects, any failures and any creations cut short, as long as  *)
(* one invocation follows the other.                                       *)
(***************************************************************************)
EXTENDS DomainLifecycle, FiniteSetTheorems, SequenceTheorems, TLAPS

----------------------------------------------------------------------------
(* Types *)

Jobs == [pc : Phases \cup {"idle", "configure"}, todo : Seq(Everything),
         tasks : SUBSET Tasks, err : BOOLEAN]

TypeInv ==
    /\ there \subseteq Everything /\ slips \subseteq Everything /\ made \in BOOLEAN
    /\ job \in [Workers -> Jobs]
    /\ \A w \in Workers : job[w].pc \in {"stage", "erase"} => job[w].todo # <<>>
    /\ used \in [creates : 0 .. MaxCreates, deletes : 0 .. MaxDeletes,
                 faults : 0 .. MaxFaults, deaths : 0 .. MaxDeaths]

----------------------------------------------------------------------------
(* What is there at each point of a creation or a deletion *)

\* The mapping that the rule of a new domain needs, and the parts in the store's hands.
M    == Mapping(LastType)
Left == there \cap StoreParts

\* A deletion that can list the mappings reaches every table of a type.
InReach == \A t \in ToSet(Types) :
    Table(t) \in there => Mapping(t) \in there \/ Table(t) \in slips \cup ToSet(Removal)

\* todo is what remains of the steps all after the first k of them, which made something
\* in had.
After(todo, all, k, had) ==
    /\ Len(todo) + k = Len(all)
    /\ \A i \in 1 .. Len(todo) : todo[i] = all[i + k]
    /\ \A i \in 1 .. k : all[i] \in had

\* What is left of M when a creation begins is a slip.
OldM == M \in there => M \in slips

Whole == Everything \ there \subseteq slips

StageOK(j) == OldM /\ \E k \in 0 .. Len(Stages) : After(j.todo, Stages, k, there)

\* The mappings are made in their order; after a failure in between M is not there, or is
\* a slip, and the rule will be refused.
MapsOK(j) ==
    /\ j.todo # <<>> => /\ \E k \in 0 .. Len(MappingSteps) : After(j.todo, MappingSteps, k, there)
                        /\ M \in ToSet(j.todo) => OldM
    /\ j.todo = <<>> => OldM \/ ToSet(MappingSteps) \subseteq there \cup slips

\* What the other goroutines have made is there, unless the creation is to fail.
TasksOK(j) ==
    /\ ToSet(Stages) \subseteq there
    /\ ~j.err => /\ \A p \in Tasks \ j.tasks : WithGroup(p) \subseteq there \cup slips
                 /\ Rules \notin j.tasks => j.todo = <<>> /\ M \in there

JobOK(j) ==
    /\ made => j.pc = "idle" /\ Config \in there /\ (M \notin slips => Whole)
    /\ j.pc \in {"idle", "configure", "clear"} => (Config \notin there => Left \subseteq slips)
    /\ j.pc = "configure" => Config \notin there
    /\ j.pc \in {"stage", "tasks", "undo"} => Config \in there
    /\ j.pc # "erase" => InReach
    /\ j.pc = "stage" => StageOK(j)
    /\ j.pc = "tasks" => MapsOK(j) /\ TasksOK(j)
    /\ j.pc = "undo"  => ToSet(j.todo) \subseteq ToSet(Deferred)
    /\ j.pc = "erase" => Left \subseteq slips \cup ToSet(j.todo)

IInv == TypeInv /\ \A w \in Workers : JobOK(job[w])
----------------------------------------------------------------------------
(* Sequences *)

\* What is in a sequence that is not empty: its head, and what is in its tail.
LEMMA HeadAndTail ==
    ASSUME NEW S, NEW s \in Seq(S), s # <<>>
    PROVE  /\ Head(s) \in S /\ Tail(s) \in Seq(S)
           /\ Len(s) \in Nat /\ Len(s) > 0 /\ Len(Tail(s)) = Len(s) - 1
           /\ Head(s) = s[1] /\ \A i \in 1 .. Len(s) - 1 : Tail(s)[i] = s[i + 1]
           /\ ToSet(s) = {Head(s)} \cup ToSet(Tail(s))
           /\ Tail(s) = <<>> <=> Len(s) <= 1
<1>1. /\ Head(s) \in S /\ Tail(s) \in Seq(S) /\ Len(s) \in Nat /\ Len(s) > 0
      /\ Len(Tail(s)) = Len(s) - 1 /\ Head(s) = s[1]
      /\ \A i \in 1 .. Len(s) - 1 : Tail(s)[i] = s[i + 1]
  BY EmptySeq, HeadTailProperties
<1>2. DOMAIN s = 1 .. Len(s) /\ DOMAIN Tail(s) = 1 .. Len(s) - 1
  BY <1>1, LenProperties
<1>3. ToSet(s) = {Head(s)} \cup ToSet(Tail(s))
  <2>1. \A i \in 1 .. Len(s) : i = 1 \/ i - 1 \in 1 .. Len(s) - 1
    BY <1>1
  <2>2. \A i \in 1 .. Len(s) : s[i] \in {Head(s)} \cup {Tail(s)[k] : k \in 1 .. Len(s) - 1}
    <3> SUFFICES ASSUME NEW i \in 1 .. Len(s), i # 1
                 PROVE  s[i] \in {Tail(s)[k] : k \in 1 .. Len(s) - 1}
      BY <1>1
    <3>1. i - 1 \in 1 .. Len(s) - 1 /\ Tail(s)[i - 1] = s[(i - 1) + 1] /\ (i - 1) + 1 = i
      BY <1>1, <2>1
    <3> QED  BY <3>1
  <2>3. \A k \in 1 .. Len(s) - 1 : k + 1 \in 1 .. Len(s) /\ Tail(s)[k] = s[k + 1]
    BY <1>1
  <2>4. 1 \in 1 .. Len(s)
    BY <1>1
  <2>5. ToSet(s) = {s[i] : i \in 1 .. Len(s)}
        /\ ToSet(Tail(s)) = {Tail(s)[k] : k \in 1 .. Len(s) - 1}
    BY <1>2 DEF ToSet
  <2> QED  BY <1>1, <2>2, <2>3, <2>4, <2>5
<1>4. Tail(s) = <<>> <=> Len(s) <= 1
  <2>1. Tail(s) = <<>> <=> Len(Tail(s)) = 0
    BY <1>1, EmptySeq
  <2> QED  BY <1>1, <2>1
<1> QED  BY <1>1, <1>3, <1>4

\* What is in two sequences that are joined.
LEMMA JoinedSet ==
    ASSUME NEW S, NEW s \in Seq(S), NEW t \in Seq(S)
    PROVE  s \o t \in Seq(S) /\ ToSet(s \o t) = ToSet(s) \cup ToSet(t)
<1>1. /\ s \o t \in Seq(S) /\ Len(s) \in Nat /\ Len(t) \in Nat
      /\ DOMAIN s = 1 .. Len(s) /\ DOMAIN t = 1 .. Len(t)
      /\ DOMAIN (s \o t) = 1 .. Len(s) + Len(t)
  BY ConcatProperties, LenProperties
<1>2. \A i \in 1 .. Len(s) : (s \o t)[i] = s[i] /\ i \in 1 .. Len(s) + Len(t)
  BY <1>1, ConcatProperties
<1>3. \A i \in 1 .. Len(t) : (s \o t)[i + Len(s)] = t[i] /\ i + Len(s) \in 1 .. Len(s) + Len(t)
  <2> SUFFICES ASSUME NEW i \in 1 .. Len(t)
               PROVE  (s \o t)[i + Len(s)] = t[i] /\ i + Len(s) \in 1 .. Len(s) + Len(t)
    OBVIOUS
  <2>1. i + Len(s) \in 1 .. Len(s) + Len(t) /\ i + Len(s) > Len(s) /\ i + Len(s) - Len(s) = i
    BY <1>1
  <2>2. (s \o t)[i + Len(s)] = t[i + Len(s) - Len(s)]
    BY <1>1, <2>1, ConcatProperties
  <2> QED  BY <2>1, <2>2
<1>4. \A i \in 1 .. Len(s) + Len(t) : i \in 1 .. Len(s) \/ i - Len(s) \in 1 .. Len(t)
  BY <1>1
<1>5. \A i \in 1 .. Len(s) + Len(t) : (i - Len(s)) + Len(s) = i
  BY <1>1
<1>6. /\ ToSet(s) = {s[i] : i \in 1 .. Len(s)} /\ ToSet(t) = {t[i] : i \in 1 .. Len(t)}
      /\ ToSet(s \o t) = {(s \o t)[i] : i \in 1 .. Len(s) + Len(t)}
  BY <1>1 DEF ToSet
<1>7. \A i \in 1 .. Len(s) + Len(t) : (s \o t)[i] \in ToSet(s) \cup ToSet(t)
  <2> SUFFICES ASSUME NEW i \in 1 .. Len(s) + Len(t)
               PROVE  (s \o t)[i] \in ToSet(s) \cup ToSet(t)
    OBVIOUS
  <2>1. CASE i \in 1 .. Len(s)
    BY <1>2, <1>6, <2>1
  <2>2. CASE i - Len(s) \in 1 .. Len(t)
    BY <1>3, <1>5, <1>6, <2>2
  <2> QED  BY <1>4, <2>1, <2>2
<1>8. \A x \in ToSet(s) \cup ToSet(t) : x \in ToSet(s \o t)
  BY <1>2, <1>3, <1>6
<1> QED  BY <1>1, <1>6, <1>7, <1>8

\* One more step is done.
LEMMA OneStepOn ==
    ASSUME NEW S, NEW todo \in Seq(S), todo # <<>>, NEW all, NEW had,
           Len(all) \in Nat, NEW k \in 0 .. Len(all), After(todo, all, k, had)
    PROVE  /\ k + 1 \in 1 .. Len(all) /\ k + 1 \in 0 .. Len(all) /\ Head(todo) = all[k + 1]
           /\ \A more : had \subseteq more /\ Head(todo) \in more
                       => After(Tail(todo), all, k + 1, more)
           /\ \A i \in 1 .. k : all[i] \in had
<1>1. /\ Len(todo) \in Nat /\ Len(todo) > 0 /\ Len(Tail(todo)) = Len(todo) - 1
      /\ Head(todo) = todo[1] /\ \A i \in 1 .. Len(todo) - 1 : Tail(todo)[i] = todo[i + 1]
  BY HeadAndTail
<1>2. /\ Len(todo) + k = Len(all) /\ \A i \in 1 .. Len(todo) : todo[i] = all[i + k]
      /\ \A i \in 1 .. k : all[i] \in had
  BY DEF After
<1>3. k + 1 \in 1 .. Len(all) /\ 1 \in 1 .. Len(todo) /\ Head(todo) = all[k + 1]
  BY <1>1, <1>2
<1>4. ASSUME NEW more, had \subseteq more, Head(todo) \in more
      PROVE  After(Tail(todo), all, k + 1, more)
  <2>1. Len(Tail(todo)) + (k + 1) = Len(all)
    BY <1>1, <1>2
  <2>2. ASSUME NEW i \in 1 .. Len(Tail(todo))  PROVE Tail(todo)[i] = all[i + (k + 1)]
    <3>1. i \in 1 .. Len(todo) - 1 /\ i + 1 \in 1 .. Len(todo) /\ (i + 1) + k = i + (k + 1)
      BY <1>1, <1>2
    <3> QED  BY <1>1, <1>2, <3>1
  <2>3. ASSUME NEW i \in 1 .. k + 1  PROVE all[i] \in more
    <3>1. i \in 1 .. k \/ i = k + 1
      OBVIOUS
    <3> QED  BY <1>2, <1>3, <1>4, <3>1
  <2> QED  BY <2>1, <2>2, <2>3 DEF After
<1>5. k + 1 \in 0 .. Len(all)
  BY <1>3
<1> QED  BY <1>2, <1>3, <1>4, <1>5
----------------------------------------------------------------------------
(* Parts and their order *)

\* The types are some, each once.
LEMMA TypesFacts ==
    /\ Types \in Seq(STRING) /\ Len(Types) \in Nat /\ Len(Types) > 0
    /\ DOMAIN Types = 1 .. Len(Types)
    /\ ToSet(Types) = {Types[i] : i \in 1 .. Len(Types)}
    /\ LastType \in ToSet(Types)
<1>1. Types \in Seq(STRING) /\ Types # <<>>
  BY DomainBounds
<1>2. Len(Types) \in Nat /\ Len(Types) > 0 /\ DOMAIN Types = 1 .. Len(Types)
  BY <1>1, EmptySeq, LenProperties
<1>3. ToSet(Types) = {Types[i] : i \in 1 .. Len(Types)}
  BY <1>2 DEF ToSet
<1> QED  BY <1>1, <1>2, <1>3 DEF LastType

\* Parts of different kinds are different.
LEMMA KindsDiffer ==
    /\ \A t, u : Table(t) # Mapping(u) /\ (Table(t) = Table(u) => t = u)
                 /\ (Mapping(t) = Mapping(u) => t = u)
    /\ \A t : Config # Table(t) /\ Config # Mapping(t) /\ Rules # Table(t) /\ Rules # Mapping(t)
    /\ \A b, t : Glue(b) # Table(t) /\ Glue(b) # Mapping(t)
    /\ \A b : Glue(b) # Config /\ Glue(b) # Rules /\ Glue(b) # AppRoles
    /\ Config # Rules
    /\ \A p \in {Admins, AppRoles, Export, Settings} :
         p # Config /\ p # Rules /\ \A t : p # Table(t) /\ p # Mapping(t)
    /\ AppRoles # Admins /\ AppRoles # Export /\ AppRoles # Settings /\ AppRoles # Rules
  BY DEF Table, Mapping, Glue, Config, Rules, Admins, AppRoles, Export, Settings

\* What a sequence of types is turned into, step by step.
LEMMA PairsFacts ==
    ASSUME NEW S, NEW ts \in Seq(S)
    PROVE  /\ Len(Pairs(ts)) = 2 * Len(ts) /\ DOMAIN Pairs(ts) = 1 .. 2 * Len(ts)
           /\ Len(ts) \in Nat
           /\ \A i \in 1 .. Len(ts) : /\ Pairs(ts)[2 * i - 1] = Mapping(ts[i])
                                      /\ Pairs(ts)[2 * i] = Table(ts[i])
           /\ \A i \in 1 .. 2 * Len(ts) : \E k \in 1 .. Len(ts) :
                \/ i = 2 * k - 1 /\ Pairs(ts)[i] = Mapping(ts[k])
                \/ i = 2 * k /\ Pairs(ts)[i] = Table(ts[k])
           /\ ToSet(Pairs(ts)) = {Mapping(t) : t \in ToSet(ts)} \cup {Table(t) : t \in ToSet(ts)}
           /\ \A T : ToSet(Pairs(ts)) \subseteq T => Pairs(ts) \in Seq(T)
<1> DEFINE n == Len(ts)
<1>1. n \in Nat /\ DOMAIN ts = 1 .. n /\ 2 * n \in Nat
  BY LenProperties
<1>2. DOMAIN Pairs(ts) = 1 .. 2 * n /\ Len(Pairs(ts)) = 2 * n
  BY <1>1 DEF Pairs
<1>3. \A i \in 1 .. 2 * n : Pairs(ts)[i] =
         IF i % 2 = 1 THEN Mapping(ts[(i + 1) \div 2]) ELSE Table(ts[i \div 2])
  BY DEF Pairs
<1>4. ASSUME NEW i \in 1 .. n
      PROVE  Pairs(ts)[2 * i - 1] = Mapping(ts[i]) /\ Pairs(ts)[2 * i] = Table(ts[i])
  <2>1. 2 * i - 1 \in 1 .. 2 * n /\ (2 * i - 1) % 2 = 1 /\ ((2 * i - 1) + 1) \div 2 = i
    BY <1>1
  <2>2. 2 * i \in 1 .. 2 * n /\ (2 * i) % 2 = 0 /\ (2 * i) \div 2 = i
    BY <1>1
  <2> QED  BY <1>3, <2>1, <2>2
<1>5. ASSUME NEW i \in 1 .. 2 * n
      PROVE  \E k \in 1 .. n : \/ i = 2 * k - 1 /\ Pairs(ts)[i] = Mapping(ts[k])
                               \/ i = 2 * k /\ Pairs(ts)[i] = Table(ts[k])
  <2>1. CASE i % 2 = 1
    <3>1. (i + 1) \div 2 \in 1 .. n /\ i = 2 * ((i + 1) \div 2) - 1
      BY <1>1, <2>1
    <3> QED  BY <1>3, <2>1, <3>1
  <2>2. CASE i % 2 # 1
    <3>1. i \div 2 \in 1 .. n /\ i = 2 * (i \div 2)
      BY <1>1, <2>2
    <3> QED  BY <1>3, <2>2, <3>1
  <2> QED  BY <2>1, <2>2
<1> HIDE DEF n
<1>6. ToSet(ts) = {ts[i] : i \in 1 .. n} /\ ToSet(Pairs(ts)) = {Pairs(ts)[i] : i \in 1 .. 2 * n}
  BY <1>1, <1>2 DEF ToSet
<1>7. ToSet(Pairs(ts)) = {Mapping(t) : t \in ToSet(ts)} \cup {Table(t) : t \in ToSet(ts)}
  <2>1. ASSUME NEW x \in ToSet(Pairs(ts))
        PROVE  \E t \in ToSet(ts) : x = Mapping(t) \/ x = Table(t)
    BY <1>5, <1>6
  <2>2. ASSUME NEW t \in ToSet(ts)
        PROVE  Mapping(t) \in ToSet(Pairs(ts)) /\ Table(t) \in ToSet(Pairs(ts))
    <3>1. PICK i \in 1 .. n : t = ts[i]
      BY <1>6
    <3>2. 2 * i - 1 \in 1 .. 2 * n /\ 2 * i \in 1 .. 2 * n
      BY <1>1
    <3> QED  BY <1>4, <1>6, <3>1, <3>2
  <2> QED  BY <2>1, <2>2
<1>8. \A T : ToSet(Pairs(ts)) \subseteq T => Pairs(ts) \in Seq(T)
  <2> SUFFICES ASSUME NEW T, ToSet(Pairs(ts)) \subseteq T  PROVE Pairs(ts) \in Seq(T)
    OBVIOUS
  <2>1. \A i \in 1 .. 2 * n : Pairs(ts)[i] \in T
    BY <1>6
  <2>2. Pairs(ts) = [i \in 1 .. 2 * n |-> Pairs(ts)[i]]
    BY <1>2 DEF Pairs, n
  <2>3. Pairs(ts) \in [1 .. 2 * n -> T]
    BY <2>1, <2>2
  <2> QED  BY <1>1, <2>3, SeqDef
<1> QED  BY <1>1, <1>2, <1>4, <1>5, <1>7, <1>8 DEF n

\* The mappings and tables of the types, the mapping M among them once, each table behind
\* its mapping.
LEMMA StepsFacts ==
    /\ MappingSteps \in Seq(Everything) /\ MappingSteps # <<>>
    /\ DOMAIN MappingSteps = 1 .. Len(MappingSteps) /\ Len(MappingSteps) \in Nat
    /\ Len(MappingSteps) > 1
    /\ \A i \in 1 .. Len(MappingSteps) : MappingSteps[i] = M <=> i = Len(MappingSteps) - 1
    /\ \A i \in 1 .. Len(MappingSteps) : \A t : MappingSteps[i] = Table(t) =>
         i > 1 /\ MappingSteps[i - 1] = Mapping(t)
    /\ ToSet(MappingSteps) = {Mapping(t) : t \in ToSet(Types)} \cup {Table(t) : t \in ToSet(Types)}
    /\ ToSet(MappingSteps) = {MappingSteps[i] : i \in 1 .. Len(MappingSteps)}
<1> DEFINE n == Len(Types)
<1>1. /\ Len(MappingSteps) = 2 * n /\ DOMAIN MappingSteps = 1 .. 2 * n
      /\ \A i \in 1 .. n : /\ MappingSteps[2 * i - 1] = Mapping(Types[i])
                           /\ MappingSteps[2 * i] = Table(Types[i])
      /\ \A i \in 1 .. 2 * n : \E k \in 1 .. n :
           \/ i = 2 * k - 1 /\ MappingSteps[i] = Mapping(Types[k])
           \/ i = 2 * k /\ MappingSteps[i] = Table(Types[k])
      /\ ToSet(MappingSteps)
           = {Mapping(t) : t \in ToSet(Types)} \cup {Table(t) : t \in ToSet(Types)}
      /\ \A T : ToSet(MappingSteps) \subseteq T => MappingSteps \in Seq(T)
  BY PairsFacts, TypesFacts DEF MappingSteps
<1>2. n \in Nat /\ n > 0 /\ 2 * n \in Nat /\ 2 * n > 1 /\ M = Mapping(Types[n])
      /\ \A i, k \in 1 .. n : Types[i] = Types[k] => i = k
  BY TypesFacts, DomainBounds DEF M, LastType
<1> HIDE DEF n
<1>3. ASSUME NEW i \in 1 .. 2 * n  PROVE MappingSteps[i] = M <=> i = 2 * n - 1
  <2>1. PICK k \in 1 .. n : \/ i = 2 * k - 1 /\ MappingSteps[i] = Mapping(Types[k])
                            \/ i = 2 * k /\ MappingSteps[i] = Table(Types[k])
    BY <1>1
  <2>2. CASE i = 2 * k - 1 /\ MappingSteps[i] = Mapping(Types[k])
    <3>1. MappingSteps[i] = M <=> k = n
      BY <1>2, <2>2, KindsDiffer
    <3> QED  BY <1>2, <2>2, <3>1
  <2>3. CASE i = 2 * k /\ MappingSteps[i] = Table(Types[k])
    <3>1. MappingSteps[i] # M
      BY <1>2, <2>3, KindsDiffer
    <3> QED  BY <1>2, <2>3, <3>1
  <2> QED  BY <2>1, <2>2, <2>3
<1>4. ASSUME NEW i \in 1 .. 2 * n, NEW t, MappingSteps[i] = Table(t)
      PROVE  i > 1 /\ MappingSteps[i - 1] = Mapping(t)
  <2>1. PICK k \in 1 .. n : \/ i = 2 * k - 1 /\ MappingSteps[i] = Mapping(Types[k])
                            \/ i = 2 * k /\ MappingSteps[i] = Table(Types[k])
    BY <1>1
  <2>2. i = 2 * k /\ t = Types[k]
    BY <1>4, <2>1, KindsDiffer
  <2>3. i > 1 /\ i - 1 = 2 * k - 1
    BY <1>2, <2>2
  <2> QED  BY <1>1, <2>2, <2>3
<1>5. MappingSteps \in Seq(Everything)
  BY <1>1 DEF Everything
<1>6. MappingSteps # <<>>
  BY <1>1, <1>2, <1>5, EmptySeq
<1>7. ToSet(MappingSteps) = {MappingSteps[i] : i \in 1 .. 2 * n}
  BY <1>1 DEF ToSet
<1> QED  BY <1>1, <1>2, <1>3, <1>4, <1>5, <1>6, <1>7 DEF n

\* Every stage of a creation is taken back by a deletion, with record and rule sets.
LEMMA StagesFacts ==
    /\ Stages \in Seq(Everything) /\ Stages # <<>> /\ Len(Stages) = 6
    /\ \A i \in 1 .. 6 : \E t : Stages[i] = Table(t) /\ Table(t) \in ToSet(Removal)
    /\ ToSet(Stages) = {Stages[i] : i \in 1 .. 6}
    /\ Removal \in Seq(Everything) /\ Removal # <<>> /\ Len(Removal) = 8
    /\ Config \in ToSet(Removal) /\ Rules \in ToSet(Removal)
    /\ ToSet(Stages) \subseteq ToSet(Removal)
<1>1. /\ DOMAIN Stages = 1 .. 6 /\ DOMAIN Removal = 1 .. 8
      /\ Len(Stages) = 6 /\ Len(Removal) = 8
  BY DEF Stages, Removal
<1>2. /\ Stages[1] = Table("cache") /\ Stages[2] = Table("master") /\ Stages[3] = Table("search")
      /\ Stages[4] = Table("count") /\ Stages[5] = Table("history") /\ Stages[6] = Table("index")
  BY DEF Stages
<1>3. /\ Removal[1] = Table("cache") /\ Removal[2] = Table("count")
      /\ Removal[3] = Table("history") /\ Removal[4] = Table("master")
      /\ Removal[5] = Table("search") /\ Removal[6] = Rules /\ Removal[7] = Config
      /\ Removal[8] = Table("index")
  BY DEF Removal
<1>4. ToSet(Stages) = {Stages[i] : i \in 1 .. 6} /\ ToSet(Removal) = {Removal[i] : i \in 1 .. 8}
  BY <1>1 DEF ToSet
<1>5. /\ Config \in ToSet(Removal) /\ Rules \in ToSet(Removal)
      /\ \A t \in {"cache", "master", "search", "count", "history", "index"} :
           Table(t) \in ToSet(Removal) /\ Table(t) \in ToSet(Stages)
  BY <1>2, <1>3, <1>4
<1>6. \A i \in 1 .. 6 : \E t : Stages[i] = Table(t) /\ Table(t) \in ToSet(Removal)
  BY <1>2, <1>5
<1>7. \A x \in ToSet(Stages) \cup ToSet(Removal) : x \in Everything
  <2>1. Config \in Everything /\ Rules \in Everything /\ ToSet(Stages) \subseteq Everything
    BY DEF Everything, Tasks
  <2>2. \A i \in 1 .. 8 : Removal[i] \in Everything
    BY <1>3, <1>5, <2>1
  <2> QED  BY <1>4, <2>1, <2>2
<1>8. Stages = [i \in 1 .. 6 |-> Stages[i]] /\ Removal = [i \in 1 .. 8 |-> Removal[i]]
  BY DEF Stages, Removal
<1>9. Stages \in [1 .. 6 -> Everything] /\ Removal \in [1 .. 8 -> Everything]
  BY <1>4, <1>7, <1>8
<1>10. Stages \in Seq(Everything) /\ Removal \in Seq(Everything)
  <2>1. 6 \in Nat /\ 8 \in Nat
    OBVIOUS
  <2>2. \A k \in Nat : \A f : f \in [1 .. k -> Everything] => f \in Seq(Everything)
    BY SeqDef
  <2> QED  BY <1>9, <2>1, <2>2, Zenon
<1>11. Stages # <<>> /\ Removal # <<>>
  <2>1. Len(<<>>) = 0
    OBVIOUS
  <2> QED  BY <1>1, <2>1
<1> QED  BY <1>1, <1>4, <1>5, <1>6, <1>10, <1>11

\* The parts around the store, and what its steps do not touch.
LEMMA AroundFacts ==
    /\ ToSet(Deferred) \subseteq Around /\ Around \subseteq Tasks /\ Tasks \subseteq Everything
    /\ Deferred \in Seq(Everything)
    /\ \A p \in Tasks : /\ p \in WithGroup(p) /\ WithGroup(p) \subseteq Everything
                        /\ \A t : Table(t) \notin WithGroup(p) /\ Mapping(t) \notin WithGroup(p)
                        /\ Config \notin WithGroup(p)
    /\ \A p \in Around : WithGroup(p) \cap StoreParts = {}
    /\ Rules \in Tasks /\ AppRoles \in Tasks /\ WithGroup(AppRoles) = {Admins, AppRoles}
    /\ StoreParts \subseteq Everything
    /\ StoreParts = {Config, Rules} \cup ToSet(Stages) \cup ToSet(MappingSteps)
    /\ Everything = {Config, Admins} \cup ToSet(Stages) \cup ToSet(MappingSteps) \cup Tasks
<1> DEFINE n == Len(Businesses)
<1>1. n \in Nat /\ DOMAIN Businesses = 1 .. n
  BY DomainBounds, LenProperties DEF n
<1> HIDE DEF n
<1>2. /\ DOMAIN GlueTables = 1 .. n /\ Len(GlueTables) = n
      /\ \A i \in 1 .. n : GlueTables[i] = Glue(Businesses[i])
  BY <1>1 DEF GlueTables
<1>3. ToSet(GlueTables) = {GlueTables[i] : i \in 1 .. n}
  BY <1>2 DEF ToSet
<1>4. \A x \in ToSet(GlueTables) : \E b : x = Glue(b)
  BY <1>2, <1>3
<1>5. Tasks \subseteq Everything /\ Around \subseteq Tasks /\ Rules \in Tasks
      /\ AppRoles \in Tasks /\ WithGroup(AppRoles) = {Admins, AppRoles}
  BY DEF Everything, Around, Tasks, WithGroup
<1>6. ASSUME NEW p \in Tasks
      PROVE  /\ p \in WithGroup(p) /\ WithGroup(p) \subseteq Everything
             /\ \A t : Table(t) \notin WithGroup(p) /\ Mapping(t) \notin WithGroup(p)
             /\ Config \notin WithGroup(p)
  <2>1. p \in WithGroup(p) /\ WithGroup(p) \subseteq {p, Admins}
    BY DEF WithGroup
  <2>2. Admins \in Everything /\ p \in Everything
    BY <1>5 DEF Everything
  <2>3. \A t : p # Table(t) /\ p # Mapping(t) /\ p # Config
    BY <1>4, KindsDiffer DEF Tasks
  <2>4. \A t : Admins # Table(t) /\ Admins # Mapping(t) /\ Admins # Config
    BY KindsDiffer
  <2> QED  BY <2>1, <2>2, <2>3, <2>4
<1>7. /\ StoreParts = {Config, Rules} \cup ToSet(Stages) \cup ToSet(MappingSteps)
      /\ Everything = {Config, Admins} \cup ToSet(Stages) \cup ToSet(MappingSteps) \cup Tasks
      /\ StoreParts \subseteq Everything
  BY <1>5 DEF StoreParts, Everything
<1>8. ASSUME NEW p \in Around  PROVE WithGroup(p) \cap StoreParts = {}
  <2>1. p \in Tasks /\ p # Rules
    BY <1>4, <1>5, KindsDiffer DEF Around
  <2>2. Rules \notin WithGroup(p)
    BY <2>1, KindsDiffer DEF WithGroup
  <2>3. \A x \in ToSet(Stages) : \E t : x = Table(t)
    BY StagesFacts
  <2>4. \A x \in ToSet(MappingSteps) : \E t : x = Table(t) \/ x = Mapping(t)
    BY StepsFacts
  <2> QED  BY <1>6, <1>7, <2>1, <2>2, <2>3, <2>4
<1>9. Deferred \in Seq(Around)
  <2>1. Export \in Around /\ AppRoles \in Around
    BY DEF Around
  <2>2. \A i \in 1 .. n : GlueTables[n - i + 1] \in Around
    <3> SUFFICES ASSUME NEW i \in 1 .. n  PROVE GlueTables[n - i + 1] \in Around
      OBVIOUS
    <3>1. n - i + 1 \in 1 .. n
      BY <1>1
    <3> QED  BY <1>3, <3>1 DEF Around
  <2>3. Reverse(GlueTables) = [i \in 1 .. n |-> GlueTables[n - i + 1]]
    BY <1>2 DEF Reverse
  <2>4. Reverse(GlueTables) \in [1 .. n -> Around]
    BY <2>2, <2>3
  <2>5. Reverse(GlueTables) \in Seq(Around)
    BY <1>1, <2>4, SeqDef
  <2>6. <<Export, AppRoles>> \in Seq(Around)
    BY <2>1
  <2> QED  BY <2>5, <2>6, ConcatProperties DEF Deferred
<1>10. ToSet(Deferred) \subseteq Around
  <2>1. DOMAIN Deferred = 1 .. Len(Deferred) /\ \A i \in 1 .. Len(Deferred) : Deferred[i] \in Around
    BY <1>9, ElementOfSeq, LenProperties
  <2> QED  BY <2>1 DEF ToSet
<1>11. Deferred \in Seq(Everything)
  BY <1>5, <1>9
<1> QED  BY <1>5, <1>6, <1>7, <1>8, <1>10, <1>11

\* The plan of a deletion has the listed mappings with their tables, and the rest.
LEMMA PlanFacts ==
    ASSUME NEW S \in SUBSET ToSet(Types), NEW ts \in Orders(S)
    PROVE  /\ Plan(ts) \in Seq(Everything) /\ Plan(ts) # <<>>
           /\ ToSet(Removal) \subseteq ToSet(Plan(ts))
           /\ \A t \in S : Mapping(t) \in ToSet(Plan(ts)) /\ Table(t) \in ToSet(Plan(ts))
<1>1. IsFiniteSet(S) /\ Cardinality(S) \in Nat
  <2>1. IsFiniteSet(1 .. Len(Types))
    BY TypesFacts, FS_Interval
  <2>2. Types \in Surjection(1 .. Len(Types), ToSet(Types))
    <3>1. Types \in [1 .. Len(Types) -> ToSet(Types)]
      BY TypesFacts
    <3>2. \A t \in ToSet(Types) : \E i \in 1 .. Len(Types) : Types[i] = t
      BY TypesFacts
    <3> QED  BY <3>1, <3>2 DEF Surjection
  <2>3. IsFiniteSet(ToSet(Types))
    BY <2>1, <2>2, FS_Surjection
  <2>4. IsFiniteSet(S)
    BY <2>3, FS_Subset
  <2> QED  BY <2>4, FS_CardinalityType
<1>2. ts \in [1 .. Cardinality(S) -> S] /\ ToSet(ts) = S
  BY DEF Orders
<1>3. ts \in Seq(S)
  BY <1>1, <1>2, SeqDef
<1>4. ToSet(Pairs(ts)) = {Mapping(t) : t \in S} \cup {Table(t) : t \in S}
      /\ \A T : ToSet(Pairs(ts)) \subseteq T => Pairs(ts) \in Seq(T)
  BY <1>2, <1>3, PairsFacts
<1>5. ToSet(Pairs(ts)) \subseteq Everything
  BY <1>4, StepsFacts, AroundFacts
<1>6. Pairs(ts) \in Seq(Everything) /\ Removal \in Seq(Everything) /\ Len(Removal) = 8
  BY <1>4, <1>5, StagesFacts
<1>7. ToSet(Plan(ts)) = ToSet(Pairs(ts)) \cup ToSet(Removal) /\ Plan(ts) \in Seq(Everything)
  BY <1>6, JoinedSet DEF Plan
<1>8. Plan(ts) # <<>>
  <2>1. Config \in ToSet(Plan(ts))
    BY <1>7, StagesFacts
  <2> QED  BY <2>1 DEF ToSet
<1> QED  BY <1>4, <1>7, <1>8

----------------------------------------------------------------------------
(* Steps and types *)

\* A worker gets another job.
LEMMA OneJob ==
    ASSUME job \in [Workers -> Jobs], NEW w \in Workers, NEW x,
           job' = [job EXCEPT ![w] = x]
    PROVE  /\ job'[w] = x
           /\ x \in Jobs => job' \in [Workers -> Jobs]
           /\ \A v \in Workers : v # w => job'[v] = job[v]
  OBVIOUS

\* What is known of the job of a worker, and of no job.
LEMMA JobFacts ==
    ASSUME TypeInv, NEW w \in Workers
    PROVE  /\ job[w].pc \in Phases \cup {"idle", "configure"}
           /\ job[w].todo \in Seq(Everything) /\ job[w].tasks \subseteq Tasks
           /\ job[w].err \in BOOLEAN /\ job[w] \in Jobs
           /\ Idle \in Jobs /\ Idle.pc = "idle" /\ Idle.todo = <<>> /\ Idle.tasks = {}
  BY DEF TypeInv, Jobs, Idle

\* A count that is spent stays within its bound.
LEMMA Spending ==
    ASSUME TypeInv,
           \/ used' = used
           \/ Spend("creates", MaxCreates) \/ Spend("deletes", MaxDeletes)
           \/ Spend("faults", MaxFaults) \/ Spend("deaths", MaxDeaths)
    PROVE  used' \in [creates : 0 .. MaxCreates, deletes : 0 .. MaxDeletes,
                      faults : 0 .. MaxFaults, deaths : 0 .. MaxDeaths]
<1>1. /\ MaxCreates \in Nat /\ MaxDeletes \in Nat /\ MaxFaults \in Nat /\ MaxDeaths \in Nat
      /\ used \in [creates : 0 .. MaxCreates, deletes : 0 .. MaxDeletes,
                   faults : 0 .. MaxFaults, deaths : 0 .. MaxDeaths]
  BY DomainBounds DEF TypeInv
<1>2. CASE used' = used
  BY <1>1, <1>2
<1>3. CASE Spend("creates", MaxCreates)
  BY <1>1, <1>3 DEF Spend
<1>4. CASE Spend("deletes", MaxDeletes)
  BY <1>1, <1>4 DEF Spend
<1>5. CASE Spend("faults", MaxFaults)
  BY <1>1, <1>5 DEF Spend
<1>6. CASE Spend("deaths", MaxDeaths)
  BY <1>1, <1>6 DEF Spend
<1> QED  BY <1>2, <1>3, <1>4, <1>5, <1>6

\* A deletion of the store, of a domain that has a record: what it removes is what there is,
\* as far as the mappings that are listed tell.
LEMMA ErasingFacts ==
    ASSUME NEW S \in SUBSET ToSet(Types), NEW x \in Erasing(S)
    PROVE  /\ x \in Jobs /\ (x.pc = "erase" => x.todo # <<>>)
           /\ Config \notin there => x = Idle
           /\ Config \in there => /\ x.pc = "erase" /\ ToSet(Removal) \subseteq ToSet(x.todo)
                                  /\ \A t \in S : Mapping(t) \in ToSet(x.todo)
                                                  /\ Table(t) \in ToSet(x.todo)
<1>1. Idle \in Jobs /\ Idle.pc # "erase"
  BY DEF Idle, Jobs
<1>2. CASE Config \in there
  <2>1. PICK ts \in Orders(S) : x = [Idle EXCEPT !.pc = "erase", !.todo = Plan(ts)]
    BY <1>2 DEF Erasing
  <2>2. x.pc = "erase" /\ x.todo = Plan(ts)
    BY <2>1 DEF Idle
  <2>3. /\ Plan(ts) \in Seq(Everything) /\ Plan(ts) # <<>>
        /\ ToSet(Removal) \subseteq ToSet(Plan(ts))
        /\ \A t \in S : Mapping(t) \in ToSet(Plan(ts)) /\ Table(t) \in ToSet(Plan(ts))
    BY PlanFacts
  <2>4. x \in Jobs
    BY <2>1, <2>3 DEF Idle, Jobs, Phases
  <2> QED  BY <1>2, <2>2, <2>3, <2>4
<1>3. CASE Config \notin there
  BY <1>1, <1>3 DEF Erasing
<1> QED  BY <1>2, <1>3

\* Every step is of the types.
LEMMA TypeStep ==
    ASSUME TypeInv, [Next]_vars  PROVE TypeInv'
<1>1. CASE UNCHANGED vars
  BY <1>1 DEF TypeInv, vars
<1>2. CASE Next
  <2>1. PICK w \in Workers :
          \/ Create(w) \/ SaveConfig(w) \/ SaveConfigFails(w) \/ Stage(w) \/ StageFails(w)
          \/ Map(w) \/ MapFails(w) \/ AdminsFail(w) \/ RuleIsRefused(w)
          \/ \E p \in Tasks : Task(w, p) \/ TaskFails(w, p)
          \/ Settle(w) \/ Undo(w) \/ UndoFails(w) \/ UndoDomain(w)
          \/ Delete(w) \/ \E p \in Around : Clear(w, p) \/ ClearFails(w, p)
          \/ StartErasing(w) \/ ListFails(w) \/ Erase(w) \/ EraseFails(w)
          \/ Die(w)
    BY <1>2 DEF Next
  <2> DEFINE j == job[w]
  <2>2. /\ j.pc \in Phases \cup {"idle", "configure"}
        /\ j.todo \in Seq(Everything) /\ j.tasks \subseteq Tasks
        /\ j.err \in BOOLEAN /\ j \in Jobs /\ Idle \in Jobs
        /\ Idle.pc = "idle" /\ Idle.todo = <<>> /\ Idle.tasks = {}
        /\ (j.pc \in {"stage", "erase"} => j.todo # <<>>)
    BY JobFacts DEF TypeInv
  <2>3. ASSUME there' \subseteq Everything, slips' \subseteq Everything, made' \in BOOLEAN,
               \/ used' = used
               \/ Spend("creates", MaxCreates) \/ Spend("deletes", MaxDeletes)
               \/ Spend("faults", MaxFaults) \/ Spend("deaths", MaxDeaths),
               NEW x \in Jobs, job' = [job EXCEPT ![w] = x],
               x.pc \in {"stage", "erase"} => x.todo # <<>>
        PROVE  TypeInv'
    <3>1. /\ job'[w] = x /\ job' \in [Workers -> Jobs]
          /\ \A v \in Workers : v # w => job'[v] = job[v]
      BY <2>3, OneJob DEF TypeInv
    <3>2. \A v \in Workers : job'[v].pc \in {"stage", "erase"} => job'[v].todo # <<>>
      BY <2>3, <3>1 DEF TypeInv
    <3> QED  BY <2>3, <3>1, <3>2, Spending DEF TypeInv
  <2>4. there \subseteq Everything /\ slips \subseteq Everything /\ made \in BOOLEAN
    BY DEF TypeInv
  <2>5. j.todo # <<>> => /\ Head(j.todo) \in Everything /\ Tail(j.todo) \in Seq(Everything)
                         /\ (Len(j.todo) > 1 => Tail(j.todo) # <<>>)
    BY <2>2, HeadAndTail
  <2>6. \A S \in SUBSET ToSet(Types) : \A x \in Erasing(S) :
          x \in Jobs /\ (x.pc = "erase" => x.todo # <<>>) /\ x.pc # "stage"
    <3> SUFFICES ASSUME NEW S \in SUBSET ToSet(Types), NEW x \in Erasing(S)
                 PROVE  x \in Jobs /\ (x.pc = "erase" => x.todo # <<>>) /\ x.pc # "stage"
      OBVIOUS
    <3> QED  BY <2>2, ErasingFacts
  <2>7. Listed \subseteq ToSet(Types) /\ {} \subseteq ToSet(Types)
    BY DEF Listed
  <2>8. CASE Create(w)
    <3>1. [Idle EXCEPT !.pc = "configure"] \in Jobs /\ [Idle EXCEPT !.pc = "configure"].pc = "configure"
      BY <2>2 DEF Jobs, Idle
    <3> QED  BY <2>3, <2>4, <2>8, <3>1 DEF Create
  <2>9. CASE SaveConfig(w)
    <3> DEFINE x == [j EXCEPT !.pc = "stage", !.todo = Stages]
    <3>1. x \in Jobs /\ x.todo # <<>>
      BY <2>2, StagesFacts DEF Jobs, Phases
    <3>2. job' = [job EXCEPT ![w] = x]
      BY <2>9 DEF SaveConfig
    <3>3. Config \in Everything
      BY DEF Everything
    <3> HIDE DEF x
    <3> QED  BY <2>3, <2>4, <2>9, <3>1, <3>2, <3>3 DEF SaveConfig, Make
  <2>10. CASE SaveConfigFails(w) \/ Die(w)
    <3>1. /\ job' = [job EXCEPT ![w] = Idle] /\ UNCHANGED <<there, made, slips>>
          /\ Spend("faults", MaxFaults) \/ Spend("deaths", MaxDeaths)
      BY <2>10 DEF SaveConfigFails, Die, Fails
    <3> QED  BY <2>2, <2>3, <2>4, <3>1
  <2>11. CASE Stage(w)
    <3> DEFINE x == IF Len(j.todo) > 1 THEN Onward(j)
                    ELSE [j EXCEPT !.pc = "tasks", !.todo = MappingSteps, !.tasks = Tasks]
    <3>1. j.pc = "stage" /\ j.todo # <<>>
      BY <2>2, <2>11 DEF Stage, At
    <3>2. x \in Jobs /\ (x.pc \in {"stage", "erase"} => x.todo # <<>>)
      <4>1. CASE Len(j.todo) > 1
        BY <2>2, <2>5, <3>1, <4>1 DEF Jobs, Onward
      <4>2. CASE ~(Len(j.todo) > 1)
        BY <2>2, <4>2, StepsFacts DEF Jobs, Phases
      <4> QED  BY <4>1, <4>2
    <3>3. job' = [job EXCEPT ![w] = x]
      BY <2>11 DEF Stage
    <3> HIDE DEF x
    <3> QED  BY <2>3, <2>4, <2>5, <2>11, <3>1, <3>2, <3>3 DEF Stage, Make
  <2>12. CASE StageFails(w)
    <3>1. PICK x \in Erasing(Listed) : job' = [job EXCEPT ![w] = x]
      BY <2>12 DEF StageFails
    <3>2. there' \subseteq Everything
      BY <2>2, <2>4, <2>5, <2>12 DEF StageFails, HalfMade, At
    <3> QED  BY <2>3, <2>4, <2>6, <2>7, <2>12, <3>1, <3>2 DEF StageFails, Fails
  <2>13. CASE Map(w)
    <3> DEFINE x == [j EXCEPT !.todo = Tail(@)]
    <3>1. x \in Jobs /\ x.pc = "tasks"
      BY <2>2, <2>5, <2>13 DEF Jobs, Map, At
    <3>2. job' = [job EXCEPT ![w] = x]
      BY <2>13 DEF Map
    <3> HIDE DEF x
    <3> QED  BY <2>3, <2>4, <2>5, <2>13, <3>1, <3>2 DEF Map, Make
  <2>14. CASE MapFails(w)
    <3> DEFINE x == [j EXCEPT !.todo = <<>>]
    <3>1. x \in Jobs /\ x.pc = "tasks"
      BY <2>2, <2>14 DEF Jobs, MapFails, At
    <3>2. job' = [job EXCEPT ![w] = x]
      BY <2>14 DEF MapFails
    <3>3. there' \subseteq Everything /\ slips' \subseteq Everything
      BY <2>4, <2>5, <2>14 DEF MapFails, HalfMade, PassOver
    <3> HIDE DEF x
    <3> QED  BY <2>3, <2>4, <2>14, <3>1, <3>2, <3>3 DEF MapFails, Fails
  <2>15. CASE AdminsFail(w)
    <3> DEFINE x == [j EXCEPT !.tasks = @ \ {AppRoles}]
    <3>1. x \in Jobs /\ x.pc = "tasks"
      BY <2>2, <2>15 DEF Jobs, AdminsFail, At
    <3>2. job' = [job EXCEPT ![w] = x]
      BY <2>15 DEF AdminsFail
    <3>3. Admins \in Everything /\ AppRoles \in Everything
      BY DEF Everything, Tasks
    <3> HIDE DEF x
    <3> QED  BY <2>3, <2>4, <2>15, <3>1, <3>2, <3>3 DEF AdminsFail, Fails
  <2>16. CASE RuleIsRefused(w)
    <3> DEFINE x == [j EXCEPT !.tasks = @ \ {Rules}, !.err = TRUE]
    <3>1. x \in Jobs /\ x.pc = "tasks"
      BY <2>2, <2>16 DEF Jobs, RuleIsRefused, At
    <3>2. job' = [job EXCEPT ![w] = x]
      BY <2>16 DEF RuleIsRefused
    <3> HIDE DEF x
    <3> QED  BY <2>3, <2>4, <2>16, <3>1, <3>2 DEF RuleIsRefused
  <2>17. ASSUME NEW p \in Tasks, Task(w, p) \/ TaskFails(w, p)  PROVE TypeInv'
    <3>1. WithGroup(p) \subseteq Everything
      BY AroundFacts
    <3>2. CASE Task(w, p)
      <4> DEFINE x == [j EXCEPT !.tasks = @ \ {p}]
      <4>1. x \in Jobs /\ x.pc = "tasks"
        BY <2>2, <3>2 DEF Jobs, Task, At
      <4>2. job' = [job EXCEPT ![w] = x]
        BY <3>2 DEF Task
      <4> HIDE DEF x
      <4> QED  BY <2>3, <2>4, <3>1, <3>2, <4>1, <4>2 DEF Task, Make
    <3>3. CASE TaskFails(w, p)
      <4> DEFINE x == [j EXCEPT !.tasks = @ \ {p}, !.err = TRUE]
      <4>1. x \in Jobs /\ x.pc = "tasks"
        BY <2>2, <3>3 DEF Jobs, TaskFails, At
      <4>2. job' = [job EXCEPT ![w] = x]
        BY <3>3 DEF TaskFails
      <4> HIDE DEF x
      <4> QED  BY <2>3, <2>4, <3>1, <3>3, <4>1, <4>2 DEF TaskFails, Fails
    <3> QED  BY <2>17, <3>2, <3>3
  <2>18. CASE Settle(w)
    <3> DEFINE x == IF j.err THEN [j EXCEPT !.pc = "undo", !.todo = Deferred] ELSE Idle
    <3>1. x \in Jobs /\ x.pc \in {"undo", "idle"}
      BY <2>2, AroundFacts DEF Jobs, Phases
    <3>2. job' = [job EXCEPT ![w] = x]
      BY <2>18 DEF Settle
    <3> HIDE DEF x
    <3>3. made' \in BOOLEAN
      BY <2>18 DEF Settle
    <3> QED  BY <2>3, <2>4, <2>18, <3>1, <3>2, <3>3 DEF Settle
  <2>19. CASE Undo(w)
    <3> DEFINE x == IF Head(j.todo) \in ToSet(GlueTables) /\ Head(j.todo) \in there THEN Idle
                    ELSE Onward(j)
    <3>1. x \in Jobs /\ x.pc \in {"undo", "idle"}
      BY <2>2, <2>5, <2>19 DEF Jobs, Undo, At, Onward
    <3>2. job' = [job EXCEPT ![w] = x]
      BY <2>19 DEF Undo
    <3> HIDE DEF x
    <3> QED  BY <2>3, <2>4, <2>19, <3>1, <3>2 DEF Undo, TakeAway
  <2>20. CASE UndoFails(w)
    <3> DEFINE x == [j EXCEPT !.todo = Tail(@)]
    <3>1. x \in Jobs /\ x.pc = "undo"
      BY <2>2, <2>5, <2>20 DEF Jobs, UndoFails, At
    <3>2. job' = [job EXCEPT ![w] = x]
      BY <2>20 DEF UndoFails
    <3> HIDE DEF x
    <3> QED  BY <2>3, <2>4, <2>20, <3>1, <3>2 DEF UndoFails, Fails
  <2>21. CASE UndoDomain(w) \/ StartErasing(w)
    <3>1. /\ \E x \in Erasing(Listed) : job' = [job EXCEPT ![w] = x]
          /\ UNCHANGED <<there, made, used, slips>>
      BY <2>21 DEF UndoDomain, StartErasing
    <3> QED  BY <2>3, <2>4, <2>6, <2>7, <3>1
  <2>22. CASE Delete(w)
    <3> DEFINE x == [Idle EXCEPT !.pc = "clear", !.tasks = Around]
    <3>1. x \in Jobs /\ x.pc = "clear"
      BY <2>2, AroundFacts DEF Jobs, Idle, Phases
    <3>2. job' = [job EXCEPT ![w] = x]
      BY <2>22 DEF Delete
    <3> HIDE DEF x
    <3> QED  BY <2>3, <2>4, <2>22, <3>1, <3>2 DEF Delete
  <2>23. ASSUME NEW p \in Around, Clear(w, p) \/ ClearFails(w, p)  PROVE TypeInv'
    <3> DEFINE x == [j EXCEPT !.tasks = @ \ {p}]
    <3>1. x \in Jobs /\ x.pc = "clear"
      BY <2>2, <2>23 DEF Jobs, Clear, ClearFails, At
    <3>2. job' = [job EXCEPT ![w] = x] /\ there' \subseteq there /\ slips' \subseteq slips
          /\ made' = made
          /\ (used' = used \/ Spend("faults", MaxFaults))
      BY <2>23 DEF Clear, ClearFails, TakeAway, Fails
    <3> HIDE DEF x
    <3>3. there' \subseteq Everything /\ slips' \subseteq Everything /\ made' \in BOOLEAN
      BY <2>4, <3>2
    <3> QED  BY <2>3, <3>1, <3>2, <3>3
  <2>24. CASE ListFails(w)
    <3>1. \E x \in Erasing({}) : job' = [job EXCEPT ![w] = x]
      BY <2>24 DEF ListFails
    <3>2. ToSet(MappingSteps) \subseteq Everything
      BY DEF Everything
    <3> QED  BY <2>3, <2>4, <2>6, <2>7, <2>24, <3>1, <3>2 DEF ListFails, PassOver, Fails
  <2>25. CASE Erase(w) \/ EraseFails(w)
    <3> DEFINE x == IF Len(j.todo) > 1 THEN Onward(j) ELSE Idle
    <3>1. j.pc = "erase" /\ j.todo # <<>>
      BY <2>2, <2>25 DEF Erase, EraseFails, At
    <3>2. x \in Jobs /\ (x.pc \in {"stage", "erase"} => x.todo # <<>>)
      <4>1. CASE Len(j.todo) > 1
        BY <2>2, <2>5, <3>1, <4>1 DEF Jobs, Onward
      <4>2. CASE ~(Len(j.todo) > 1)
        BY <2>2, <4>2
      <4> QED  BY <4>1, <4>2
    <3>3. job' = [job EXCEPT ![w] = x]
      BY <2>25 DEF Erase, EraseFails, Advance
    <3>4. /\ there' \subseteq there /\ slips' \subseteq slips \cup {Head(j.todo)} /\ made' = made
          /\ used' = used \/ Spend("faults", MaxFaults)
      BY <2>25 DEF Erase, EraseFails, TakeAway, PassOver, Fails
    <3> HIDE DEF x
    <3> QED  BY <2>3, <2>4, <2>5, <3>1, <3>2, <3>3, <3>4
  <2> QED  BY <2>1, <2>8, <2>9, <2>10, <2>11, <2>12, <2>13, <2>14, <2>15, <2>16, <2>17,
              <2>18, <2>19, <2>20, <2>21, <2>22, <2>23, <2>24, <2>25
<1> QED  BY <1>1, <1>2

----------------------------------------------------------------------------
(* Creation *)

LEMMA CreateOK ==
    ASSUME IInv, NEW w \in Workers, Create(w)  PROVE JobOK(job[w])'
<1>1. job'[w] = [Idle EXCEPT !.pc = "configure"] /\ job'[w].pc = "configure"
  BY DEF IInv, TypeInv, Create, Idle
<1>2. JobOK(job[w])
  BY DEF IInv
<1> QED  BY <1>1, <1>2 DEF Create, At, JobOK, InReach, Left

LEMMA SaveConfigOK ==
    ASSUME IInv, NEW w \in Workers, SaveConfig(w)  PROVE JobOK(job[w])'
<1>1. /\ job[w].pc = "configure" /\ JobOK(job[w])
      /\ job'[w] = [job[w] EXCEPT !.pc = "stage", !.todo = Stages]
      /\ there' = there \cup {Config} /\ slips' = slips \ {Config} /\ made' = made
  BY DEF IInv, TypeInv, SaveConfig, At, Make
<1>2. job'[w].pc = "stage" /\ job'[w].todo = Stages
  BY <1>1, JobFacts DEF IInv, Jobs
<1>3. ~made /\ Config \notin there /\ Left \subseteq slips /\ InReach
  BY <1>1 DEF JobOK
<1>4. InReach'
  BY <1>1, <1>3, KindsDiffer DEF InReach
<1>5. OldM'
  <2>1. M \in StoreParts /\ M # Config
    BY StepsFacts, TypesFacts, KindsDiffer DEF M, StoreParts
  <2> QED  BY <1>1, <1>3, <2>1 DEF OldM, Left
<1>6. After(Stages, Stages, 0, there')
  BY StagesFacts DEF After
<1>7. StageOK(job[w])'
  BY <1>2, <1>5, <1>6, StagesFacts DEF StageOK
<1> QED  BY <1>1, <1>2, <1>3, <1>4, <1>7 DEF JobOK

LEMMA SaveConfigFailsOK ==
    ASSUME IInv, NEW w \in Workers, SaveConfigFails(w)  PROVE JobOK(job[w])'
<1>1. job'[w] = Idle /\ job'[w].pc = "idle" /\ job[w].pc = "configure" /\ JobOK(job[w])
      /\ UNCHANGED <<there, made, slips>>
  BY DEF IInv, TypeInv, SaveConfigFails, Idle, At
<1> QED  BY <1>1 DEF JobOK, InReach, Left

\* What a stage is about to make, a deletion takes away whatever else it finds.
LEMMA StageIs ==
    ASSUME IInv, NEW w \in Workers, job[w].pc = "stage"
    PROVE  LET h == Head(job[w].todo)
           IN  /\ job[w].todo \in Seq(Everything) /\ job[w].todo # <<>>
               /\ \E k \in 0 .. Len(Stages) : /\ After(job[w].todo, Stages, k, there)
                                              /\ k + 1 \in 1 .. Len(Stages)
                                              /\ h = Stages[k + 1]
               /\ \E t : h = Table(t)
               /\ h \in ToSet(Removal) /\ h # M /\ h # Config
               /\ OldM /\ InReach /\ Config \in there /\ ~made
<1> DEFINE h == Head(job[w].todo)
<1>1. job[w].todo \in Seq(Everything) /\ job[w].todo # <<>> /\ JobOK(job[w])
  BY JobFacts DEF IInv, TypeInv
<1>2. PICK k \in 0 .. Len(Stages) : After(job[w].todo, Stages, k, there)
  BY <1>1 DEF JobOK, StageOK
<1>3. k + 1 \in 1 .. Len(Stages) /\ h = Stages[k + 1]
  <2> DEFINE todo == job[w].todo
  <2>1. Len(Stages) \in Nat
    BY StagesFacts
  <2>2. k \in 0 .. Len(Stages) /\ After(todo, Stages, k, there)
    BY <1>2
  <2>3. todo \in Seq(Everything) /\ todo # <<>>
    BY <1>1
  <2> HIDE DEF todo
  <2>4. k + 1 \in 1 .. Len(Stages) /\ Head(todo) = Stages[k + 1]
    BY <2>1, <2>2, <2>3, OneStepOn, Zenon
  <2> QED  BY <2>4 DEF todo
<1>4. PICK t : h = Table(t) /\ Table(t) \in ToSet(Removal)
  BY <1>3, StagesFacts
<1>5. h # M /\ h # Config
  BY <1>4, KindsDiffer DEF M
<1>6. OldM /\ InReach /\ Config \in there /\ ~made
  BY <1>1 DEF JobOK, StageOK
<1> QED  BY <1>1, <1>2, <1>3, <1>4, <1>5, <1>6

LEMMA StageOfOK ==
    ASSUME IInv, NEW w \in Workers, Stage(w)  PROVE JobOK(job[w])'
<1> DEFINE h == Head(job[w].todo)
<1>1. /\ job[w].pc = "stage" /\ made' = made
      /\ there' = there \cup {h} /\ slips' = slips \ {h}
      /\ job'[w] = IF Len(job[w].todo) > 1 THEN Onward(job[w])
                   ELSE [job[w] EXCEPT !.pc = "tasks", !.todo = MappingSteps, !.tasks = Tasks]
  BY DEF IInv, TypeInv, Stage, At, Make
<1>2. /\ job[w].todo \in Seq(Everything) /\ job[w].todo # <<>>
      /\ \E t : h = Table(t)
      /\ h \in ToSet(Removal) /\ h # M /\ h # Config
      /\ OldM /\ InReach /\ Config \in there /\ ~made
  BY <1>1, StageIs
<1>3. PICK k \in 0 .. Len(Stages) : /\ After(job[w].todo, Stages, k, there)
                                    /\ k + 1 \in 1 .. Len(Stages)
                                    /\ h = Stages[k + 1]
  BY <1>1, StageIs
<1> HIDE DEF h
<1>4. InReach'
  <2> SUFFICES ASSUME NEW t \in ToSet(Types), Table(t) \in there', Table(t) \notin ToSet(Removal)
               PROVE  Mapping(t) \in there' \/ Table(t) \in slips'
    BY DEF InReach
  <2>1. Table(t) # h /\ Table(t) \in there
    BY <1>1, <1>2
  <2> QED  BY <1>1, <1>2, <2>1 DEF InReach
<1>5. OldM' /\ Config \in there' /\ ~made'
  BY <1>1, <1>2 DEF OldM
<1>6. After(Tail(job[w].todo), Stages, k + 1, there') /\ k + 1 \in 0 .. Len(Stages)
  <2>1. Len(Stages) \in Nat /\ there \subseteq there' /\ h \in there'
    BY <1>1, StagesFacts
  <2> QED  BY <1>2, <1>3, <2>1, OneStepOn DEF h
<1>7. CASE Len(job[w].todo) > 1
  <2>1. job'[w].pc = "stage" /\ job'[w].todo = Tail(job[w].todo)
    BY <1>1, <1>7, JobFacts DEF IInv, Jobs, Onward
  <2>2. StageOK(job[w])'
    BY <1>5, <1>6, <2>1 DEF StageOK
  <2> QED  BY <1>4, <1>5, <2>1, <2>2 DEF JobOK
<1>8. CASE ~(Len(job[w].todo) > 1)
  <2>1. job'[w].pc = "tasks" /\ job'[w].todo = MappingSteps /\ job'[w].tasks = Tasks
    BY <1>1, <1>8, JobFacts DEF IInv, Jobs
  <2>2. k + 1 = Len(Stages)
    <3> DEFINE todo == job[w].todo
               t    == Tail(todo)
    <3>1. Len(todo) \in Nat /\ Len(todo) > 0 /\ Len(t) = Len(todo) - 1 /\ ~(Len(todo) > 1)
      BY <1>2, <1>8, HeadAndTail
    <3>2. Len(t) + (k + 1) = Len(Stages)
      BY <1>6 DEF After
    <3> HIDE DEF t, todo
    <3>3. Len(Stages) = 6
      BY StagesFacts
    <3>4. k \in 0 .. Len(Stages)
      BY <1>3
    <3>5. k \in Nat
      BY <3>3, <3>4
    <3> QED  BY <3>1, <3>2, <3>3, <3>5
  <2>3. ToSet(Stages) \subseteq there'
    <3>1. Len(Stages) = 6 /\ ToSet(Stages) = {Stages[i] : i \in 1 .. 6}
      BY StagesFacts
    <3>2. \A i \in 1 .. 6 : Stages[i] \in there'
      BY <1>6, <2>2, <3>1 DEF After
    <3> QED  BY <3>1, <3>2
  <2>4. After(MappingSteps, MappingSteps, 0, there') /\ 0 \in 0 .. Len(MappingSteps)
        /\ MappingSteps # <<>>
    <3>1. Len(MappingSteps) \in Nat /\ MappingSteps # <<>>
      BY StepsFacts
    <3> QED  BY <3>1 DEF After
  <2>5. MapsOK(job[w])'
    BY <1>5, <2>1, <2>4 DEF MapsOK
  <2>6. TasksOK(job[w])'
    BY <2>1, <2>3, AroundFacts DEF TasksOK
  <2> QED  BY <1>4, <1>5, <2>1, <2>5, <2>6 DEF JobOK
<1> QED  BY <1>7, <1>8

\* A deletion that can list the mappings is told of everything that is left.
LEMMA ErasingCovers ==
    ASSUME NEW x \in Erasing(Listed), Config \in there, InReach,
           NEW now, now \cap StoreParts \subseteq there \cup ToSet(Removal)
    PROVE  x.pc = "erase" /\ now \cap StoreParts \subseteq slips \cup ToSet(x.todo)
<1>1. Listed \subseteq ToSet(Types)
  BY DEF Listed
<1>2. /\ x.pc = "erase" /\ ToSet(Removal) \subseteq ToSet(x.todo)
      /\ \A t \in Listed : Mapping(t) \in ToSet(x.todo) /\ Table(t) \in ToSet(x.todo)
  BY <1>1, ErasingFacts
<1>3. ASSUME NEW y \in now \cap StoreParts, y \notin slips  PROVE y \in ToSet(x.todo)
  <2>1. CASE y \in ToSet(Removal)
    BY <1>2, <2>1
  <2>2. CASE y \notin ToSet(Removal)
    <3>1. y \in there /\ y \in ToSet(MappingSteps)
      BY <2>2, StagesFacts DEF StoreParts
    <3>2. PICK t \in ToSet(Types) : y = Mapping(t) \/ y = Table(t)
      BY <3>1, StepsFacts
    <3>3. t \in Listed
      BY <1>3, <2>2, <3>1, <3>2 DEF Listed, InReach
    <3> QED  BY <1>2, <3>2, <3>3
  <2> QED  BY <2>1, <2>2
<1> QED  BY <1>2, <1>3

LEMMA StageFailsOK ==
    ASSUME IInv, NEW w \in Workers, StageFails(w)  PROVE JobOK(job[w])'
<1> DEFINE h == Head(job[w].todo)
<1>1. /\ job[w].pc = "stage" /\ made' = made /\ slips' = slips
      /\ there' \subseteq there \cup {h} /\ \E x \in Erasing(Listed) : job'[w] = x
  BY DEF IInv, TypeInv, StageFails, At, HalfMade
<1>2. h \in ToSet(Removal) /\ InReach /\ Config \in there /\ ~made
  BY <1>1, StageIs
<1>3. job'[w].pc = "erase" /\ there' \cap StoreParts \subseteq slips \cup ToSet(job'[w].todo)
  <2>1. there' \cap StoreParts \subseteq there \cup ToSet(Removal)
    BY <1>1, <1>2
  <2> QED  BY <1>1, <1>2, <2>1, ErasingCovers
<1> QED  BY <1>1, <1>2, <1>3 DEF JobOK, Left

----------------------------------------------------------------------------
(* Mappings and other goroutines *)

LEMMA MappingNext ==
    ASSUME NEW todo \in Seq(Everything), todo # <<>>, NEW k \in 0 .. Len(MappingSteps),
           NEW had, After(todo, MappingSteps, k, had)
    PROVE  k + 1 \in 1 .. Len(MappingSteps) /\ Head(todo) = MappingSteps[k + 1]
<1>1. Len(MappingSteps) \in Nat
  BY StepsFacts
<1> QED  BY <1>1, OneStepOn

\* The next step of the mappings.
LEMMA MappingIs ==
    ASSUME IInv, NEW w \in Workers, job[w].pc = "tasks", job[w].todo # <<>>
    PROVE  LET h == Head(job[w].todo)
           IN  /\ job[w].todo \in Seq(Everything) /\ h \in ToSet(MappingSteps)
               /\ InReach /\ Config \in there /\ ~made /\ TasksOK(job[w])
               /\ (M \in ToSet(job[w].todo) => OldM)
               /\ \E k \in 0 .. Len(MappingSteps) : /\ After(job[w].todo, MappingSteps, k, there)
                                                    /\ k + 1 \in 1 .. Len(MappingSteps)
                                                    /\ h = MappingSteps[k + 1]
<1> DEFINE h == Head(job[w].todo)
<1>1. job[w].todo \in Seq(Everything) /\ JobOK(job[w])
  BY JobFacts DEF IInv, TypeInv
<1>2. PICK k \in 0 .. Len(MappingSteps) : After(job[w].todo, MappingSteps, k, there)
  BY <1>1 DEF JobOK, MapsOK
<1>3. k + 1 \in 1 .. Len(MappingSteps) /\ h = MappingSteps[k + 1]
  BY <1>1, <1>2, MappingNext
<1>4. InReach /\ Config \in there /\ ~made /\ TasksOK(job[w]) /\ (M \in ToSet(job[w].todo) => OldM)
  BY <1>1 DEF JobOK, MapsOK
<1>5. h \in ToSet(MappingSteps)
  BY <1>3, StepsFacts
<1> QED  BY <1>1, <1>2, <1>3, <1>4, <1>5

LEMMA MapOK ==
    ASSUME IInv, NEW w \in Workers, Map(w)  PROVE JobOK(job[w])'
<1> DEFINE h == Head(job[w].todo)
           t == Tail(job[w].todo)
<1>1. /\ job[w].pc = "tasks" /\ job[w].todo # <<>> /\ made' = made
      /\ there' = there \cup {h} /\ slips' = slips \ {h}
      /\ job'[w] = [job[w] EXCEPT !.todo = Tail(@)]
  BY DEF IInv, TypeInv, Map, At, Make
<1>2. /\ job'[w].pc = "tasks" /\ job'[w].todo = t
      /\ job'[w].tasks = job[w].tasks /\ job'[w].err = job[w].err
  BY <1>1, JobFacts DEF IInv, Jobs
<1>3. /\ job[w].todo \in Seq(Everything) /\ h \in ToSet(MappingSteps)
      /\ InReach /\ Config \in there /\ ~made /\ TasksOK(job[w])
      /\ (M \in ToSet(job[w].todo) => OldM)
  BY <1>1, MappingIs
<1>4. PICK k \in 0 .. Len(MappingSteps) : /\ After(job[w].todo, MappingSteps, k, there)
                                          /\ k + 1 \in 1 .. Len(MappingSteps)
                                          /\ h = MappingSteps[k + 1]
  BY <1>1, MappingIs
<1>5. After(t, MappingSteps, k + 1, there') /\ k + 1 \in 0 .. Len(MappingSteps)
      /\ \A i \in 1 .. k : MappingSteps[i] \in there
  <2>1. Len(MappingSteps) \in Nat /\ there \subseteq there' /\ h \in there'
    BY <1>1, StepsFacts
  <2> QED  BY <1>1, <1>3, <1>4, <2>1, OneStepOn DEF h
<1>6. /\ ToSet(job[w].todo) = {h} \cup ToSet(t)
      /\ Len(t) \in Nat /\ (t = <<>> => ~(Len(t) > 0)) /\ k \in Nat
      /\ DOMAIN t = 1 .. Len(t)
      /\ Len(t) + (k + 1) = Len(MappingSteps)
      /\ \A i \in 1 .. Len(t) : t[i] = MappingSteps[i + (k + 1)]
  <2>1. /\ ToSet(job[w].todo) = {h} \cup ToSet(t) /\ t \in Seq(Everything)
        /\ Len(job[w].todo) \in Nat /\ Len(t) = Len(job[w].todo) - 1
        /\ (t = <<>> => Len(job[w].todo) <= 1)
    BY <1>1, <1>3, HeadAndTail
  <2>2. Len(MappingSteps) \in Nat
    BY StepsFacts
  <2>3. k \in Nat
    BY <1>4, <2>2
  <2> HIDE DEF t, h
  <2>4. Len(t) \in Nat /\ DOMAIN t = 1 .. Len(t)
    BY <2>1, LenProperties
  <2>5. t = <<>> => ~(Len(t) > 0)
    BY <2>1, <2>4
  <2> QED  BY <1>5, <2>1, <2>3, <2>4, <2>5 DEF After
<1> HIDE DEF h, t
<1>7. InReach'
  <2> SUFFICES ASSUME NEW u \in ToSet(Types), Table(u) \in there', Table(u) \notin ToSet(Removal)
               PROVE  Mapping(u) \in there' \/ Table(u) \in slips'
    BY DEF InReach
  <2>1. CASE Table(u) = h
    <3>1. k + 1 > 1 /\ MappingSteps[(k + 1) - 1] = Mapping(u)
      BY <1>4, <2>1, StepsFacts
    <3>2. (k + 1) - 1 = k /\ k \in 1 .. k
      BY <3>1
    <3> QED  BY <1>1, <1>5, <3>1, <3>2
  <2>2. CASE Table(u) # h
    BY <1>1, <1>3, <2>2 DEF InReach
  <2> QED  BY <2>1, <2>2
<1>8. MapsOK(job[w])'
  <2>1. ASSUME M \in ToSet(t)  PROVE OldM'
    <3>1. PICK i \in 1 .. Len(t) : M = MappingSteps[i + (k + 1)]
      BY <1>6, <2>1 DEF ToSet
    <3>2. i + (k + 1) \in 1 .. Len(MappingSteps)
      <4>1. Len(MappingSteps) \in Nat
        BY StepsFacts
      <4> QED  BY <1>6, <4>1
    <3>3. i + (k + 1) = Len(MappingSteps) - 1 /\ (h = M => k + 1 = Len(MappingSteps) - 1)
      BY <1>4, <3>1, <3>2, StepsFacts
    <3>4. h # M
      BY <3>3
    <3> QED  BY <1>1, <1>3, <1>6, <2>1, <3>4 DEF OldM
  <2>2. ASSUME t = <<>>  PROVE ToSet(MappingSteps) \subseteq there'
    <3>1. Len(MappingSteps) \in Nat /\ ToSet(MappingSteps)
              = {MappingSteps[i] : i \in 1 .. Len(MappingSteps)}
      BY StepsFacts
    <3>2. k + 1 = Len(MappingSteps)
      BY <1>6, <2>2, <3>1
    <3>3. \A i \in 1 .. Len(MappingSteps) : MappingSteps[i] \in there'
      BY <1>5, <3>2 DEF After
    <3> QED  BY <3>1, <3>3
  <2> QED  BY <1>2, <1>5, <2>1, <2>2 DEF MapsOK
<1>9. TasksOK(job[w])'
  BY <1>1, <1>2, <1>3 DEF TasksOK
<1> QED  BY <1>1, <1>2, <1>3, <1>7, <1>8, <1>9, KindsDiffer DEF JobOK

LEMMA MapFailsOK ==
    ASSUME IInv, NEW w \in Workers, MapFails(w)  PROVE JobOK(job[w])'
<1> DEFINE h == Head(job[w].todo)
<1>1. /\ job[w].pc = "tasks" /\ job[w].todo # <<>> /\ made' = made
      /\ (there' = there \/ (there' = there \cup {h} /\ h \in Tables))
      /\ slips' = slips \cup {h}
      /\ job'[w] = [job[w] EXCEPT !.todo = <<>>]
  <2>1. there' = there \/ (there' = there \cup {h} /\ h \in Tables)
    BY DEF MapFails, HalfMade
  <2> QED  BY <2>1 DEF IInv, TypeInv, MapFails, At, PassOver
<1>2. /\ job'[w].pc = "tasks" /\ job'[w].todo = <<>>
      /\ job'[w].tasks = job[w].tasks /\ job'[w].err = job[w].err
  BY <1>1, JobFacts DEF IInv, Jobs
<1>3. /\ job[w].todo \in Seq(Everything) /\ h \in ToSet(MappingSteps)
      /\ InReach /\ Config \in there /\ ~made /\ TasksOK(job[w])
      /\ (M \in ToSet(job[w].todo) => OldM)
  BY <1>1, MappingIs
<1>4. PICK k \in 0 .. Len(MappingSteps) : /\ After(job[w].todo, MappingSteps, k, there)
                                          /\ k + 1 \in 1 .. Len(MappingSteps)
                                          /\ h = MappingSteps[k + 1]
  BY <1>1, MappingIs
<1>5. /\ Len(job[w].todo) \in Nat /\ Len(job[w].todo) > 0
      /\ Len(job[w].todo) + k = Len(MappingSteps)
      /\ DOMAIN job[w].todo = 1 .. Len(job[w].todo)
      /\ \A i \in 1 .. Len(job[w].todo) : job[w].todo[i] = MappingSteps[i + k]
      /\ \A i \in 1 .. k : MappingSteps[i] \in there
  BY <1>1, <1>3, <1>4, HeadAndTail, LenProperties DEF After
<1> HIDE DEF h
<1>6. InReach'
  BY <1>1, <1>3 DEF InReach
<1>7. M \notin Tables
  <2>1. \A x \in Tables : \E t : x = Table(t)
    BY StagesFacts DEF Tables
  <2> QED  BY <2>1, KindsDiffer DEF M
<1>8. OldM' \/ ToSet(MappingSteps) \subseteq there' \cup slips'
  <2>1. CASE M \in ToSet(job[w].todo)
    BY <1>1, <1>3, <1>7, <2>1 DEF OldM
  <2>2. CASE M \notin ToSet(job[w].todo)
    <3>1. k + 1 = Len(MappingSteps)
      <4> SUFFICES ASSUME k + 1 # Len(MappingSteps)  PROVE FALSE
        OBVIOUS
      <4> DEFINE i == Len(MappingSteps) - 1 - k
      <4>0. Len(MappingSteps) \in Nat /\ Len(MappingSteps) > 1
        BY StepsFacts
      <4>1. i \in 1 .. Len(job[w].todo) /\ i + k = Len(MappingSteps) - 1
        BY <1>4, <1>5, <4>0
      <4>2. Len(MappingSteps) - 1 \in 1 .. Len(MappingSteps)
        BY <4>0
      <4>3. MappingSteps[Len(MappingSteps) - 1] = M
        BY <4>2, StepsFacts
      <4>4. job[w].todo[i] = M
        BY <1>5, <4>1, <4>3
      <4> QED  BY <1>5, <2>2, <4>1, <4>4 DEF ToSet
    <3>2. \A i \in 1 .. Len(MappingSteps) : i \in 1 .. k \/ i = k + 1
      BY <1>4, <3>1
    <3>3. ToSet(MappingSteps) = {MappingSteps[i] : i \in 1 .. Len(MappingSteps)}
      BY StepsFacts
    <3>4. \A i \in 1 .. Len(MappingSteps) : MappingSteps[i] \in there' \cup slips'
      BY <1>1, <1>4, <1>5, <3>2
    <3> QED  BY <3>3, <3>4
  <2> QED  BY <2>1, <2>2
<1>9. MapsOK(job[w])'
  BY <1>2, <1>8 DEF MapsOK
<1>10. TasksOK(job[w])'
  BY <1>1, <1>2, <1>3 DEF TasksOK
<1> QED  BY <1>1, <1>2, <1>3, <1>6, <1>9, <1>10 DEF JobOK

\* One of the other goroutines ends: what it stands for is there now or passed over, or
\* there is an error.
LEMMA TaskEnds ==
    ASSUME IInv, NEW w \in Workers, job[w].pc = "tasks", NEW p \in Tasks, p \in job[w].tasks,
           NEW e \in BOOLEAN, job[w].err => e, made' = made,
           job'[w] = [job[w] EXCEPT !.tasks = @ \ {p}, !.err = e],
           there \subseteq there', there' \subseteq there \cup WithGroup(p),
           slips \subseteq slips' \cup WithGroup(p), slips \subseteq slips' \cup there',
           ~e => WithGroup(p) \subseteq there' \cup slips'
                 /\ (p = Rules => job[w].todo = <<>> /\ M \in there)
    PROVE  JobOK(job[w])'
<1>1. /\ job'[w].pc = "tasks" /\ job'[w].todo = job[w].todo
      /\ job'[w].tasks = job[w].tasks \ {p} /\ job'[w].err = e
  BY JobFacts DEF IInv, Jobs
<1>2. /\ JobOK(job[w]) /\ ~made /\ Config \in there /\ InReach
      /\ MapsOK(job[w]) /\ TasksOK(job[w])
  BY DEF IInv, JobOK
<1>3. \A t : Table(t) \notin WithGroup(p) /\ Mapping(t) \notin WithGroup(p)
  BY AroundFacts
<1>4. InReach'
  BY <1>2, <1>3 DEF InReach
<1>5. OldM => OldM'
  BY <1>3 DEF OldM, M
<1>6. MapsOK(job[w])'
  <2>1. ASSUME job[w].todo # <<>>
        PROVE  \E k \in 0 .. Len(MappingSteps) : After(job[w].todo, MappingSteps, k, there')
    <3>1. PICK k \in 0 .. Len(MappingSteps) : After(job[w].todo, MappingSteps, k, there)
      BY <1>2, <2>1 DEF MapsOK
    <3> QED  BY <3>1 DEF After
  <2>2. there \cup slips \subseteq there' \cup slips'
    OBVIOUS
  <2> QED  BY <1>1, <1>2, <1>5, <2>1, <2>2 DEF MapsOK
<1>7. TasksOK(job[w])'
  <2>1. ToSet(Stages) \subseteq there'
    BY <1>2 DEF TasksOK
  <2>2. ASSUME ~e, NEW q \in Tasks \ job'[w].tasks
        PROVE  WithGroup(q) \subseteq there' \cup slips'
    <3>1. CASE q = p
      BY <2>2, <3>1
    <3>2. CASE q # p
      <4>1. q \in Tasks \ job[w].tasks /\ ~job[w].err
        BY <1>1, <2>2, <3>2
      <4>2. WithGroup(q) \subseteq there \cup slips
        BY <1>2, <4>1 DEF TasksOK
      <4> QED  BY <4>2
    <3> QED  BY <3>1, <3>2
  <2>3. ASSUME ~e, Rules \notin job'[w].tasks  PROVE job[w].todo = <<>> /\ M \in there'
    <3>1. CASE p = Rules
      BY <2>3, <3>1
    <3>2. CASE p # Rules
      BY <1>1, <1>2, <2>3, <3>2 DEF TasksOK
    <3> QED  BY <3>1, <3>2
  <2> QED  BY <1>1, <2>1, <2>2, <2>3 DEF TasksOK
<1> QED  BY <1>1, <1>2, <1>4, <1>6, <1>7 DEF JobOK

LEMMA TaskOK ==
    ASSUME IInv, NEW w \in Workers, NEW p \in Tasks, Task(w, p)  PROVE JobOK(job[w])'
<1>1. /\ job[w].pc = "tasks" /\ p \in job[w].tasks /\ made' = made
      /\ p = Rules => job[w].todo = <<>> /\ M \in there
      /\ there' = there \cup WithGroup(p) /\ slips' = slips \ WithGroup(p)
      /\ job'[w] = [job[w] EXCEPT !.tasks = @ \ {p}]
  BY DEF IInv, TypeInv, Task, At, Make, RuleIsValid, M
<1>2. job'[w] = [job[w] EXCEPT !.tasks = @ \ {p}, !.err = job[w].err] /\ job[w].err \in BOOLEAN
  BY <1>1, JobFacts DEF IInv, Jobs
<1> QED  BY <1>1, <1>2, TaskEnds

LEMMA TaskFailsOK ==
    ASSUME IInv, NEW w \in Workers, NEW p \in Tasks, TaskFails(w, p)  PROVE JobOK(job[w])'
<1>1. /\ job[w].pc = "tasks" /\ p \in job[w].tasks /\ made' = made /\ slips' = slips
      /\ there \subseteq there' /\ there' \subseteq there \cup WithGroup(p)
      /\ job'[w] = [job[w] EXCEPT !.tasks = @ \ {p}, !.err = TRUE]
  BY DEF IInv, TypeInv, TaskFails, At
<1> QED  BY <1>1, TaskEnds

LEMMA RuleIsRefusedOK ==
    ASSUME IInv, NEW w \in Workers, RuleIsRefused(w)  PROVE JobOK(job[w])'
<1>1. /\ job[w].pc = "tasks" /\ Rules \in job[w].tasks /\ made' = made /\ slips' = slips
      /\ there' = there /\ Rules \in Tasks
      /\ job'[w] = [job[w] EXCEPT !.tasks = @ \ {Rules}, !.err = TRUE]
  BY AroundFacts DEF IInv, TypeInv, RuleIsRefused, At
<1> QED  BY <1>1, TaskEnds

LEMMA AdminsFailOK ==
    ASSUME IInv, NEW w \in Workers, AdminsFail(w)  PROVE JobOK(job[w])'
<1>1. /\ job[w].pc = "tasks" /\ AppRoles \in job[w].tasks /\ made' = made
      /\ there' = there \cup {AppRoles} /\ slips' = (slips \cup {Admins}) \ {AppRoles}
      /\ job'[w] = [job[w] EXCEPT !.tasks = @ \ {AppRoles}]
  BY DEF IInv, TypeInv, AdminsFail, At
<1>2. /\ job'[w] = [job[w] EXCEPT !.tasks = @ \ {AppRoles}, !.err = job[w].err]
      /\ job[w].err \in BOOLEAN
  BY <1>1, JobFacts DEF IInv, Jobs
<1>3. AppRoles \in Tasks /\ WithGroup(AppRoles) = {Admins, AppRoles} /\ AppRoles # Rules
      /\ AppRoles # Admins
  BY AroundFacts, KindsDiffer
<1> QED  BY <1>1, <1>2, <1>3, TaskEnds

LEMMA SettleOK ==
    ASSUME IInv, NEW w \in Workers, Settle(w)  PROVE JobOK(job[w])'
<1>1. /\ job[w].pc = "tasks" /\ job[w].tasks = {} /\ made' = (made \/ ~job[w].err)
      /\ there' = there /\ slips' = slips
      /\ job'[w] = IF job[w].err THEN [job[w] EXCEPT !.pc = "undo", !.todo = Deferred] ELSE Idle
  BY DEF IInv, TypeInv, Settle, At
<1>2. /\ JobOK(job[w]) /\ ~made /\ Config \in there /\ InReach
      /\ MapsOK(job[w]) /\ TasksOK(job[w])
  BY <1>1 DEF IInv, JobOK
<1>3. InReach'
  BY <1>1, <1>2 DEF InReach
<1>4. CASE job[w].err
  <2>1. job'[w].pc = "undo" /\ job'[w].todo = Deferred /\ ~made'
    BY <1>1, <1>2, <1>4, JobFacts DEF IInv, Jobs
  <2> QED  BY <1>1, <1>2, <1>3, <2>1 DEF JobOK
<1>5. CASE ~job[w].err
  <2>1. job'[w].pc = "idle"
    BY <1>1, <1>5, JobFacts DEF IInv
  <2>2. ASSUME M \notin slips  PROVE Whole
    <3>1. /\ job[w].todo = <<>> /\ M \in there /\ ToSet(Stages) \subseteq there
          /\ \A p \in Tasks : WithGroup(p) \subseteq there \cup slips
      BY <1>1, <1>2, <1>5, AroundFacts DEF TasksOK
    <3>2. ToSet(MappingSteps) \subseteq there \cup slips
      BY <1>2, <2>2, <3>1 DEF MapsOK, OldM
    <3>3. Tasks \subseteq there \cup slips /\ Admins \in there \cup slips
      BY <3>1, AroundFacts
    <3> QED  BY <1>2, <3>1, <3>2, <3>3, AroundFacts DEF Whole
  <2>3. M \notin slips' => Whole'
    BY <1>1, <2>2 DEF Whole
  <2> QED  BY <1>1, <1>2, <1>3, <2>1, <2>3 DEF JobOK
<1> QED  BY <1>4, <1>5

----------------------------------------------------------------------------
(* Clean-up and deletion *)

LEMMA UndoOK ==
    ASSUME IInv, NEW w \in Workers, Undo(w) \/ UndoFails(w)  PROVE JobOK(job[w])'
<1> DEFINE p == Head(job[w].todo)
<1>1. job[w].pc = "undo" /\ job[w].todo # <<>> /\ made' = made
  BY DEF Undo, UndoFails, At
<1>2. job[w].todo \in Seq(Everything) /\ JobOK(job[w])
  BY JobFacts DEF IInv
<1>3. ~made /\ Config \in there /\ InReach /\ ToSet(job[w].todo) \subseteq ToSet(Deferred)
  BY <1>1, <1>2 DEF JobOK
<1>4. p \in ToSet(Deferred) /\ ToSet(Tail(job[w].todo)) \subseteq ToSet(Deferred)
  BY <1>1, <1>2, <1>3, HeadAndTail
<1>5. /\ there \ WithGroup(p) \subseteq there' /\ there' \subseteq there
      /\ slips \ WithGroup(p) \subseteq slips'
  BY DEF Undo, UndoFails, TakeAway
<1>6. job'[w] = Idle \/ job'[w] = Onward(job[w])
  <2>1. job \in [Workers -> Jobs]
    BY DEF IInv, TypeInv
  <2>2. CASE Undo(w)
    BY <2>1, <2>2 DEF Undo
  <2>3. CASE UndoFails(w)
    BY <2>1, <2>3 DEF UndoFails, Onward
  <2> QED  BY <2>2, <2>3
<1>7. \/ job'[w].pc = "idle"
      \/ job'[w].pc = "undo" /\ job'[w].todo = Tail(job[w].todo)
  BY <1>1, <1>6, JobFacts DEF IInv, Jobs, Onward
<1> HIDE DEF p
<1>8. /\ Config \notin WithGroup(p)
      /\ \A t : Table(t) \notin WithGroup(p) /\ Mapping(t) \notin WithGroup(p)
  BY <1>4, AroundFacts
<1>9. InReach' /\ Config \in there' /\ ~made'
  BY <1>1, <1>3, <1>5, <1>8 DEF InReach
<1> QED  BY <1>4, <1>7, <1>9 DEF JobOK

LEMMA UndoDomainOK ==
    ASSUME IInv, NEW w \in Workers, UndoDomain(w)  PROVE JobOK(job[w])'
<1>1. /\ job[w].pc = "undo" /\ UNCHANGED <<there, made, slips>>
      /\ \E x \in Erasing(Listed) : job'[w] = x
  BY DEF IInv, TypeInv, UndoDomain, At
<1>2. ~made /\ Config \in there /\ InReach
  BY <1>1 DEF IInv, JobOK
<1>3. job'[w].pc = "erase" /\ there \cap StoreParts \subseteq slips \cup ToSet(job'[w].todo)
  BY <1>1, <1>2, ErasingCovers
<1> QED  BY <1>1, <1>2, <1>3 DEF JobOK, Left

LEMMA DeleteOK ==
    ASSUME IInv, NEW w \in Workers, Delete(w)  PROVE JobOK(job[w])'
<1>1. /\ job[w].pc = "idle" /\ made' = FALSE /\ UNCHANGED <<there, slips>> /\ JobOK(job[w])
      /\ job'[w] = [Idle EXCEPT !.pc = "clear", !.tasks = Around]
  BY DEF IInv, TypeInv, Delete, At
<1>2. job'[w].pc = "clear"
  BY <1>1 DEF Idle
<1> QED  BY <1>1, <1>2 DEF JobOK, InReach, Left

LEMMA ClearOK ==
    ASSUME IInv, NEW w \in Workers, NEW p \in Around, Clear(w, p) \/ ClearFails(w, p)
    PROVE  JobOK(job[w])'
<1>1. /\ job[w].pc = "clear" /\ made' = made
      /\ there \ WithGroup(p) \subseteq there' /\ there' \subseteq there
      /\ slips \ WithGroup(p) \subseteq slips'
      /\ job'[w] = [job[w] EXCEPT !.tasks = @ \ {p}]
  BY DEF IInv, TypeInv, Clear, ClearFails, TakeAway, At
<1>2. job'[w].pc = "clear"
  BY <1>1, JobFacts DEF IInv, Jobs
<1>3. /\ ~made /\ InReach /\ (Config \notin there => Left \subseteq slips)
  BY <1>1 DEF IInv, JobOK
<1>4. /\ Config \notin WithGroup(p) /\ WithGroup(p) \cap StoreParts = {}
      /\ \A t : Table(t) \notin WithGroup(p) /\ Mapping(t) \notin WithGroup(p)
  BY AroundFacts
<1>5. InReach'
  BY <1>1, <1>3, <1>4 DEF InReach
<1>6. Config \notin there' => Left' \subseteq slips'
  BY <1>1, <1>3, <1>4 DEF Left
<1> QED  BY <1>1, <1>2, <1>3, <1>5, <1>6 DEF JobOK

LEMMA StartErasingOK ==
    ASSUME IInv, NEW w \in Workers, StartErasing(w)  PROVE JobOK(job[w])'
<1>1. /\ job[w].pc = "clear" /\ UNCHANGED <<there, made, slips>>
      /\ \E x \in Erasing(Listed) : job'[w] = x
  BY DEF IInv, TypeInv, StartErasing, At
<1>2. ~made /\ InReach /\ (Config \notin there => Left \subseteq slips)
  BY <1>1 DEF IInv, JobOK
<1>3. CASE Config \in there
  <2>1. job'[w].pc = "erase" /\ there \cap StoreParts \subseteq slips \cup ToSet(job'[w].todo)
    BY <1>1, <1>2, <1>3, ErasingCovers
  <2> QED  BY <1>1, <1>2, <2>1 DEF JobOK, Left
<1>4. CASE Config \notin there
  <2>1. job'[w].pc = "idle"
    BY <1>1, <1>4, JobFacts DEF Erasing, IInv
  <2> QED  BY <1>1, <1>2, <2>1 DEF JobOK, Left, InReach
<1> QED  BY <1>3, <1>4

LEMMA ListFailsOK ==
    ASSUME IInv, NEW w \in Workers, ListFails(w)  PROVE JobOK(job[w])'
<1>1. /\ job[w].pc = "clear" /\ there' = there /\ made' = made /\ Config \in there
      /\ slips' = slips \cup ToSet(MappingSteps)
      /\ \E x \in Erasing({}) : job'[w] = x
  BY DEF IInv, TypeInv, ListFails, PassOver, At
<1>2. ~made
  BY <1>1 DEF IInv, JobOK
<1>3. job'[w].pc = "erase" /\ ToSet(Removal) \subseteq ToSet(job'[w].todo)
  <2>1. {} \subseteq ToSet(Types)
    OBVIOUS
  <2> QED  BY <1>1, <2>1, ErasingFacts
<1>4. Left' \subseteq slips' \cup ToSet(job'[w].todo)
  BY <1>1, <1>3, StagesFacts DEF Left, StoreParts
<1> QED  BY <1>1, <1>2, <1>3, <1>4 DEF JobOK

\* Whether it removes a part or passes over it, a deletion still has all the others before it.
LEMMA EraseOK ==
    ASSUME IInv, NEW w \in Workers, Erase(w) \/ EraseFails(w)  PROVE JobOK(job[w])'
<1> DEFINE h == Head(job[w].todo)
<1>1. /\ job[w].pc = "erase" /\ made' = made
      /\ \/ there' = there \ {h} /\ slips' = slips \ {h}
         \/ there' = there /\ slips' = slips \cup {h}
      /\ job'[w] = IF Len(job[w].todo) > 1 THEN Onward(job[w]) ELSE Idle
  BY DEF IInv, TypeInv, Erase, EraseFails, TakeAway, PassOver, Advance, At
<1>2. job[w].todo \in Seq(Everything) /\ job[w].todo # <<>> /\ JobOK(job[w])
  BY <1>1, JobFacts DEF IInv, TypeInv
<1>3. ~made /\ Left \subseteq slips \cup ToSet(job[w].todo)
  BY <1>1, <1>2 DEF JobOK
<1>4. ToSet(job[w].todo) = {h} \cup ToSet(Tail(job[w].todo))
      /\ (Tail(job[w].todo) = <<>> <=> ~(Len(job[w].todo) > 1))
  BY <1>2, HeadAndTail
<1> HIDE DEF h
<1>5. Left' \subseteq slips' \cup ToSet(Tail(job[w].todo))
  BY <1>1, <1>3, <1>4 DEF Left
<1>6. CASE Len(job[w].todo) > 1
  <2>1. job'[w].pc = "erase" /\ job'[w].todo = Tail(job[w].todo)
    BY <1>1, <1>6, JobFacts DEF IInv, Jobs, Onward
  <2> QED  BY <1>1, <1>3, <1>5, <2>1 DEF JobOK
<1>7. CASE ~(Len(job[w].todo) > 1)
  <2>1. job'[w].pc = "idle"
    BY <1>1, <1>7, JobFacts DEF IInv
  <2>2. ToSet(Tail(job[w].todo)) = {}
    BY <1>4, <1>7 DEF ToSet
  <2>3. Left' \subseteq slips'
    BY <1>5, <2>2
  <2>4. InReach'
    <3>1. \A t \in ToSet(Types) : Table(t) \in StoreParts
      BY StepsFacts, AroundFacts
    <3> QED  BY <2>3, <3>1 DEF InReach, Left
  <2> QED  BY <1>1, <1>3, <2>1, <2>3, <2>4 DEF JobOK
<1> QED  BY <1>6, <1>7

\* An invocation that is cut short leaves its parts to the next deletion, unless it was
\* itself taking the store away.
LEMMA DieOK ==
    ASSUME IInv, "erase" \notin MayDie, NEW w \in Workers, Die(w)  PROVE JobOK(job[w])'
<1>1. /\ job[w].pc \in MayDie /\ UNCHANGED <<there, made, slips>> /\ job'[w] = Idle
  BY DEF IInv, TypeInv, Die
<1>2. job[w].pc \in {"stage", "tasks", "undo", "clear"} /\ job'[w].pc = "idle"
  BY <1>1, DomainBounds, JobFacts DEF Phases, IInv
<1>3. JobOK(job[w])
  BY DEF IInv
<1> QED  BY <1>1, <1>2, <1>3 DEF JobOK, InReach, Left

----------------------------------------------------------------------------
(* Theorems *)

LEMMA InitTypes == Init => TypeInv
<1> SUFFICES ASSUME Init  PROVE TypeInv
  OBVIOUS
<1>1. Idle \in Jobs /\ Idle.pc = "idle"
  BY DEF Idle, Jobs
<1>2. job \in [Workers -> Jobs]
      /\ \A w \in Workers : job[w].pc \in {"stage", "erase"} => job[w].todo # <<>>
  BY <1>1 DEF Init
<1>3. /\ 0 \in 0 .. MaxCreates /\ 0 \in 0 .. MaxDeletes
      /\ 0 \in 0 .. MaxFaults /\ 0 \in 0 .. MaxDeaths
  BY DomainBounds
<1>4. used \in [creates : 0 .. MaxCreates, deletes : 0 .. MaxDeletes,
               faults : 0 .. MaxFaults, deaths : 0 .. MaxDeaths]
  BY <1>3 DEF Init
<1> QED  BY <1>2, <1>4 DEF Init, TypeInv

(***************************************************************************)
(* Only known parts exist, and every invocation works on parts of its      *)
(* phase, whatever fails and however creations and deletions interleave.   *)
(***************************************************************************)
THEOREM TypeCorrect == Spec => []TypeOK
<1>1. Init => TypeInv
  BY InitTypes
<1>2. TypeInv /\ [Next]_vars => TypeInv'
  BY TypeStep
<1>3. TypeInv => TypeOK
  <2> SUFFICES ASSUME TypeInv  PROVE TypeOK
    OBVIOUS
  <2>1. \A s \in Seq(Everything) : ToSet(s) \subseteq Everything
    BY ElementOfSeq, LenProperties DEF ToSet
  <2>2. ASSUME NEW w \in Workers
        PROVE  /\ job[w].pc \in Phases \cup {"idle", "configure"}
               /\ ToSet(job[w].todo) \subseteq Everything
               /\ job[w].tasks \subseteq Tasks
               /\ job[w].pc \in {"stage", "erase"} => job[w].todo # <<>>
               /\ job[w].err \in BOOLEAN
    BY <2>1, JobFacts DEF TypeInv
  <2>3. /\ used.creates <= MaxCreates /\ used.deletes <= MaxDeletes
        /\ used.faults <= MaxFaults /\ used.deaths <= MaxDeaths
    BY DomainBounds DEF TypeInv
  <2> QED  BY <2>2, <2>3 DEF TypeInv, TypeOK
<1> QED  BY <1>1, <1>2, <1>3, PTL DEF Spec

(***************************************************************************)
(* A domain is there or it is not, but for what was passed over, for any   *)
(* object types, business objects and numbers of faults, as long as one    *)
(* creation or deletion follows the other and none is cut short while it   *)
(* takes the store away.  Creations may fail, and be cut short, anywhere.  *)
(***************************************************************************)
THEOREM DomainsAreWhole ==
    ASSUME NEW w, Workers = {w}, "erase" \notin MayDie
    PROVE  Spec => []AllOrNothing
<1>1. Init => IInv
  <2> SUFFICES ASSUME Init  PROVE IInv
    OBVIOUS
  <2>1. TypeInv
    BY InitTypes
  <2>2. JobOK(job[w])
    BY DEF Init, JobOK, Idle, InReach, Left
  <2> QED  BY <2>1, <2>2 DEF IInv
<1>2. IInv /\ [Next]_vars => IInv'
  <2> SUFFICES ASSUME IInv, [Next]_vars  PROVE IInv'
    OBVIOUS
  <2>1. TypeInv'
    BY TypeStep DEF IInv
  <2>2. CASE UNCHANGED vars
    <3>1. JobOK(job[w])'
      BY <2>2 DEF IInv, vars, JobOK, InReach, Left, Whole, StageOK, MapsOK, TasksOK, OldM, After
    <3> QED  BY <2>1, <3>1 DEF IInv
  <2>3. CASE Next
    <3> SUFFICES JobOK(job[w])'
      BY <2>1 DEF IInv
    <3>1. w \in Workers
      OBVIOUS
    <3>2. \/ Create(w) \/ SaveConfig(w) \/ SaveConfigFails(w) \/ Stage(w) \/ StageFails(w)
          \/ Map(w) \/ MapFails(w) \/ AdminsFail(w) \/ RuleIsRefused(w)
          \/ \E p \in Tasks : Task(w, p) \/ TaskFails(w, p)
          \/ Settle(w) \/ Undo(w) \/ UndoFails(w) \/ UndoDomain(w)
          \/ Delete(w) \/ \E p \in Around : Clear(w, p) \/ ClearFails(w, p)
          \/ StartErasing(w) \/ ListFails(w) \/ Erase(w) \/ EraseFails(w)
          \/ Die(w)
      BY <2>3 DEF Next
    <3>3. CASE Create(w) \/ SaveConfig(w) \/ SaveConfigFails(w) \/ Stage(w) \/ StageFails(w)
      BY <3>1, <3>3, CreateOK, SaveConfigOK, SaveConfigFailsOK, StageOfOK, StageFailsOK
    <3>4. CASE Map(w) \/ MapFails(w) \/ AdminsFail(w) \/ RuleIsRefused(w) \/ Settle(w)
      BY <3>1, <3>4, MapOK, MapFailsOK, AdminsFailOK, RuleIsRefusedOK, SettleOK
    <3>5. ASSUME NEW p \in Tasks, Task(w, p) \/ TaskFails(w, p)  PROVE JobOK(job[w])'
      BY <3>1, <3>5, TaskOK, TaskFailsOK
    <3>6. CASE Undo(w) \/ UndoFails(w) \/ UndoDomain(w) \/ Delete(w)
      BY <3>1, <3>6, UndoOK, UndoDomainOK, DeleteOK
    <3>7. ASSUME NEW p \in Around, Clear(w, p) \/ ClearFails(w, p)  PROVE JobOK(job[w])'
      BY <3>1, <3>7, ClearOK
    <3>8. CASE StartErasing(w) \/ ListFails(w) \/ Erase(w) \/ EraseFails(w) \/ Die(w)
      BY <3>1, <3>8, StartErasingOK, ListFailsOK, EraseOK, DieOK
    <3> QED  BY <3>2, <3>3, <3>4, <3>5, <3>6, <3>7, <3>8
  <2> QED  BY <2>2, <2>3
<1>3. IInv => AllOrNothing
  <2> SUFFICES ASSUME IInv, Quiet  PROVE /\ Config \notin there => there \cap StoreParts \subseteq slips
                                         /\ made /\ M \notin slips => Whole
    BY DEF AllOrNothing, M, Whole
  <2>1. JobOK(job[w]) /\ job[w].pc = "idle"
    BY DEF IInv, Quiet, At
  <2> QED  BY <2>1 DEF JobOK, Left
<1> QED  BY <1>1, <1>2, <1>3, PTL DEF Spec
=============================================================================
