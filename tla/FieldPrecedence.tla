--------------------------- MODULE FieldPrecedence ---------------------------
(***************************************************************************)
(* Which object a profile takes a field from.  The search row of a profile *)
(* keeps with the value of a field the type and the time of the object it  *)
(* came from.  Puts and merges replace the three when the SQL function of  *)
(* the domain says so; an unmerge builds both rows anew from the objects,  *)
(* with a sort in Go.  One field stands for all: no statement looks at     *)
(* another one.  Each action is a transaction that was committed.          *)
(***************************************************************************)
EXTENDS Integers, Sequences

CONSTANTS
    ConnectIds,     \* connect ids
    Keys, TypeOf,   \* objects, by type, profile_id and unique key, and their types
    Types, NoType,  \* object types, NULL in the type's column
    Priority,       \* ObjectTypePriority of the domain
    Values, Blank   \* values of the field, the empty string among them

Never    == -1      \* NULL in the column of the time
ZeroTime == 0       \* Go's zero time
Times    == Nat \ {0}

\* An option of the domain; the two definitions of a priority take the first place
\* of a type in it, which is the only one.
ListAssumption ==
    /\ Priority \in Seq(Types)
    /\ \A i, j \in DOMAIN Priority : Priority[i] = Priority[j] => i = j
    /\ TypeOf \in [Keys -> Types] /\ NoType \notin Types
    /\ Blank \in Values

\* An object as it is put: ts is its last_updated or else the time of the put.
FieldEntries == {e \in [key : Keys, type : Types, ts : Times, value : Values] :
               e.type = TypeOf[e.key]}

VARIABLES
    cell,      \* the three columns of each search row
    held,      \* the objects of each profile, as they were put last
    seen,      \* history: every value put into the profile by one of its objects
    rebuilt    \* history: the profiles with a row built by an unmerge in them

fieldVars == <<cell, held, seen, rebuilt>>

NoCell  == [type |-> NoType, ts |-> Never, value |-> Blank]
Cell(e) == [type |-> e.type, ts |-> e.ts, value |-> e.value]
Filled(entries)   == {e \in entries : e.value # Blank}
Of(keys, entries) == {e \in entries : e.key \in keys}
----------------------------------------------------------------------------
Listed(t) == \E i \in DOMAIN Priority : Priority[i] = t
Place(t)  == CHOOSE i \in DOMAIN Priority : Priority[i] = t

\* createObjectTypePrioFunctionSql: 1, 2, ... and 0 for other types and for NULL.
Prio(t) == IF Listed(t) THEN Place(t) ELSE 0

\* createShouldUpdateFunctionSql; a comparison with NULL is not true.
ShouldUpdate(old, new) ==
    \/ Prio(old.type) < Prio(new.type)
    \/ /\ Prio(old.type) = Prio(new.type)
       /\ old.ts = Never \/ (new.ts # Never /\ old.ts <= new.ts)

\* The CASE of each of the three columns.
Taken(old, new) == IF ShouldUpdate(old, new) THEN new ELSE old

\* findPriority: 0, 1, ... and the length of the list for other types.
FindPriority(t) == IF Listed(t) THEN Place(t) - 1 ELSE Len(Priority)

\* sortByPriorityTimestamp: d comes before e.
Before(d, e) ==
    \/ FindPriority(d.type) > FindPriority(e.type)
    \/ FindPriority(d.type) = FindPriority(e.type) /\ d.ts < e.ts

\* buildProfileFromInteractions: the last object with a value wins; the sort leaves
\* open which of those that are equal it is.  The sort needs the last_updated of
\* both, which an object put without one does not have: here every object has one.
LastWritten(entries) ==
    {e \in Filled(entries) : \A d \in Filled(entries) : ~Before(e, d)}

\* buildSearchProfileInsertRowFromProfileSql: times are stored by "_profile.<field>"
\* and looked up by "<field>".
Rebuilds(entries) ==
    IF Filled(entries) = {} THEN {NoCell}
    ELSE {[Cell(e) EXCEPT !.ts = ZeroTime] : e \in LastWritten(entries)}
----------------------------------------------------------------------------
FieldInit ==
    /\ cell = [c \in ConnectIds |-> NoCell]
    /\ held = [c \in ConnectIds |-> {}]
    /\ seen = [c \in ConnectIds |-> {}]
    /\ rebuilt = {}

(* InsertProfileObject: the object replaces its earlier version, an empty  *)
(* value leaves the row as it is.                                          *)
PutField(c, e) ==
    /\ \A d \in ConnectIds \ {c} : Of({e.key}, held[d]) = {}
    /\ held' = [held EXCEPT ![c] = (held[c] \ Of({e.key}, held[c])) \cup {e}]
    /\ cell' = [cell EXCEPT ![c] = IF e.value = Blank THEN cell[c] ELSE Taken(cell[c], Cell(e))]
    /\ seen' = [seen EXCEPT ![c] = seen[c] \cup Filled({e})]
    /\ UNCHANGED rebuilt

(* MergeProfiles: b into a; the row of b is deleted.                       *)
MergeField(a, b) ==
    /\ a # b
    /\ cell' = [cell EXCEPT ![a] = Taken(cell[a], cell[b]), ![b] = NoCell]
    /\ held' = [held EXCEPT ![a] = held[a] \cup held[b], ![b] = {}]
    /\ seen' = [seen EXCEPT ![a] = seen[a] \cup seen[b], ![b] = {}]
    /\ rebuilt' = (rebuilt \ {b}) \cup (IF b \in rebuilt THEN {a} ELSE {})

(* UnmergeProfiles: the objects of b leave a, both rows are built anew.    *)
UnmergeField(a, b, keys) ==
    LET stay == held[a] \ Of(keys, held[a])
        go   == Of(keys, held[a])
    IN  /\ a # b
        /\ held[b] = {} /\ seen[b] = {}
        /\ \E x \in Rebuilds(stay), y \in Rebuilds(go) :
             cell' = [cell EXCEPT ![a] = x, ![b] = y]
        /\ held' = [held EXCEPT ![a] = stay, ![b] = go]
        /\ seen' = [seen EXCEPT ![a] = seen[a] \ Of(keys, seen[a]), ![b] = Of(keys, seen[a])]
        /\ rebuilt' = rebuilt \cup {a, b}

FieldNext ==
    \/ \E c \in ConnectIds, e \in FieldEntries : PutField(c, e)
    \/ \E a, b \in ConnectIds : MergeField(a, b) \/ \E keys \in SUBSET Keys : UnmergeField(a, b, keys)

FieldSpec == FieldInit /\ [][FieldNext]_fieldVars
----------------------------------------------------------------------------
FieldTypeOK ==
    /\ cell \in [ConnectIds -> [type : Types \cup {NoType}, ts : Nat \cup {Never}, value : Values]]
    /\ held \in [ConnectIds -> SUBSET FieldEntries]
    /\ seen \in [ConnectIds -> SUBSET FieldEntries]
    /\ rebuilt \in SUBSET ConnectIds

(* A row shows a value that an object of its own profile was put with, with *)
(* the type of that object: no merge or unmerge leaves the value of an     *)
(* object that is in another profile now.                                  *)
RowShowsOwn ==
    \A c \in ConnectIds :
      \/ cell[c] = NoCell
      \/ \E e \in seen[c] : cell[c].type = e.type /\ cell[c].value = e.value

(* As long as it has not been built anew, a row shows the value of the     *)
(* highest priority and then the latest time among all that were put into  *)
(* the profile, whatever the order of puts and merges.                     *)
RowShowsBest ==
    \A c \in ConnectIds \ rebuilt :
      IF seen[c] = {} THEN cell[c] = NoCell
      ELSE /\ \E e \in seen[c] : cell[c] = Cell(e)
           /\ \A e \in seen[c] : ShouldUpdate(Cell(e), cell[c])
=============================================================================
