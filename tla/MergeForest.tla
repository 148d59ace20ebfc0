----------------------------- MODULE MergeForest -----------------------------
(***************************************************************************)
(* What merging, unmerging and deleting profiles promises.  The ids of one *)
(* domain form a forest: the profile an id was merged into is its parent,  *)
(* and a profile_id belongs to the profile at the root.  Unmerging an id   *)
(* cuts it off with everything below it, whatever was merged and unmerged  *)
(* before; deleting a profile deletes the whole tree.                      *)
(***************************************************************************)
EXTENDS Naturals

CONSTANTS ProfileIds, Ids, NoId

VARIABLES
    parent,   \* id -> the id it is merged into, or NoId
    born,     \* profile_id -> the id it was given, or NoId
    owner     \* profile_id -> the profile it is part of, or NoId

vars == <<parent, born, owner>>

\* Sets of ids that hold the parents of their members.
Upward(par) == {S \in SUBSET Ids : \A i \in S : par[i] # NoId => par[i] \in S}

\* The root of the tree that holds an id: of the ids above it, the one without a parent.
RootIn(par) ==
    LET upward == Upward(par)
    IN  [i \in Ids |-> CHOOSE r \in Ids : par[r] = NoId /\ \A S \in upward : i \in S => r \in S]

\* Every profile_id belongs to the root of the tree of its id.
Settle(par, ids) ==
    LET root == RootIn(par)
    IN  /\ born'   = ids
        /\ parent' = par
        /\ owner'  = [p \in ProfileIds |-> IF ids[p] = NoId THEN NoId ELSE root[ids[p]]]

Owners == {owner[p] : p \in {q \in ProfileIds : owner[q] # NoId}}
Unborn == {p \in ProfileIds : born[p] = NoId}
Born   == {born[p] : p \in ProfileIds \ Unborn}

Init ==
    /\ parent = [i \in Ids |-> NoId]
    /\ born   = [p \in ProfileIds |-> NoId]
    /\ owner  = [p \in ProfileIds |-> NoId]

\* A new profile_id gets an id of its own, at once merged into m unless m = NoId.
Create(p, i, m) ==
    /\ parent[i] = NoId
    /\ Settle([parent EXCEPT ![i] = m], [born EXCEPT ![p] = i])

Merge(s, t) ==
    /\ s # t
    /\ Settle([parent EXCEPT ![s] = t], born)

Unmerge(i) ==
    /\ parent[i] # NoId
    /\ Settle([parent EXCEPT ![i] = NoId], born)

Delete(r) == Settle(parent, [p \in ProfileIds |-> IF owner[p] = r THEN NoId ELSE born[p]])

Next ==
    \/ \E p \in Unborn, i \in Ids \ Born, m \in Owners \cup {NoId} : Create(p, i, m)
    \/ \E s, t \in Owners : Merge(s, t)
    \/ \E i \in Born : Unmerge(i)
    \/ \E r \in Owners : Delete(r)

Spec == Init /\ [][Next]_vars
=============================================================================
