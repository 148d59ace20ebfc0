---------------------------- MODULE UuidPartitions ----------------------------
(***************************************************************************)
(* How the tasks that go over all profiles (rule-based identity resolution *)
(* and the rebuild of the caches) divide them: the space of version 4      *)
(* UUIDs is cut into 2^numBits closed intervals by the high bits of the    *)
(* first word, and a task reads the connect ids BETWEEN its two bounds.    *)
(* A bound is a first word and the rest of the UUID, of which the version  *)
(* and variant bits fix the smallest and the largest.                      *)
(***************************************************************************)
EXTENDS Integers

CONSTANTS
    Words,     \* 2^32, the number of first words
    Parts,     \* 2^numBits, the number of intervals
    MaxRest    \* the largest rest of a version 4 UUID; the smallest is 0

Shifted == Words \div Parts     \* 2^(32 - numBits), what << shift multiplies by

\* numBits is between 0 and 31, so that Parts divides Words.
PartsDivide ==
    /\ Words \in Nat \ {0} /\ Parts \in Nat \ {0} /\ MaxRest \in Nat
    /\ Shifted \in Nat \ {0}
    /\ Words = Parts * Shifted

Uuids == [word : 0 .. Words - 1, rest : 0 .. MaxRest]

u \preceq v == u.word < v.word \/ (u.word = v.word /\ u.rest <= v.rest)

\* (value & mask) << shift, in 32 bits.
HighBits(i) == ((i % Parts) * Shifted) % Words

\* createUuid4Partition
Lower(i) == [word |-> HighBits(i), rest |-> 0]
Upper(i) == [word |-> HighBits(i) + (Shifted - 1), rest |-> MaxRest]

\* profilePartitionSql
Between(u, i) == Lower(i) \preceq u /\ u \preceq Upper(i)
=============================================================================
