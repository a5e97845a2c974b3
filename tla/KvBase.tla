------------------------------- MODULE KvBase -------------------------------
(***************************************************************************)
(* What the key-value store's promise (KvMap) and its implementation       *)
(* (KvStore) have in common: the parameters, the hash, the answers.        *)
(***************************************************************************)
EXTENDS Integers

CONSTANTS Tasks,     \* task_structs
          Tables,    \* kv_store arrays that copy_process may allocate
          Keys,      \* keys passed to the calls
          Values,    \* values passed to write_kv
          NBuckets,  \* chains of a table, 1024 in the code
          NoTable,   \* the table of a task_struct that is not in use
          NoTask,    \* the holder of a free spinlock
          InitTask,  \* the first task with a table (pid 1)
          InitTable  \* and its table

ASSUME KvAssumption ==
    /\ Keys \subseteq Int
    /\ Values \subseteq Int
    /\ NBuckets \in Nat \ {0}
    /\ NoTable \notin Tables
    /\ NoTask \notin Tasks
    /\ InitTask \in Tasks
    /\ InitTable \in Tables

\* k & 0x3FF on a two's complement int is the remainder modulo 2^10: it is
\* never negative, also for a negative key.
Hash(k) == k % NBuckets

Buckets == 0 .. (NBuckets - 1)

\* read_kv's answers for a key that is not stored, and write_kv's error.
ABSENT == -2
EMPTY  == -3
ENOMEM == -12
=============================================================================
