--------------------------- MODULE KvRefinement ---------------------------
(***************************************************************************)
(* KvStore implements KvMap: the chains of a table are read as one map,    *)
(* and a call takes effect in its critical section.                        *)
(***************************************************************************)
EXTENDS KvStore

\* The value read_kv's walk would find for k in a chain that has k.
LookUp(chain, k) ==
    chain[CHOOSE i \in DOMAIN chain : FirstWith(chain, k, i)].value

StoredKeys(tb) == {k \in Keys : HasKey(kv_store[tb][Hash(k)], k)}

MapOf(tb) == [k \in StoredKeys(tb) |-> LookUp(kv_store[tb][Hash(k)], k)]

Writing == {"w_spin", "w_scan", "w_update", "w_alloc", "w_insert"}

\* The call of a task at p, with arguments a and result r.
CallRec(p, a, r) ==
    [st  |-> CASE p = "idle" -> "idle"
               [] p = "unlock" -> "done"
               [] OTHER -> "called",
     op  |-> CASE p \in {"idle", "unlock"} -> "none"
               [] p \in Writing -> "write"
               [] OTHER -> "read",
     key |-> IF p \in {"idle", "unlock"} THEN 0 ELSE a.key,
     val |-> IF p \in {"idle", "unlock"} THEN 0 ELSE a.val,
     ret |-> IF p = "unlock" THEN r ELSE 0]

\* What the chains and the program counters stand for in KvMap.
AbsStore == [tb \in Tables |-> MapOf(tb)]
AbsCall == [t \in Tasks |-> CallRec(pc[t], arg[t], ret[t])]

Map == INSTANCE KvMap WITH store <- AbsStore, call <- AbsCall

\* Linearizability of write_kv and read_kv: whatever the interleaving of the
\* threads that share a table, every call behaves as one atomic operation on
\* its process's map, a failed write changes nothing, a read returns the last
\* value written, a new thread sees its process's map and a new process starts
\* with an empty map that no other process can reach.
ImplementsMap == Map!MapSpec
=============================================================================
