------------------------------ MODULE KvStore ------------------------------
(***************************************************************************)
(* The per-process key-value store: kernel/kv_store.c, and the lines of    *)
(* copy_process (kernel/fork.c) that give a task its table.                *)
(*                                                                         *)
(* A table is NBuckets chains, each under its own spinlock.  A call is     *)
(* split at every point where another CPU may act: taking the lock, the    *)
(* walk of the chain, the store into the found node, kmalloc, the insert   *)
(* at the head, and the unlock that precedes the return.                   *)
(***************************************************************************)
EXTENDS KvBase, Sequences

VARIABLES kv_store,       \* kv_store[tb][b]: chain b of table tb, head first
          kv_store_lock,  \* kv_store_lock[tb][b]: the task holding the lock
          owner,          \* owner[t]: the table task t's pointers name
          used,           \* tables kmalloc has returned so far
          pc,             \* where each task is
          arg,            \* arg[t]: k and v of its call
          ret             \* ret[t]: the value its call returns

vars == <<kv_store, kv_store_lock, owner, used, pc, arg, ret>>

Node == [key : Keys, value : Values]
NoChain == [b \in Buckets |-> << >>]
NoHolder == [b \in Buckets |-> NoTask]

Init ==
    /\ kv_store = [tb \in Tables |-> NoChain]
    /\ kv_store_lock = [tb \in Tables |-> NoHolder]
    /\ owner = [t \in Tasks |-> IF t = InitTask THEN InitTable ELSE NoTable]
    /\ used = {InitTable}
    /\ pc = [t \in Tasks |-> "idle"]
    /\ arg = [t \in Tasks |-> [key |-> 0, val |-> 0]]
    /\ ret = [t \in Tasks |-> 0]

Live(t) == owner[t] # NoTable
Bucket(t) == Hash(arg[t].key)
Chain(t) == kv_store[owner[t]][Bucket(t)]

Goto(t, from, to) == pc[t] = from /\ pc' = [pc EXCEPT ![t] = to]

\* Leave the body of a call with result r; the unlock comes next.
Leave(t, from, r) == Goto(t, from, "unlock") /\ ret' = [ret EXCEPT ![t] = r]

----------------------------------------------------------------------------
\* The two calls.

InvokeWrite(t, k, v) ==
    /\ Live(t)
    /\ Goto(t, "idle", "w_spin")
    /\ arg' = [arg EXCEPT ![t] = [key |-> k, val |-> v]]
    /\ UNCHANGED <<kv_store, kv_store_lock, owner, used, ret>>

InvokeRead(t, k) ==
    /\ Live(t)
    /\ Goto(t, "idle", "r_spin")
    /\ arg' = [arg EXCEPT ![t] = [key |-> k, val |-> 0]]
    /\ UNCHANGED <<kv_store, kv_store_lock, owner, used, ret>>

\* Mutant: the lock is taken without waiting for its holder.
SpinLock_NoWait(t, from, to) ==
    /\ Goto(t, from, to)
    /\ kv_store_lock' = [kv_store_lock EXCEPT ![owner[t]][Bucket(t)] = t]
    /\ UNCHANGED <<kv_store, owner, used, arg, ret>>

\* spin_lock(&current->kv_store_lock[hash])
SpinLock(t, from, to) ==
    /\ Goto(t, from, to)
    /\ kv_store_lock[owner[t]][Bucket(t)] = NoTask
    /\ kv_store_lock' = [kv_store_lock EXCEPT ![owner[t]][Bucket(t)] = t]
    /\ UNCHANGED <<kv_store, owner, used, arg, ret>>

WriteLock(t) == SpinLock(t, "w_spin", "w_scan")
ReadLock(t) == SpinLock(t, "r_spin", "r_check")

\* hlist_for_each_entry stops at the first node with the key.
FirstWith(chain, k, i) ==
    /\ i \in DOMAIN chain
    /\ chain[i].key = k
    /\ \A j \in 1 .. (i - 1) : chain[j].key # k

HasKey(chain, k) == \E i \in DOMAIN chain : chain[i].key = k

\* Mutant: the walk looks at the head of the chain only.
WriteScan_HeadOnly(t) ==
    /\ pc[t] = "w_scan"
    /\ pc' = [pc EXCEPT ![t] = IF Chain(t) # << >> /\ Head(Chain(t)).key = arg[t].key
                               THEN "w_update" ELSE "w_alloc"]
    /\ UNCHANGED <<kv_store, kv_store_lock, owner, used, arg, ret>>

WriteScan(t) ==
    /\ pc[t] = "w_scan"
    /\ pc' = [pc EXCEPT ![t] = IF HasKey(Chain(t), arg[t].key)
                               THEN "w_update" ELSE "w_alloc"]
    /\ UNCHANGED <<kv_store, kv_store_lock, owner, used, arg, ret>>

\* new_data->value = v on the node the walk stopped at.
WriteUpdate(t) ==
    /\ Leave(t, "w_update", 0)
    /\ \E i \in DOMAIN Chain(t) :
         /\ FirstWith(Chain(t), arg[t].key, i)
         /\ kv_store' = [kv_store EXCEPT ![owner[t]][Bucket(t)][i].value = arg[t].val]
    /\ UNCHANGED <<kv_store_lock, owner, used, arg>>

\* kmalloc(GFP_KERNEL) with the lock held: it may sleep, and it may fail.
WriteAlloc(t) ==
    /\ Goto(t, "w_alloc", "w_insert")
    /\ UNCHANGED <<kv_store, kv_store_lock, owner, used, arg, ret>>

\* Mutant: the error path returns without spin_unlock.
WriteAllocFails_KeepsLock(t) ==
    /\ Goto(t, "w_alloc", "idle")
    /\ UNCHANGED <<kv_store, kv_store_lock, owner, used, arg, ret>>

WriteAllocFails(t) ==
    /\ Leave(t, "w_alloc", ENOMEM)
    /\ UNCHANGED <<kv_store, kv_store_lock, owner, used, arg>>

\* hlist_add_head
WriteInsert(t) ==
    /\ Leave(t, "w_insert", 0)
    /\ kv_store' = [kv_store EXCEPT ![owner[t]][Bucket(t)] =
                      <<[key |-> arg[t].key, value |-> arg[t].val]>> \o @]
    /\ UNCHANGED <<kv_store_lock, owner, used, arg>>

\* hlist_empty, answered before the walk.
ReadCheck(t) ==
    /\ pc[t] = "r_check"
    /\ IF Chain(t) = << >>
       THEN Leave(t, "r_check", EMPTY)
       ELSE Goto(t, "r_check", "r_scan") /\ UNCHANGED ret
    /\ UNCHANGED <<kv_store, kv_store_lock, owner, used, arg>>

ReadScan(t) ==
    /\ pc[t] = "r_scan"
    /\ \/ \E i \in DOMAIN Chain(t) :
            /\ FirstWith(Chain(t), arg[t].key, i)
            /\ Leave(t, "r_scan", Chain(t)[i].value)
       \/ /\ ~HasKey(Chain(t), arg[t].key)
          /\ Leave(t, "r_scan", ABSENT)
    /\ UNCHANGED <<kv_store, kv_store_lock, owner, used, arg>>

\* spin_unlock and the return to user mode.  No other task can see arg and
\* ret; they are reset so that equal states are one state.
Unlock(t) ==
    /\ Goto(t, "unlock", "idle")
    /\ kv_store_lock' = [kv_store_lock EXCEPT ![owner[t]][Bucket(t)] = NoTask]
    /\ arg' = [arg EXCEPT ![t] = [key |-> 0, val |-> 0]]
    /\ ret' = [ret EXCEPT ![t] = 0]
    /\ UNCHANGED <<kv_store, owner, used>>

----------------------------------------------------------------------------
\* Tasks come and go.

\* copy_process with CLONE_THREAD: the child takes the caller's pointers.
CloneThread(p, c) ==
    /\ Live(p) /\ ~Live(c) /\ pc[p] = "idle"
    /\ owner' = [owner EXCEPT ![c] = owner[p]]
    /\ UNCHANGED <<kv_store, kv_store_lock, used, pc, arg, ret>>

\* copy_process without it: two new arrays, every lock and chain head
\* initialised before the child can run.
CloneProcess(p, c) ==
    /\ Live(p) /\ ~Live(c) /\ pc[p] = "idle"
    /\ \E tb \in Tables \ used :
         /\ owner' = [owner EXCEPT ![c] = tb]
         /\ used' = used \cup {tb}
         /\ kv_store' = [kv_store EXCEPT ![tb] = NoChain]
         /\ kv_store_lock' = [kv_store_lock EXCEPT ![tb] = NoHolder]
    /\ UNCHANGED <<pc, arg, ret>>

\* A task ends between calls.  free_task frees the task_struct and leaves
\* the table allocated, so used never shrinks.  The first task never ends.
Exit(t) ==
    /\ Live(t) /\ t # InitTask /\ pc[t] = "idle"
    /\ owner' = [owner EXCEPT ![t] = NoTable]
    /\ UNCHANGED <<kv_store, kv_store_lock, used, pc, arg, ret>>

Step(t) ==
    \/ WriteLock(t) \/ WriteScan(t) \/ WriteUpdate(t) \/ WriteAlloc(t)
    \/ WriteAllocFails(t) \/ WriteInsert(t)
    \/ ReadLock(t) \/ ReadCheck(t) \/ ReadScan(t) \/ Unlock(t)

Next ==
    \E t \in Tasks :
        \/ \E k \in Keys, v \in Values : InvokeWrite(t, k, v)
        \/ \E k \in Keys : InvokeRead(t, k)
        \/ Step(t)
        \/ \E c \in Tasks : CloneThread(t, c) \/ CloneProcess(t, c)
        \/ Exit(t)

Spec == Init /\ [][Next]_vars

----------------------------------------------------------------------------
\* Properties.

PCs == {"idle", "w_spin", "w_scan", "w_update", "w_alloc", "w_insert",
        "r_spin", "r_check", "r_scan", "unlock"}

TableTypes ==
    /\ kv_store \in [Tables -> [Buckets -> Seq(Node)]]
    /\ kv_store_lock \in [Tables -> [Buckets -> Tasks \cup {NoTask}]]

TaskTypes ==
    /\ owner \in [Tasks -> Tables \cup {NoTable}]
    /\ used \in SUBSET Tables
    /\ pc \in [Tasks -> PCs]
    /\ arg \in [Tasks -> [key : Int, val : Int]]
    /\ ret \in [Tasks -> Int]

\* Every variable stays in its type: chains hold nodes that write_kv filled,
\* locks have tasks as holders.
TypeOK == TableTypes /\ TaskTypes

InCritical(t) == pc[t] \in PCs \ {"idle", "w_spin", "r_spin"}

\* The lock discipline of write_kv and read_kv: a bucket's spinlock is held by
\* exactly the task that is between its spin_lock and spin_unlock on it, so on
\* every path, the error path included, each lock is released once and no two
\* tasks walk or change one chain at the same time.
LockDiscipline ==
    \A tb \in Tables, b \in Buckets, t \in Tasks :
        kv_store_lock[tb][b] = t <=>
            /\ InCritical(t)
            /\ owner[t] = tb
            /\ Bucket(t) = b

\* A chain never holds two nodes of one key (the walk and the insert of
\* write_kv are one critical section), and every node is in the chain its key
\* hashes to, so the walk of read_kv finds what write_kv stored.
ChainsWellFormed ==
    \A tb \in Tables, b \in Buckets :
        LET chain == kv_store[tb][b]
        IN  /\ \A i, j \in DOMAIN chain : chain[i].key = chain[j].key => i = j
            /\ \A i \in DOMAIN chain : Hash(chain[i].key) = b

\* What a task in a call relies on: its table is allocated and stays its own,
\* its arguments are those it was called with.
CallsOK ==
    /\ \A t \in Tasks : Live(t) => owner[t] \in used
    /\ \A t \in Tasks : pc[t] # "idle" => Live(t) /\ arg[t].key \in Keys
    /\ \A t \in Tasks : pc[t] \in {"w_spin", "w_scan", "w_update", "w_alloc", "w_insert"}
                            => arg[t].val \in Values

\* What a call saw of its chain still holds when it is used, a sleep in kmalloc
\* included: the key is still absent when the new node is inserted, the node is
\* still there when its value is overwritten, and the chain that read_kv found
\* not empty is not empty when it is walked.
ScanStillValid ==
    \A t \in Tasks :
        /\ pc[t] \in {"w_alloc", "w_insert"} => ~HasKey(Chain(t), arg[t].key)
        /\ pc[t] = "w_update" => HasKey(Chain(t), arg[t].key)
        /\ pc[t] = "r_scan" => Chain(t) # << >>

\* The inductive invariant.
IInv == TypeOK /\ CallsOK /\ LockDiscipline /\ ScanStillValid /\ ChainsWellFormed
=============================================================================
