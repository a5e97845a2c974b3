--------------------------- MODULE KvStoreProofs ---------------------------
(***************************************************************************)
(* Proofs about KvStore for any number of tasks, tables, keys and buckets. *)
(***************************************************************************)
EXTENDS KvStore, TLAPS

\* The SMT solver gets a minute for a leaf; a leaf that is better left to Zenon
\* says so.
USE SMTT(60)

(* A key's bucket is a bucket, for negative keys too. *)
LEMMA HashInBuckets == \A k \in Int : Hash(k) \in Buckets
  BY KvAssumption DEF Hash, Buckets

(* A new node in front of a chain without its key keeps the keys distinct. *)
LEMMA InsertKeepsDistinct ==
  ASSUME NEW chain \in Seq(Node), NEW n \in Node,
         \A i, j \in DOMAIN chain : chain[i].key = chain[j].key => i = j,
         ~HasKey(chain, n.key)
  PROVE  LET new == <<n>> \o chain
         IN  \A i, j \in DOMAIN new : new[i].key = new[j].key => i = j
<1> DEFINE new == <<n>> \o chain
<1>1. Len(new) = Len(chain) + 1 /\ DOMAIN new = 1 .. (Len(chain) + 1)
  OBVIOUS
<1>2. new[1] = n /\ \A i \in 2 .. (Len(chain) + 1) : new[i] = chain[i - 1]
  OBVIOUS
<1>3. \A i \in 2 .. (Len(chain) + 1) : i - 1 \in DOMAIN chain
  OBVIOUS
<1> QED
  BY <1>1, <1>2, <1>3 DEF HasKey

(* A task in a call has a table, a bucket and a chain. *)
LEMMA InCall ==
  ASSUME TypeOK, CallsOK, NEW t \in Tasks, pc[t] # "idle"
  PROVE  /\ owner[t] \in Tables
         /\ Bucket(t) \in Buckets
         /\ Chain(t) = kv_store[owner[t]][Bucket(t)]
         /\ Chain(t) \in Seq(Node)
         /\ arg[t].key \in Keys
<1>1. owner[t] \in Tables /\ arg[t].key \in Keys
  BY DEF TypeOK, TaskTypes, CallsOK, Live
<1>2. Bucket(t) \in Buckets
  BY <1>1, KvAssumption, HashInBuckets, ZenonT(60) DEF Bucket
<1> QED
  BY <1>1, <1>2 DEF TypeOK, TableTypes, Chain

(* Every step keeps the tables in their types. *)
LEMMA TableTypesStep == TypeOK /\ CallsOK /\ [Next]_vars => TableTypes'
<1> SUFFICES ASSUME TypeOK, CallsOK, [Next]_vars
             PROVE  TableTypes'
  OBVIOUS
<1> USE DEF TypeOK, TableTypes, Goto, Leave
<1>1. ASSUME NEW t \in Tasks, NEW k \in Keys, NEW v \in Values, InvokeWrite(t, k, v)
      PROVE  TableTypes'
  BY <1>1 DEF InvokeWrite
<1>2. ASSUME NEW t \in Tasks, NEW k \in Keys, InvokeRead(t, k)
      PROVE  TableTypes'
  BY <1>2 DEF InvokeRead
<1>3. ASSUME NEW t \in Tasks, WriteLock(t) \/ ReadLock(t)
      PROVE  TableTypes'
  <2>1. /\ kv_store' = kv_store
        /\ kv_store_lock' = [kv_store_lock EXCEPT ![owner[t]][Bucket(t)] = t]
    BY <1>3 DEF WriteLock, ReadLock, SpinLock
  <2> QED
    BY <2>1, ZenonT(60)
<1>4. ASSUME NEW t \in Tasks, WriteScan(t)
      PROVE  TableTypes'
  BY <1>4 DEF WriteScan
<1>5. ASSUME NEW t \in Tasks, WriteUpdate(t)
      PROVE  TableTypes'
  <2>1. PICK i \in DOMAIN Chain(t) :
          kv_store' = [kv_store EXCEPT ![owner[t]][Bucket(t)][i].value = arg[t].val]
    BY <1>5, ZenonT(60) DEF WriteUpdate
  <2>2. arg[t].val \in Values /\ pc[t] # "idle"
    BY <1>5 DEF WriteUpdate, CallsOK
  <2>3. [Chain(t) EXCEPT ![i].value = arg[t].val] \in Seq(Node)
    <3>1. Chain(t) \in Seq(Node)
      BY <2>2, InCall
    <3>2. Chain(t)[i] \in Node
      BY <3>1
    <3>3. [Chain(t)[i] EXCEPT !.value = arg[t].val] \in Node
      BY <2>2, <3>2, ZenonT(60) DEF Node
    <3> QED
      BY <3>1, <3>3
  <2>4. kv_store' = [kv_store EXCEPT ![owner[t]][Bucket(t)] =
                       [Chain(t) EXCEPT ![i].value = arg[t].val]]
    BY <2>1, <2>2, InCall, ZenonT(60)
  <2> QED
    BY <1>5, <2>2, <2>3, <2>4, InCall, ZenonT(60) DEF WriteUpdate
<1>6. ASSUME NEW t \in Tasks, WriteAlloc(t)
      PROVE  TableTypes'
  BY <1>6 DEF WriteAlloc
<1>7. ASSUME NEW t \in Tasks, WriteAllocFails(t)
      PROVE  TableTypes'
  BY <1>7, ZenonT(60) DEF WriteAllocFails
<1>8. ASSUME NEW t \in Tasks, WriteInsert(t)
      PROVE  TableTypes'
  <2>1. pc[t] # "idle" /\ arg[t].val \in Values
    BY <1>8 DEF WriteInsert, CallsOK
  <2>2. <<[key |-> arg[t].key, value |-> arg[t].val]>> \o Chain(t) \in Seq(Node)
    <3>1. [key |-> arg[t].key, value |-> arg[t].val] \in Node
      BY <2>1, InCall, ZenonT(60) DEF Node
    <3> QED
      BY <2>1, <3>1, InCall
  <2> QED
    BY <1>8, <2>1, <2>2, InCall DEF WriteInsert
<1>9. ASSUME NEW t \in Tasks, ReadCheck(t)
      PROVE  TableTypes'
  BY <1>9 DEF ReadCheck
<1>10. ASSUME NEW t \in Tasks, ReadScan(t)
       PROVE  TableTypes'
  BY <1>10 DEF ReadScan
<1>11. ASSUME NEW t \in Tasks, Unlock(t)
       PROVE  TableTypes'
  BY <1>11, ZenonT(60) DEF Unlock, Bucket
<1>12. ASSUME NEW t \in Tasks, NEW c \in Tasks, CloneThread(t, c)
       PROVE  TableTypes'
  BY <1>12 DEF CloneThread
<1>13. ASSUME NEW t \in Tasks, NEW c \in Tasks, CloneProcess(t, c)
       PROVE  TableTypes'
  BY <1>13 DEF CloneProcess, NoChain, NoHolder
<1>14. ASSUME NEW t \in Tasks, Exit(t)
       PROVE  TableTypes'
  BY <1>14 DEF Exit
<1>15. CASE UNCHANGED vars
  BY <1>15, ZenonT(60) DEF vars
<1> QED
  BY <1>1, <1>2, <1>3, <1>4, <1>5, <1>6, <1>7, <1>8, <1>9, <1>10, <1>11, <1>12, <1>13, <1>14, <1>15 DEF Next, Step

(* Every step keeps the tasks in their types. *)
LEMMA TaskTypesStep == TypeOK /\ CallsOK /\ [Next]_vars => TaskTypes'
<1> SUFFICES ASSUME TypeOK, CallsOK, [Next]_vars
             PROVE  TaskTypes'
  OBVIOUS
<1> USE DEF TypeOK, TaskTypes, PCs, Goto, Leave
<1>1. ASSUME NEW t \in Tasks, NEW k \in Keys, NEW v \in Values, InvokeWrite(t, k, v)
      PROVE  TaskTypes'
  BY <1>1, KvAssumption DEF InvokeWrite
<1>2. ASSUME NEW t \in Tasks, NEW k \in Keys, InvokeRead(t, k)
      PROVE  TaskTypes'
  BY <1>2, KvAssumption DEF InvokeRead
<1>3. ASSUME NEW t \in Tasks, WriteLock(t) \/ ReadLock(t)
      PROVE  TaskTypes'
  BY <1>3 DEF WriteLock, ReadLock, SpinLock
<1>4. ASSUME NEW t \in Tasks, WriteScan(t)
      PROVE  TaskTypes'
  BY <1>4 DEF WriteScan
<1>5. ASSUME NEW t \in Tasks, WriteUpdate(t)
      PROVE  TaskTypes'
  BY <1>5 DEF WriteUpdate
<1>6. ASSUME NEW t \in Tasks, WriteAlloc(t)
      PROVE  TaskTypes'
  BY <1>6 DEF WriteAlloc
<1>7. ASSUME NEW t \in Tasks, WriteAllocFails(t)
      PROVE  TaskTypes'
  BY <1>7 DEF WriteAllocFails, ENOMEM
<1>8. ASSUME NEW t \in Tasks, WriteInsert(t)
      PROVE  TaskTypes'
  BY <1>8 DEF WriteInsert
<1>9. ASSUME NEW t \in Tasks, ReadCheck(t)
      PROVE  TaskTypes'
  <2>1. pc' \in [Tasks -> PCs]
    BY <1>9, ZenonT(60) DEF ReadCheck
  <2>2. ret' \in [Tasks -> Int]
    BY <1>9 DEF ReadCheck, EMPTY
  <2> QED
    BY <1>9, <2>1, <2>2 DEF ReadCheck
<1>10. ASSUME NEW t \in Tasks, ReadScan(t)
       PROVE  TaskTypes'
  <2>1. \A i \in DOMAIN Chain(t) : Chain(t)[i].value \in Int
    <3>1. Chain(t) \in Seq(Node)
      BY <1>10, InCall DEF ReadScan
    <3>2. \A i \in DOMAIN Chain(t) : Chain(t)[i] \in Node
      BY <3>1
    <3> QED
      BY <3>2, KvAssumption, ZenonT(60) DEF Node
  <2>2. ABSENT \in Int
    BY DEF ABSENT
  <2>3. PICK r \in Int : Leave(t, "r_scan", r)
    BY <1>10, <2>1, <2>2, ZenonT(60) DEF ReadScan
  <2> QED
    BY <1>10, <2>3 DEF ReadScan
<1>11. ASSUME NEW t \in Tasks, Unlock(t)
       PROVE  TaskTypes'
  BY <1>11 DEF Unlock
<1>12. ASSUME NEW t \in Tasks, NEW c \in Tasks, CloneThread(t, c)
       PROVE  TaskTypes'
  BY <1>12 DEF CloneThread
<1>13. ASSUME NEW t \in Tasks, NEW c \in Tasks, CloneProcess(t, c)
       PROVE  TaskTypes'
  BY <1>13 DEF CloneProcess
<1>14. ASSUME NEW t \in Tasks, Exit(t)
       PROVE  TaskTypes'
  BY <1>14 DEF Exit
<1>15. CASE UNCHANGED vars
  BY <1>15, ZenonT(60) DEF vars
<1> QED
  BY <1>1, <1>2, <1>3, <1>4, <1>5, <1>6, <1>7, <1>8, <1>9, <1>10, <1>11, <1>12, <1>13, <1>14, <1>15 DEF Next, Step

(* Every step keeps the arguments and the table of a call. *)
LEMMA CallsStep == TypeOK /\ CallsOK /\ [Next]_vars => CallsOK'
<1> SUFFICES ASSUME TypeOK, CallsOK, [Next]_vars
             PROVE  CallsOK'
  OBVIOUS
<1> USE DEF TypeOK, TaskTypes, CallsOK, PCs, Live, Goto, Leave
<1>1. ASSUME NEW t \in Tasks, NEW k \in Keys, NEW v \in Values, InvokeWrite(t, k, v)
      PROVE  CallsOK'
  BY <1>1 DEF InvokeWrite
<1>2. ASSUME NEW t \in Tasks, NEW k \in Keys, InvokeRead(t, k)
      PROVE  CallsOK'
  BY <1>2 DEF InvokeRead
<1>3. ASSUME NEW t \in Tasks, WriteLock(t) \/ ReadLock(t)
      PROVE  CallsOK'
  BY <1>3 DEF WriteLock, ReadLock, SpinLock
<1>4. ASSUME NEW t \in Tasks, WriteScan(t)
      PROVE  CallsOK'
  BY <1>4 DEF WriteScan
<1>5. ASSUME NEW t \in Tasks, WriteUpdate(t)
      PROVE  CallsOK'
  BY <1>5 DEF WriteUpdate
<1>6. ASSUME NEW t \in Tasks, WriteAlloc(t)
      PROVE  CallsOK'
  BY <1>6 DEF WriteAlloc
<1>7. ASSUME NEW t \in Tasks, WriteAllocFails(t)
      PROVE  CallsOK'
  BY <1>7 DEF WriteAllocFails
<1>8. ASSUME NEW t \in Tasks, WriteInsert(t)
      PROVE  CallsOK'
  BY <1>8 DEF WriteInsert
<1>9. ASSUME NEW t \in Tasks, ReadCheck(t)
      PROVE  CallsOK'
  BY <1>9 DEF ReadCheck
<1>10. ASSUME NEW t \in Tasks, ReadScan(t)
       PROVE  CallsOK'
  BY <1>10 DEF ReadScan
<1>11. ASSUME NEW t \in Tasks, Unlock(t)
       PROVE  CallsOK'
  BY <1>11 DEF Unlock
<1>12. ASSUME NEW t \in Tasks, NEW c \in Tasks, CloneThread(t, c)
       PROVE  CallsOK'
  BY <1>12 DEF CloneThread
<1>13. ASSUME NEW t \in Tasks, NEW c \in Tasks, CloneProcess(t, c)
       PROVE  CallsOK'
  BY <1>13 DEF CloneProcess
<1>14. ASSUME NEW t \in Tasks, Exit(t)
       PROVE  CallsOK'
  BY <1>14 DEF Exit
<1>15. CASE UNCHANGED vars
  BY <1>15 DEF vars
<1> QED
  BY <1>1, <1>2, <1>3, <1>4, <1>5, <1>6, <1>7, <1>8, <1>9, <1>10, <1>11, <1>12, <1>13, <1>14, <1>15 DEF Next, Step

(* Every step keeps the lock discipline. *)
LEMMA LockStep == TypeOK /\ CallsOK /\ LockDiscipline /\ [Next]_vars => LockDiscipline'
<1> SUFFICES ASSUME TypeOK, CallsOK, LockDiscipline, [Next]_vars
             PROVE  LockDiscipline'
  OBVIOUS
<1> USE DEF LockDiscipline, InCritical, PCs, Bucket, Goto, Leave, CallsOK, Live, TypeOK, TableTypes, TaskTypes
<1>1. ASSUME NEW t \in Tasks, NEW k \in Keys, NEW v \in Values, InvokeWrite(t, k, v)
      PROVE  LockDiscipline'
  BY <1>1 DEF InvokeWrite
<1>2. ASSUME NEW t \in Tasks, NEW k \in Keys, InvokeRead(t, k)
      PROVE  LockDiscipline'
  BY <1>2 DEF InvokeRead
<1>3. ASSUME NEW t \in Tasks, WriteLock(t) \/ ReadLock(t)
      PROVE  LockDiscipline'
  <2>1. PICK to \in {"w_scan", "r_check"} :
          /\ pc[t] \in {"w_spin", "r_spin"}
          /\ pc' = [pc EXCEPT ![t] = to]
          /\ kv_store_lock[owner[t]][Bucket(t)] = NoTask
          /\ kv_store_lock' = [kv_store_lock EXCEPT ![owner[t]][Bucket(t)] = t]
          /\ UNCHANGED <<owner, arg>>
    BY <1>3 DEF WriteLock, ReadLock, SpinLock
  <2>2. owner[t] \in Tables /\ Hash(arg[t].key) \in Buckets
    BY <2>1, InCall DEF Bucket
  <2> QED
    BY <2>1, <2>2, KvAssumption
<1>4. ASSUME NEW t \in Tasks, WriteScan(t)
      PROVE  LockDiscipline'
  BY <1>4 DEF WriteScan
<1>5. ASSUME NEW t \in Tasks, WriteUpdate(t)
      PROVE  LockDiscipline'
  BY <1>5 DEF WriteUpdate
<1>6. ASSUME NEW t \in Tasks, WriteAlloc(t)
      PROVE  LockDiscipline'
  BY <1>6 DEF WriteAlloc
<1>7. ASSUME NEW t \in Tasks, WriteAllocFails(t)
      PROVE  LockDiscipline'
  BY <1>7 DEF WriteAllocFails
<1>8. ASSUME NEW t \in Tasks, WriteInsert(t)
      PROVE  LockDiscipline'
  BY <1>8 DEF WriteInsert
<1>9. ASSUME NEW t \in Tasks, ReadCheck(t)
      PROVE  LockDiscipline'
  <2>1. PICK to \in {"r_scan", "unlock"} : pc' = [pc EXCEPT ![t] = to]
    BY <1>9, ZenonT(60) DEF ReadCheck
  <2> QED
    BY <1>9, <2>1 DEF ReadCheck
<1>10. ASSUME NEW t \in Tasks, ReadScan(t)
       PROVE  LockDiscipline'
  <2>1. pc' = [pc EXCEPT ![t] = "unlock"]
    BY <1>10, ZenonT(60) DEF ReadScan
  <2> QED
    BY <1>10, <2>1 DEF ReadScan
<1>11. ASSUME NEW t \in Tasks, Unlock(t)
       PROVE  LockDiscipline'
  <2>1. owner[t] \in Tables /\ Hash(arg[t].key) \in Buckets
    BY <1>11, InCall, ZenonT(60) DEF Unlock, Bucket
  <2>2. \A u \in Tasks \ {t} : arg'[u] = arg[u] /\ pc'[u] = pc[u]
    BY <1>11 DEF Unlock
  <2>3. pc'[t] = "idle" /\ UNCHANGED owner
    BY <1>11 DEF Unlock
  <2>4. \A tb \in Tables, b \in Buckets :
          kv_store_lock'[tb][b] = IF tb = owner[t] /\ b = Bucket(t) THEN NoTask
                                  ELSE kv_store_lock[tb][b]
    BY <1>11, <2>1 DEF Unlock
  <2> SUFFICES ASSUME NEW tb \in Tables, NEW b \in Buckets, NEW u \in Tasks
               PROVE  kv_store_lock'[tb][b] = u <=>
                        (InCritical(u) /\ owner[u] = tb /\ Bucket(u) = b)'
    BY DEF LockDiscipline
  <2>5. CASE u = t
    BY <1>11, <2>3, <2>4, <2>5, KvAssumption DEF Unlock
  <2>6. CASE u # t
    <3>1. (InCritical(u) <=> InCritical(u)') /\ Bucket(u)' = Bucket(u)
      BY <2>2, <2>6, ZenonT(60)
    <3>2. (tb = owner[t] /\ b = Bucket(t)) => kv_store_lock[tb][b] = t
      <4>1. InCritical(t)
        BY <1>11 DEF Unlock
      <4> QED
        BY <4>1
    <3> QED
      BY <2>3, <2>4, <2>6, <3>1, <3>2, KvAssumption
  <2> QED
    BY <2>5, <2>6, ZenonT(60)
<1>12. ASSUME NEW t \in Tasks, NEW c \in Tasks, CloneThread(t, c)
       PROVE  LockDiscipline'
  BY <1>12 DEF CloneThread
<1>13. ASSUME NEW t \in Tasks, NEW c \in Tasks, CloneProcess(t, c)
       PROVE  LockDiscipline'
  BY <1>13, KvAssumption DEF CloneProcess, NoHolder
<1>14. ASSUME NEW t \in Tasks, Exit(t)
       PROVE  LockDiscipline'
  BY <1>14 DEF Exit
<1>15. CASE UNCHANGED vars
  BY <1>15 DEF vars
<1> QED
  BY <1>1, <1>2, <1>3, <1>4, <1>5, <1>6, <1>7, <1>8, <1>9, <1>10, <1>11, <1>12, <1>13, <1>14, <1>15, ZenonT(60) DEF Next, Step

(* Two tasks are never in the critical sections of one bucket. *)
LEMMA Exclusive ==
  ASSUME TypeOK, CallsOK, LockDiscipline, NEW t \in Tasks, NEW u \in Tasks,
         InCritical(t), InCritical(u), owner[t] = owner[u], Bucket(t) = Bucket(u)
  PROVE  t = u
<1>1. pc[t] # "idle"
  BY DEF InCritical
<1> QED
  BY <1>1, InCall DEF LockDiscipline

(* Every step keeps what the walk of a writer saw. *)
LEMMA ScanStep == TypeOK /\ CallsOK /\ LockDiscipline /\ ScanStillValid /\ [Next]_vars => ScanStillValid'
<1> SUFFICES ASSUME TypeOK, CallsOK, LockDiscipline, ScanStillValid, [Next]_vars
             PROVE  ScanStillValid'
  BY ZenonT(60)
<1>1. ASSUME NEW t \in Tasks, NEW k \in Keys, NEW v \in Values, InvokeWrite(t, k, v)
      PROVE  ScanStillValid'
  BY <1>1, ZenonT(60) DEF InvokeWrite, ScanStillValid, Goto, Leave, Chain, Bucket, CallsOK, Live, TypeOK, TaskTypes
<1>2. ASSUME NEW t \in Tasks, NEW k \in Keys, InvokeRead(t, k)
      PROVE  ScanStillValid'
  BY <1>2 DEF InvokeRead, ScanStillValid, Goto, Leave, Chain, Bucket, CallsOK, Live, TypeOK, TaskTypes
<1>3. ASSUME NEW t \in Tasks, WriteLock(t) \/ ReadLock(t)
      PROVE  ScanStillValid'
  BY <1>3, ZenonT(60) DEF WriteLock, ReadLock, SpinLock, ScanStillValid, Goto, Leave, Chain, Bucket, CallsOK, Live, TypeOK, TaskTypes
<1>4. ASSUME NEW t \in Tasks, WriteScan(t)
      PROVE  ScanStillValid'
  BY <1>4, ZenonT(60) DEF WriteScan, ScanStillValid, Goto, Leave, Chain, Bucket, CallsOK, Live, TypeOK, TaskTypes
<1>5. ASSUME NEW t \in Tasks, WriteUpdate(t)
      PROVE  ScanStillValid'
  <2>1. \A u \in Tasks \ {t} : InCritical(u) => Chain(u)' = Chain(u)
    <3> SUFFICES ASSUME NEW u \in Tasks \ {t}, InCritical(u)
                 PROVE  Chain(u)' = Chain(u)
      OBVIOUS
    <3>1. pc[t] # "idle" /\ InCritical(t) /\ pc[u] # "idle"
      BY <1>5 DEF WriteUpdate, InCritical, Leave, Goto, PCs
    <3>2. owner[u] # owner[t] \/ Bucket(u) # Bucket(t)
      BY <3>1, Exclusive, ZenonT(60)
    <3>3. \A tb \in Tables, b \in Buckets :
            tb # owner[t] \/ b # Bucket(t) => kv_store'[tb][b] = kv_store[tb][b]
      BY <1>5, InCall, <3>1 DEF WriteUpdate, TypeOK, TableTypes
    <3>4. owner'[u] = owner[u] /\ Bucket(u)' = Bucket(u)
      BY <1>5 DEF WriteUpdate, Bucket
    <3> QED
      BY <3>1, <3>2, <3>3, <3>4, InCall DEF Chain
  <2>2. \A u \in Tasks \ {t} : pc'[u] = pc[u]
    BY <1>5 DEF WriteUpdate, Leave, Goto, TypeOK, TaskTypes
  <2>3. pc'[t] = "unlock" /\ UNCHANGED arg
    BY <1>5, ZenonT(60) DEF WriteUpdate, Leave, Goto, TypeOK, TaskTypes
  <2> QED
    BY <2>1, <2>2, <2>3, ZenonT(60) DEF ScanStillValid, InCritical, PCs
<1>6. ASSUME NEW t \in Tasks, WriteAlloc(t)
      PROVE  ScanStillValid'
  BY <1>6, ZenonT(60) DEF WriteAlloc, ScanStillValid, Goto, Leave, Chain, Bucket, CallsOK, Live, TypeOK, TaskTypes
<1>7. ASSUME NEW t \in Tasks, WriteAllocFails(t)
      PROVE  ScanStillValid'
  BY <1>7, ZenonT(60) DEF WriteAllocFails, ScanStillValid, Goto, Leave, Chain, Bucket, CallsOK, Live, TypeOK, TaskTypes
<1>8. ASSUME NEW t \in Tasks, WriteInsert(t)
      PROVE  ScanStillValid'
  <2>1. \A u \in Tasks \ {t} : InCritical(u) => Chain(u)' = Chain(u)
    <3> SUFFICES ASSUME NEW u \in Tasks \ {t}, InCritical(u)
                 PROVE  Chain(u)' = Chain(u)
      OBVIOUS
    <3>1. pc[t] # "idle" /\ InCritical(t) /\ pc[u] # "idle"
      BY <1>8, ZenonT(60) DEF WriteInsert, InCritical, Leave, Goto, PCs
    <3>2. owner[u] # owner[t] \/ Bucket(u) # Bucket(t)
      BY <3>1, Exclusive
    <3>3. \A tb \in Tables, b \in Buckets :
            tb # owner[t] \/ b # Bucket(t) => kv_store'[tb][b] = kv_store[tb][b]
      BY <1>8, InCall, <3>1, ZenonT(60) DEF WriteInsert, TypeOK, TableTypes
    <3>4. owner'[u] = owner[u] /\ Bucket(u)' = Bucket(u)
      BY <1>8, ZenonT(60) DEF WriteInsert, Bucket
    <3> QED
      BY <3>1, <3>2, <3>3, <3>4, InCall DEF Chain
  <2>2. \A u \in Tasks \ {t} : pc'[u] = pc[u]
    BY <1>8, ZenonT(60) DEF WriteInsert, Leave, Goto, TypeOK, TaskTypes
  <2>3. pc'[t] = "unlock" /\ UNCHANGED arg
    BY <1>8, ZenonT(60) DEF WriteInsert, Leave, Goto, TypeOK, TaskTypes
  <2> QED
    BY <2>1, <2>2, <2>3 DEF ScanStillValid, InCritical, PCs
<1>9. ASSUME NEW t \in Tasks, ReadCheck(t)
      PROVE  ScanStillValid'
  BY <1>9 DEF ReadCheck, ScanStillValid, Goto, Leave, Chain, Bucket, CallsOK, Live, TypeOK, TaskTypes
<1>10. ASSUME NEW t \in Tasks, ReadScan(t)
       PROVE  ScanStillValid'
  BY <1>10, ZenonT(60) DEF ReadScan, ScanStillValid, Goto, Leave, Chain, Bucket, CallsOK, Live, TypeOK, TaskTypes
<1>11. ASSUME NEW t \in Tasks, Unlock(t)
       PROVE  ScanStillValid'
  BY <1>11, ZenonT(60) DEF Unlock, ScanStillValid, Goto, Leave, Chain, Bucket, CallsOK, Live, TypeOK, TaskTypes
<1>12. ASSUME NEW t \in Tasks, NEW c \in Tasks, CloneThread(t, c)
       PROVE  ScanStillValid'
  BY <1>12, ZenonT(60) DEF CloneThread, ScanStillValid, Goto, Leave, Chain, Bucket, CallsOK, Live, TypeOK, TaskTypes
<1>13. ASSUME NEW t \in Tasks, NEW c \in Tasks, CloneProcess(t, c)
       PROVE  ScanStillValid'
  BY <1>13 DEF CloneProcess, ScanStillValid, Goto, Leave, Chain, Bucket, CallsOK, Live, TypeOK, TaskTypes
<1>14. ASSUME NEW t \in Tasks, Exit(t)
       PROVE  ScanStillValid'
  BY <1>14, ZenonT(60) DEF Exit, ScanStillValid, Goto, Leave, Chain, Bucket, CallsOK, Live, TypeOK, TaskTypes
<1>15. CASE UNCHANGED vars
  BY <1>15 DEF vars, ScanStillValid, Chain, Bucket
<1> QED
  BY <1>1, <1>2, <1>3, <1>4, <1>5, <1>6, <1>7, <1>8, <1>9, <1>10, <1>11, <1>12, <1>13, <1>14, <1>15 DEF Next, Step

(* Every step keeps the chains well-formed. *)
LEMMA ChainStep == TypeOK /\ CallsOK /\ LockDiscipline /\ ScanStillValid /\ ChainsWellFormed /\ [Next]_vars => ChainsWellFormed'
<1> SUFFICES ASSUME TypeOK, CallsOK, LockDiscipline, ScanStillValid, ChainsWellFormed, [Next]_vars
             PROVE  ChainsWellFormed'
  BY ZenonT(60)
<1> USE DEF ChainsWellFormed
<1>1. ASSUME NEW t \in Tasks, NEW k \in Keys, NEW v \in Values, InvokeWrite(t, k, v)
      PROVE  ChainsWellFormed'
  BY <1>1 DEF InvokeWrite
<1>2. ASSUME NEW t \in Tasks, NEW k \in Keys, InvokeRead(t, k)
      PROVE  ChainsWellFormed'
  BY <1>2 DEF InvokeRead
<1>3. ASSUME NEW t \in Tasks, WriteLock(t) \/ ReadLock(t)
      PROVE  ChainsWellFormed'
  BY <1>3 DEF WriteLock, ReadLock, SpinLock
<1>4. ASSUME NEW t \in Tasks, WriteScan(t)
      PROVE  ChainsWellFormed'
  BY <1>4 DEF WriteScan
<1>5. ASSUME NEW t \in Tasks, WriteUpdate(t)
      PROVE  ChainsWellFormed'
  <2>1. PICK i \in DOMAIN Chain(t) :
          kv_store' = [kv_store EXCEPT ![owner[t]][Bucket(t)][i].value = arg[t].val]
    BY <1>5, ZenonT(60) DEF WriteUpdate
  <2>2. pc[t] # "idle"
    BY <1>5, ZenonT(60) DEF WriteUpdate, Leave, Goto
  <2> SUFFICES ASSUME NEW tb \in Tables, NEW b \in Buckets
               PROVE  /\ DOMAIN kv_store'[tb][b] = DOMAIN kv_store[tb][b]
                      /\ \A j \in DOMAIN kv_store[tb][b] :
                           kv_store'[tb][b][j].key = kv_store[tb][b][j].key
    OBVIOUS
  <2>3. CASE tb = owner[t] /\ b = Bucket(t)
    <3>1. Chain(t) \in Seq(Node) /\ kv_store[tb][b] = Chain(t)
      BY <2>2, <2>3, InCall
    <3>2. kv_store'[tb][b] = [Chain(t) EXCEPT ![i].value = arg[t].val]
      BY <2>1, <2>3, <3>1 DEF TypeOK, TableTypes
    <3>3. \A j \in DOMAIN Chain(t) : Chain(t)[j] \in Node
      BY <3>1
    <3>4. [Chain(t)[i] EXCEPT !.value = arg[t].val].key = Chain(t)[i].key
      BY <3>3, ZenonT(60) DEF Node
    <3> QED
      BY <3>1, <3>2, <3>4, ZenonT(60)
  <2>4. CASE ~(tb = owner[t] /\ b = Bucket(t))
    BY <2>1, <2>4 DEF TypeOK, TableTypes
  <2> QED
    BY <2>3, <2>4
<1>6. ASSUME NEW t \in Tasks, WriteAlloc(t)
      PROVE  ChainsWellFormed'
  BY <1>6 DEF WriteAlloc
<1>7. ASSUME NEW t \in Tasks, WriteAllocFails(t)
      PROVE  ChainsWellFormed'
  BY <1>7 DEF WriteAllocFails
<1>8. ASSUME NEW t \in Tasks, WriteInsert(t)
      PROVE  ChainsWellFormed'
  <2> DEFINE n == [key |-> arg[t].key, value |-> arg[t].val]
  <2>1. pc[t] = "w_insert" /\ n \in Node /\ n.key = arg[t].key
    BY <1>8, InCall, ZenonT(60) DEF WriteInsert, Leave, Goto, CallsOK, Node
  <2>2. ~HasKey(Chain(t), n.key)
    BY <2>1, ZenonT(60) DEF ScanStillValid
  <2> SUFFICES ASSUME NEW tb \in Tables, NEW b \in Buckets
               PROVE  LET chain == kv_store'[tb][b]
                      IN  /\ \A i, j \in DOMAIN chain : chain[i].key = chain[j].key => i = j
                          /\ \A i \in DOMAIN chain : Hash(chain[i].key) = b
    BY ZenonT(60)
  <2>3. CASE tb = owner[t] /\ b = Bucket(t)
    <3>1. Chain(t) \in Seq(Node) /\ kv_store[tb][b] = Chain(t)
      BY <2>1, <2>3, InCall, ZenonT(60)
    <3>2. kv_store'[tb][b] = <<n>> \o Chain(t)
      BY <1>8, <2>3, <3>1, ZenonT(60) DEF WriteInsert, TypeOK, TableTypes
    <3>3. \A i, j \in DOMAIN (<<n>> \o Chain(t)) :
            (<<n>> \o Chain(t))[i].key = (<<n>> \o Chain(t))[j].key => i = j
      BY <2>1, <2>2, <3>1, InsertKeepsDistinct
    <3>4. Hash(n.key) = b /\ \A i \in DOMAIN Chain(t) : Hash(Chain(t)[i].key) = b
      BY <2>1, <2>3, <3>1 DEF Bucket
    <3>5. \A i \in DOMAIN (<<n>> \o Chain(t)) : Hash((<<n>> \o Chain(t))[i].key) = b
      BY <2>1, <3>1, <3>4
    <3> QED
      BY <3>2, <3>3, <3>5, ZenonT(60)
  <2>4. CASE ~(tb = owner[t] /\ b = Bucket(t))
    BY <1>8, <2>4 DEF WriteInsert, TypeOK, TableTypes
  <2> QED
    BY <2>3, <2>4, ZenonT(60)
<1>9. ASSUME NEW t \in Tasks, ReadCheck(t)
      PROVE  ChainsWellFormed'
  BY <1>9 DEF ReadCheck
<1>10. ASSUME NEW t \in Tasks, ReadScan(t)
       PROVE  ChainsWellFormed'
  BY <1>10 DEF ReadScan
<1>11. ASSUME NEW t \in Tasks, Unlock(t)
       PROVE  ChainsWellFormed'
  BY <1>11 DEF Unlock
<1>12. ASSUME NEW t \in Tasks, NEW c \in Tasks, CloneThread(t, c)
       PROVE  ChainsWellFormed'
  BY <1>12 DEF CloneThread
<1>13. ASSUME NEW t \in Tasks, NEW c \in Tasks, CloneProcess(t, c)
       PROVE  ChainsWellFormed'
  BY <1>13 DEF CloneProcess, NoChain, TypeOK, TableTypes
<1>14. ASSUME NEW t \in Tasks, Exit(t)
       PROVE  ChainsWellFormed'
  BY <1>14 DEF Exit
<1>15. CASE UNCHANGED vars
  BY <1>15 DEF vars
<1> QED
  BY <1>1, <1>2, <1>3, <1>4, <1>5, <1>6, <1>7, <1>8, <1>9, <1>10, <1>11, <1>12, <1>13, <1>14, <1>15, ZenonT(60) DEF Next, Step

(* The initial state has the invariant. *)
LEMMA InitIInv == Init => IInv
<1> SUFFICES ASSUME Init PROVE IInv
  OBVIOUS
<1>1. TableTypes
  BY DEF Init, TableTypes, NoChain, NoHolder
<1>2. TaskTypes /\ CallsOK
  BY KvAssumption DEF Init, TaskTypes, PCs, CallsOK, Live
<1>3. LockDiscipline
  BY KvAssumption, ZenonT(60) DEF Init, LockDiscipline, InCritical, NoHolder
<1>4. ScanStillValid
  BY ZenonT(60) DEF Init, ScanStillValid
<1>5. ChainsWellFormed
  BY DEF Init, ChainsWellFormed, NoChain
<1> QED
  BY <1>1, <1>2, <1>3, <1>4, <1>5 DEF IInv, TypeOK

(* IInv is an inductive invariant of the key-value store. *)
THEOREM Invariance == Spec => []IInv
<1>1. IInv /\ [Next]_vars => IInv'
  BY TableTypesStep, TaskTypesStep, CallsStep, LockStep, ScanStep, ChainStep
     DEF IInv, TypeOK
<1> QED
  BY InitIInv, <1>1, PTL DEF Spec

(* Type correctness of the chains, the locks and the tasks' call records. *)
THEOREM TypeCorrect == Spec => []TypeOK
<1>1. IInv => TypeOK
  BY DEF IInv
<1> QED
  BY Invariance, <1>1, PTL

(* For any number of threads, processes and buckets, write_kv and read_kv      *)
(* hold a bucket's spinlock exactly inside their critical sections.            *)
THEOREM Locking == Spec => []LockDiscipline
<1>1. IInv => LockDiscipline
  BY DEF IInv
<1> QED
  BY Invariance, <1>1, PTL

(* For any number of threads, processes and buckets, a chain never holds a key *)
(* twice nor a key of another bucket.                                          *)
THEOREM Chains == Spec => []ChainsWellFormed
<1>1. IInv => ChainsWellFormed
  BY DEF IInv
<1> QED
  BY Invariance, <1>1, PTL

(* What write_kv's walk saw is still true after kmalloc, whoever ran meanwhile. *)
THEOREM ScanValidity == Spec => []ScanStillValid
<1>1. IInv => ScanStillValid
  BY DEF IInv
<1> QED
  BY Invariance, <1>1, PTL
=============================================================================
